------------------------------ MODULE UdpSession ------------------------------
(***************************************************************************)
(* UDP through BoltConn.  TunUdpInbound handles the packets of the TUN     *)
(* device one at a time: it keeps a session per source address, whose      *)
(* "probe" (an AtomicBool) is shared with the adapter's tasks and with     *)
(* SessionManager's record of the source PORT; the flush of an old record  *)
(* clears the probe, and that is how a UDP session ends.  The adapter does *)
(* not look at the probe while it waits for its outbound to take a packet. *)
(*                                                                         *)
(*   src/boltconn/src/proxy/{tun_udp_inbound,manager,session_ctl}.rs       *)
(*   src/boltconn/src/proxy/dispatcher.rs                                  *)
(*   src/boltconn/src/adapter/{udp_adapter,mod}.rs                         *)
(***************************************************************************)
EXTENDS Naturals, Sequences, FiniteSets, Functions

CONSTANTS Srcs,             \* source addresses seen on the TUN device
          Port,             \* Port[s]: the port of source address s
          Policy,           \* Policy[d]: what the rules say of destination d,
                            \*   "proxy", "reject" or "blackhole"
          Sessions,         \* bound: sessions that may exist at a time
          ChanCap,          \* capacity of a session's channel (20)
          None

Dests == DOMAIN Policy
Ports == Range(Port)

ASSUME USAssumption == /\ DOMAIN Port = Srcs
                       /\ Range(Policy) \subseteq {"proxy", "reject", "blackhole"}
                       /\ ChanCap \in Nat \ {0}
                       /\ IsFiniteSet(Ports) /\ IsFiniteSet(Sessions)
                       /\ None \notin Srcs \cup Ports \cup Sessions
                       /\ None \notin [cell : Nat, old : BOOLEAN]

VARIABLES rec,              \* udp_records: port -> [cell, old] or None
          probe,            \* the AtomicBools
          entry,            \* TunUdpInbound.mapping: source -> session or None
          permit,           \* remote_permit of an entry: "yes", "no", "unknown"
          main,             \* the packet TunUdpInbound::run is handling
          sess,             \* the sessions and their tasks
          leaked            \* rejected destinations whose packets reached an outbound's
                            \* tx.send() (history)

vars == <<rec, probe, entry, permit, main, sess, leaked>>

\* An Arc lives while a record or a session refers to it; one is always free.
Cells == 1 .. (Cardinality(Sessions) + Cardinality(Ports) + 1)
InUse(k) == \/ \E p \in Ports : rec[p] # None /\ rec[p].cell = k
            \/ \E i \in Sessions : sess[i].phase # "free" /\ sess[i].cell = k
FreeCell == CHOOSE k \in Cells : ~InUse(k)

Idle == [at |-> "idle", src |-> None, dst |-> None]
NoPermits == [d \in Dests |-> "unknown"]
Free == [phase |-> "free"]

Init == /\ rec = [p \in Ports |-> None]
        /\ probe = [k \in Cells |-> FALSE]
        /\ entry = [s \in Srcs |-> None]
        /\ permit = [s \in Srcs |-> NoPermits]
        /\ main = Idle
        /\ sess = [i \in Sessions |-> Free]
        /\ leaked = {}

Phase(i) == sess[i].phase
Cell(i) == sess[i].cell
Alive(i) == probe[Cell(i)]
Live(i) == Phase(i) \in {"up", "broken", "aborted"}  \* tasks are running
Mapped(i) == \E s \in Srcs : entry[s] = i

\* A session is forgotten when its tasks are gone and the mapping does not
\* refer to it: "down" is a session whose tasks ended, "shut" one that never
\* had any.
SetPhase(i, ph) == sess' = [sess EXCEPT ![i].phase = ph]

\* The tasks of session i end, with its channel.
EndsAs(i, ph, fin) ==
  sess' = [sess EXCEPT ![i] =
             IF Mapped(i)
             THEN [sess[i] EXCEPT !.phase = ph, !.chan = <<>>, !.loop = "test",
                                  !.done = sess[i].done \/ fin]
             ELSE Free]

-------------------------------------------------------------------------------
(* SessionManager: get_udp_probe and flush *)

\* The record of the port, old or new, dead or not; or a fresh one.
ProbeCell(p) == IF rec[p] # None THEN rec[p].cell ELSE FreeCell
GetUdpProbe(p) ==
  IF rec[p] # None
  THEN UNCHANGED <<rec, probe>>
  ELSE /\ rec' = [rec EXCEPT ![p] = [cell |-> FreeCell, old |-> FALSE]]
       /\ probe' = [probe EXCEPT ![FreeCell] = TRUE]

\* udp_stale_time after its creation a record is expired, used or not:
\* nothing updates last_time.
Expire(p) == /\ rec[p] # None /\ ~rec[p].old
             /\ rec' = [rec EXCEPT ![p].old = TRUE]
             /\ UNCHANGED <<probe, entry, permit, main, sess, leaked>>

InvalidateNothing(k) == FALSE
Invalidated(k) == \E p \in Ports : rec[p] # None /\ rec[p].old /\ rec[p].cell = k

Flush == /\ \E p \in Ports : rec[p] # None /\ rec[p].old
         /\ rec' = [p \in Ports |-> IF rec[p] # None /\ rec[p].old THEN None
                                    ELSE rec[p]]
         /\ probe' = [k \in Cells |-> probe[k] /\ ~Invalidated(k)]
         /\ UNCHANGED <<entry, permit, main, sess, leaked>>

-------------------------------------------------------------------------------
(* TunUdpInbound::run and send_payload: one packet at a time.              *)

Recv(s, d) == /\ main = Idle
              /\ main' = [at |-> "lookup", src |-> s, dst |-> d]
              /\ UNCHANGED <<rec, probe, entry, permit, sess, leaked>>

EntryDeadWhenRecordOld(s) == rec[Port[s]] # None /\ rec[Port[s]].old
EntryDead(s) == ~Alive(entry[s])

\* Occupied, "connection has been invalid": the entry is removed and
\* send_payload is called again.
RemoveEntry == /\ main.at = "lookup"
               /\ entry[main.src] # None /\ EntryDead(main.src)
               /\ entry' = [entry EXCEPT ![main.src] = None]
               /\ permit' = [permit EXCEPT ![main.src] = NoPermits]
               /\ sess' = [sess EXCEPT ![entry[main.src]] =
                             IF @.phase \in {"down", "shut"} THEN Free ELSE @]
               /\ UNCHANGED <<rec, probe, main, leaked>>

\* Occupied and valid: send, drop or ask the dispatcher, as remote_permit says.
UseEntry == /\ main.at = "lookup"
            /\ LET i == entry[main.src]
               IN  /\ i # None /\ ~EntryDead(main.src)
                   /\ main' = CASE permit[main.src][main.dst] = "unknown" ->
                                     [main EXCEPT !.at = "ask"]
                                [] permit[main.src][main.dst] = "yes" ->
                                     [main EXCEPT !.at = "send"]
                                [] permit[main.src][main.dst] = "no" -> Idle
            /\ UNCHANGED <<rec, probe, entry, permit, sess, leaked>>

\* allow_tun_udp, awaited; the answer is cached.
PermitsAll(d) == TRUE
Permits(d) == Policy[d] # "reject"

Ask == /\ main.at = "ask"
       /\ permit' = [permit EXCEPT ![main.src][main.dst] =
                       IF Permits(main.dst) THEN "yes" ELSE "no"]
       /\ main' = IF Permits(main.dst) THEN [main EXCEPT !.at = "send"] ELSE Idle
       /\ UNCHANGED <<rec, probe, entry, sess, leaked>>

\* sender.send().await: waits for room; an error (no receiver) is ignored.
Receiving(i) == Phase(i) \in {"hole", "up", "broken", "aborted"}

Send == /\ main.at = "send"
        /\ LET i == entry[main.src]
           IN  IF Receiving(i)
               THEN /\ Len(sess[i].chan) < ChanCap
                    /\ sess' = [sess EXCEPT ![i].chan = Append(@, main.dst)]
               ELSE sess' = sess
        /\ main' = Idle
        /\ UNCHANGED <<rec, probe, entry, permit, leaked>>

\* Vacant: a new session, with the packet in its channel and whatever probe
\* the port's record has.
Create == /\ main.at = "lookup" /\ entry[main.src] = None
          /\ \E i \in Sessions : Phase(i) = "free"
          /\ LET i == CHOOSE j \in Sessions : Phase(j) = "free"
             IN  /\ sess' = [sess EXCEPT ![i] =
                               [phase |-> "new", src |-> main.src,
                                cell |-> ProbeCell(Port[main.src]),
                                chan |-> <<main.dst>>, loop |-> "test",
                                done |-> FALSE]]
                 /\ entry' = [entry EXCEPT ![main.src] = i]
          /\ GetUdpProbe(Port[main.src])
          /\ main' = [main EXCEPT !.at = "submit"]
          /\ UNCHANGED <<permit, leaked>>

\* submit_tun_udp_session and what send_payload makes of its result.
SubmitPhase(d) == CASE Policy[d] = "proxy"     -> "up"
                    [] Policy[d] = "blackhole" -> "hole"
                    [] Policy[d] = "reject"    -> "shut"
Submit == /\ main.at = "submit"
          /\ LET i == entry[main.src]
                 ph == SubmitPhase(main.dst)
             IN  /\ sess' = [sess EXCEPT ![i].phase = ph,
                               ![i].chan = IF ph = "shut" THEN <<>> ELSE @]
                 /\ probe' = [probe EXCEPT ![Cell(i)] =
                                @ /\ Policy[main.dst] # "reject"]
          /\ main' = Idle
          /\ UNCHANGED <<rec, entry, permit, leaked>>

\* The receiver of a black-holed session is dropped after 30s.
HoleKept(i) == Phase(i) = "hole" /\ UNCHANGED vars
HoleDrops(i) == /\ Phase(i) = "hole"
                /\ EndsAs(i, "shut", FALSE)
                /\ UNCHANGED <<rec, probe, entry, permit, main, leaked>>

-------------------------------------------------------------------------------
(* TunUdpAdapter::run with the outbound task.                              *)
(* mark_fin is done' = TRUE; abort_handle.cancel() aborts all tasks.       *)

Ends(i, fin) == EndsAs(i, "down", fin)

\* The loop from the inbound tests the probe, then waits for a packet.
Poll(i) == /\ Live(i) /\ sess[i].loop = "test" /\ Alive(i)
           /\ sess' = [sess EXCEPT ![i].loop = "recv"]
           /\ UNCHANGED <<rec, probe, entry, permit, main, leaked>>

\* A packet is there, though the probe may be cleared by now: tx.send() is
\* called with it.
Rejected(d) == IF Policy[d] = "reject" THEN {d} ELSE {}

Take(i) == /\ Live(i) /\ sess[i].loop = "recv"
           /\ sess[i].chan # <<>>
           /\ leaked' = leaked \cup Rejected(Head(sess[i].chan))
           /\ sess' = [sess EXCEPT ![i].chan = Tail(@), ![i].loop = "send"]
           /\ UNCHANGED <<rec, probe, entry, permit, main>>

\* tx.send().await on the connector's bounded channel has no timeout: it
\* returns when the outbound takes data.  The probe is tested again.
HandOver(i) == /\ Phase(i) = "up" /\ sess[i].loop = "send"
               /\ sess' = [sess EXCEPT ![i].loop = IF Alive(i) THEN "recv" ELSE "test"]
               /\ UNCHANGED <<rec, probe, entry, permit, main, leaked>>

\* The probe is cleared; the loop sees it at the latest after the probe
\* interval, unless it is in tx.send(), and ends: mark_fin, cancel.
SeesDead(i) == /\ Phase(i) \in {"up", "broken"} /\ ~Alive(i)
               /\ sess[i].loop # "send"
               /\ Ends(i, TRUE)
               /\ UNCHANGED <<rec, probe, entry, permit, main, leaked>>

\* The outbound is gone, and the packet cannot be handed to it: the loop
\* clears the probe and ends.
SendFails(i) == /\ Phase(i) \in {"broken", "aborted"} /\ sess[i].loop = "send"
                /\ probe' = [probe EXCEPT ![Cell(i)] = FALSE]
                /\ Ends(i, TRUE)
                /\ UNCHANGED <<rec, entry, permit, main, leaked>>

\* spawn_udp fails before the outbound is established: its connector is dropped.
OutboundFails(i) == /\ Phase(i) = "up"
                    /\ SetPhase(i, "broken")
                    /\ UNCHANGED <<rec, probe, entry, permit, main, leaked>>

\* The loop to the inbound sees the closed connector: mark_fin, cancel.  The
\* probe stays as it is.
SeesClosed(i) == /\ Phase(i) = "broken"
                 /\ Ends(i, TRUE)
                 /\ UNCHANGED <<rec, probe, entry, permit, main, leaked>>

\* established_udp ends in either direction and cancels the connection: the
\* adapter is aborted at its next await and never calls mark_fin.
OutboundEnds(i) == /\ Phase(i) = "up"
                   /\ SetPhase(i, "aborted")
                   /\ UNCHANGED <<rec, probe, entry, permit, main, leaked>>

AbortLands(i) == /\ Phase(i) = "aborted"
                 /\ Ends(i, FALSE)
                 /\ UNCHANGED <<rec, probe, entry, permit, main, leaked>>

\* Controller::stop_conn: ConnContext::abort is cancel and mark_fin.
StopConn(i) == /\ Live(i) \/ (Phase(i) = "down" /\ ~sess[i].done)
               /\ Ends(i, TRUE)
               /\ UNCHANGED <<rec, probe, entry, permit, main, leaked>>

-------------------------------------------------------------------------------

Next == \/ Flush
        \/ \E p \in Ports : Expire(p)
        \/ \E s \in Srcs, d \in Dests : Recv(s, d)
        \/ RemoveEntry \/ UseEntry \/ Ask \/ Send \/ Create \/ Submit
        \/ \E i \in Sessions :
             \/ HoleDrops(i)
             \/ Poll(i) \/ Take(i) \/ HandOver(i) \/ SeesDead(i) \/ SendFails(i)
             \/ OutboundFails(i) \/ SeesClosed(i)
             \/ OutboundEnds(i) \/ AbortLands(i) \/ StopConn(i)

Spec == Init /\ [][Next]_vars

(***************************************************************************)
(* Time passes and the flush task ticks; the packet loop and the sessions' *)
(* tasks are polled.  Clients need not send, and an outbound need not take *)
(* what it is sent, nor end: HandOver and OutboundEnds have no fairness.   *)
(***************************************************************************)
Fairness == /\ WF_vars(Flush)
            /\ \A p \in Ports : WF_vars(Expire(p))
            /\ WF_vars(RemoveEntry \/ UseEntry \/ Ask \/ Send \/ Create \/ Submit)
            /\ \A i \in Sessions :
                 /\ WF_vars(HoleDrops(i))
                 /\ WF_vars(Poll(i) \/ Take(i) \/ SeesDead(i) \/ SendFails(i)
                            \/ SeesClosed(i) \/ AbortLands(i))

FairSpec == Spec /\ Fairness

-------------------------------------------------------------------------------
(* Properties *)

\* Whatever sessions, cached permits and retries there are, the payload of a
\* packet on the TUN device never leaves for a destination the rules reject.
RejectedNeverRelayed == leaked = {}

\* A session with a live probe is the one its source address is mapped to: no
\* retry leaves a second session of the source running beside it.
LiveSessionIsMapped ==
  \A i \in Sessions : Live(i) /\ Alive(i) => entry[sess[i].src] = i

\* The probe of a session on the TUN device is the one of its port's record, or
\* dead: the flush can reach every session that is alive.
LiveProbeIsRecorded ==
  \A i \in Sessions : Phase(i) # "free" /\ Alive(i) =>
     LET p == Port[sess[i].src] IN rec[p] # None /\ rec[p].cell = Cell(i)

\* The adapter holds a packet that its outbound has not taken: it waits in
\* tx.send() and does not test the probe.
Stalled(i) == Phase(i) = "up" /\ sess[i].loop = "send"

\* "UDP session expires when timeout" (manager.rs): every session of the TUN
\* device ends, unless its outbound stops taking data without ending and the
\* adapter stays in tx.send() for good.
SessionEnds == \A i \in Sessions : []<>~Stalled(i) => (Live(i) ~> ~Live(i))

\* The packet loop, which serves all sources, is never stuck for good on the
\* full channel of a session that nobody reads (a black hole, or one whose
\* tasks ended); only an adapter that stays in tx.send() can hold it.
LoopReturns == (\A i \in Sessions : []<>~Stalled(i))
                  => (main.at # "idle" ~> main.at = "idle")
===============================================================================
