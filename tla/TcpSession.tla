------------------------------ MODULE TcpSession ------------------------------
(***************************************************************************)
(* TCP through the TUN device.  TunDevice rewrites every packet with the   *)
(* help of SessionManager's table of records, keyed by the client's port;  *)
(* TunTcpInbound accepts the rewritten connection, looks the record up and *)
(* hands the socket to Dispatcher::submit_tcp; TcpAdapter pumps the two    *)
(* directions, and a guard per direction decrements the record's           *)
(* "available" counter, whose zero lets the periodic flush evict the       *)
(* record and marks the connection's context as finished.  The API's       *)
(* stop_conn and stop_all_conn cancel the connection's tasks and mark its  *)
(* context themselves, at whatever point its adapter is.                   *)
(*                                                                         *)
(*   src/boltconn/src/proxy/{manager,session_ctl,tun_inbound,dispatcher,   *)
(*                           context}.rs                                   *)
(*   src/boltconn/src/network/tun_device.rs                                *)
(*   src/boltconn/src/adapter/{mod,tcp_adapter}.rs                         *)
(*   src/boltconn/src/external/controller.rs (stop_conn, stop_all_conn)    *)
(***************************************************************************)
EXTENDS Integers, FiniteSets

CONSTANTS Conns,            \* the connections the clients open
          Ports,            \* client source ports
          Dests,            \* destinations
          Outcomes,         \* how submit_tcp may end
          Stoppable,        \* the connections the API may be asked to stop
          PortReuse,        \* when a client may use a port again:
                            \*   "never", "closed" (its own socket is closed)
                            \*   or "shared" (also for another destination)
          None              \* no record, no port, no destination

AllOutcomes == {"ok", "reject", "blackhole", "badcert"}

ASSUME TSAssumption == /\ Outcomes \subseteq AllOutcomes
                       /\ Stoppable \subseteq Conns
                       /\ PortReuse \in {"never", "closed", "shared"}
                       /\ IsFiniteSet(Conns) /\ IsFiniteSet(Ports)
                       /\ None \notin Ports \cup Dests
                       /\ None \notin [dst : Dests, cell : Nat]

VARIABLES records,          \* tcp_records: port -> [dst, cell] or None
          cell,             \* the AtomicU8s that records and guards share
          st,               \* where a connection is
          client,           \* the client's socket: "none", "open", "closed"
          port, dst,        \* the client's port and the destination it wants
          target,           \* the destination the dispatcher was given
          own,              \* the cell the connection's guards hold
          outer, inner,     \* the two directions of TcpAdapter::run
          done,             \* ConnContext.done
          cancelled,        \* the ConnAbortHandle was cancelled, by anyone
          api               \* ConnContext::abort, called by the API: "no",
                            \* "called" (cancel() made) or "marked" (returned)

net == <<client, port, dst>>
conn == <<st, target, own>>
stop == <<cancelled, api>>
halves == <<outer, inner, done, stop>>
vars == <<records, cell, net, conn, halves>>

\* Arcs are freed with their last reference; one free cell is always left.
Cells == 1 .. (Cardinality(Conns) + Cardinality(Ports) + 1)
InUse(k) == \/ \E p \in Ports : records[p] # None /\ records[p].cell = k
            \/ \E c \in Conns : own[c] = k
FreeCell == CHOOSE k \in Cells : ~InUse(k)

\* fetch_sub(1) on an AtomicU8 wraps.
U8Dec(n) == (n + 255) % 256

Init == /\ records = [p \in Ports |-> None]
        /\ cell = [k \in Cells |-> 0]
        /\ st = [c \in Conns |-> "free"]
        /\ client = [c \in Conns |-> "none"]
        /\ port = [c \in Conns |-> None]
        /\ dst = [c \in Conns |-> None]
        /\ target = [c \in Conns |-> None]
        /\ own = [c \in Conns |-> 0]
        /\ outer = [c \in Conns |-> "none"]
        /\ inner = [c \in Conns |-> "none"]
        /\ done = [c \in Conns |-> FALSE]
        /\ cancelled = [c \in Conns |-> FALSE]
        /\ api = [c \in Conns |-> "no"]

-------------------------------------------------------------------------------
(* SessionManager *)

\* register_tcp_session: insert, or replace when the destination differs.
NeedsNewRecordOnlyIfVacant(p, d) == records[p] = None
NeedsNewRecord(p, d) == records[p] # None => records[p].dst # d

Register(p, d) ==
  IF NeedsNewRecord(p, d)
  THEN /\ records' = [records EXCEPT ![p] = [dst |-> d, cell |-> FreeCell]]
       /\ cell' = [cell EXCEPT ![FreeCell] = 2]
  ELSE UNCHANGED <<records, cell>>

\* flush, run by flush_with_interval: evict the records whose counter is 0.
ExpiredWhenHalfClosed(p) == cell[records[p].cell] < 2
Expired(p) == cell[records[p].cell] = 0

Flush == /\ \E p \in Ports : records[p] # None /\ Expired(p)
         /\ records' = [p \in Ports |->
                          IF records[p] # None /\ Expired(p) THEN None
                          ELSE records[p]]
         /\ UNCHANGED <<cell, net, conn, halves>>

-------------------------------------------------------------------------------
(* The clients and TunDevice::forwarding_packet                            *)

\* May a client open a connection from p to d now?  Its own kernel only
\* forbids a 4-tuple that is still in use.
MayUse(p, d) ==
  \A c \in Conns : port[c] = p =>
     CASE PortReuse = "never"  -> FALSE
       [] PortReuse = "closed" -> client[c] = "closed"
       [] PortReuse = "shared" -> client[c] = "closed" \/ dst[c] # d

\* The first packet of a connection: it is registered and rewritten to
\* (d, p) -> nat_addr, where the listener's kernel queues it.
Open(c, p, d) == /\ st[c] = "free"
                 /\ MayUse(p, d)
                 /\ Register(p, d)
                 /\ st' = [st EXCEPT ![c] = "syn"]
                 /\ client' = [client EXCEPT ![c] = "open"]
                 /\ port' = [port EXCEPT ![c] = p]
                 /\ dst' = [dst EXCEPT ![c] = d]
                 /\ UNCHANGED <<target, own, halves>>

\* Every later packet of a client goes through register_tcp_session too, the
\* FIN or RST of its close included, also after its record was evicted.
Sends(c) == /\ client[c] = "open"
            /\ Register(port[c], dst[c])

ClientPacket(c) == /\ Sends(c)
                   /\ NeedsNewRecord(port[c], dst[c])
                   /\ UNCHANGED <<net, conn, halves>>

ClientClose(c) == /\ Sends(c)
                  /\ client' = [client EXCEPT ![c] = "closed"]
                  /\ UNCHANGED <<port, dst, conn, halves>>

\* A packet of the listener's socket back to the client: lookup_tcp_session
\* by the client's port, then rewrite_addr(conn_dst, conn_src).
ReplyFrom(c) == IF records[port[c]] = None THEN None
                ELSE records[port[c]].dst

-------------------------------------------------------------------------------
(* TunTcpInbound::run: one connection at a time, submit_tcp included.      *)

ListenerIdle == \A c \in Conns : st[c] \notin {"lookup", "err"}

Accept(c) == /\ st[c] = "syn" /\ ListenerIdle
             /\ LET r == records[port[c]]
                IN  IF r = None
                    THEN /\ st' = [st EXCEPT ![c] = "dead"]
                         /\ UNCHANGED <<target, own>>
                    ELSE /\ st' = [st EXCEPT ![c] = "lookup"]
                         /\ target' = [target EXCEPT ![c] = r.dst]
                         /\ own' = [own EXCEPT ![c] = r.cell]
             /\ UNCHANGED <<records, cell, net, halves>>

\* submit_tcp matches the rules and creates the outbound.
DispatchOk(c) == /\ st[c] = "lookup" /\ "ok" \in Outcomes
                 /\ st' = [st EXCEPT ![c] = "live"]
                 /\ outer' = [outer EXCEPT ![c] = "spawned"]
                 /\ UNCHANGED <<records, cell, net, target, own, inner, done, stop>>

\* BadChain or Reject, before any task is spawned.
DispatchReject(c) == /\ st[c] = "lookup" /\ "reject" \in Outcomes
                     /\ st' = [st EXCEPT ![c] = "err"]
                     /\ UNCHANGED <<records, cell, net, target, own, halves>>

\* BlackHole: the stream is dropped after 30s, the counter is left alone.
DispatchBlackHole(c) == /\ st[c] = "lookup" /\ "blackhole" \in Outcomes
                        /\ st' = [st EXCEPT ![c] = "hole"]
                        /\ UNCHANGED <<records, cell, net, target, own, halves>>

\* BadMitmCert: the error is returned after TcpAdapter was spawned.
DispatchBadCert(c) == /\ st[c] = "lookup" /\ "badcert" \in Outcomes
                      /\ st' = [st EXCEPT ![c] = "err"]
                      /\ outer' = [outer EXCEPT ![c] = "spawned"]
                      /\ UNCHANGED <<records, cell, net, target, own, inner, done, stop>>

\* The listener's arm for any other error: indicator.store(0).
StoreZeroForgotten(c) == /\ st[c] = "err"
                         /\ st' = [st EXCEPT ![c] =
                                     IF outer[c] = "none" THEN "dead" ELSE "stray"]
                         /\ UNCHANGED <<records, cell, net, target, own, halves>>

StoreZero(c) == /\ st[c] = "err"
                /\ cell' = [cell EXCEPT ![own[c]] = 0]
                /\ st' = [st EXCEPT ![c] =
                            IF outer[c] = "none" THEN "dead" ELSE "stray"]
                /\ UNCHANGED <<records, net, target, own, halves>>

-------------------------------------------------------------------------------
(* TcpAdapter::run and its TcpIndicatorGuards                              *)

\* First poll of the spawned task: it spawns the other direction and creates
\* its guard.  The runtime does not poll a task that was aborted.
FirstPoll(c) == /\ outer[c] = "spawned" /\ ~cancelled[c]
                /\ outer' = [outer EXCEPT ![c] = "open"]
                /\ inner' = [inner EXCEPT ![c] = "open"]
                /\ UNCHANGED <<records, cell, net, conn, done, stop>>

\* A task aborted before that is dropped without its guards.
AbortBeforePoll(c) == /\ outer[c] = "spawned" /\ cancelled[c]
                      /\ outer' = [outer EXCEPT ![c] = "lost"]
                      /\ UNCHANGED <<records, cell, net, conn, inner, done, stop>>

\* A direction ends (EOF, error or abort) and its guard is dropped:
\* fetch_sub(1), then load() == 0 in a second step, then mark_fin.
Sub(c) == cell' = [cell EXCEPT ![own[c]] = U8Dec(@)]
LoadsZeroBeforeSub(c) == cell[own[c]] = 1
LoadsZero(c) == cell[own[c]] = 0

EndOuter(c) == /\ outer[c] = "open"
               /\ Sub(c)
               /\ outer' = [outer EXCEPT ![c] = "subbed"]
               /\ UNCHANGED <<records, net, conn, inner, done, stop>>

EndInner(c) == /\ inner[c] = "open"
               /\ Sub(c)
               /\ inner' = [inner EXCEPT ![c] = "subbed"]
               /\ UNCHANGED <<records, net, conn, outer, done, stop>>

CheckOuter(c) == /\ outer[c] = "subbed"
                 /\ outer' = [outer EXCEPT ![c] = "gone"]
                 /\ done' = [done EXCEPT ![c] = @ \/ LoadsZero(c)]
                 /\ UNCHANGED <<records, cell, net, conn, inner, stop>>

CheckInner(c) == /\ inner[c] = "subbed"
                 /\ inner' = [inner EXCEPT ![c] = "gone"]
                 /\ done' = [done EXCEPT ![c] = @ \/ LoadsZero(c)]
                 /\ UNCHANGED <<records, cell, net, conn, outer, stop>>

-------------------------------------------------------------------------------
(* Who ends a connection.  The handle of a stray task was never fulfilled  *)
(* and its context was never pushed: nobody can abort it.                  *)

\* ConnAbortHandle::cancel by the outbound or by one of the two directions:
\* the adapter's task, which is the outer direction, is aborted.  The inner
\* one is another task, which the handle does not hold.
CancelTasks(c) == cancelled' = [cancelled EXCEPT ![c] = TRUE]

Cancel(c) == /\ st[c] = "live" /\ ~cancelled[c]
             /\ CancelTasks(c)
             /\ UNCHANGED <<records, cell, net, conn, outer, inner, done, api>>

\* stop_conn and stop_all_conn call ConnContext::abort: cancel() and then
\* mark_fin().  A second call finds nothing left to change.
StopConn(c) == /\ c \in Stoppable /\ st[c] = "live" /\ api[c] = "no"
               /\ CancelTasks(c)
               /\ api' = [api EXCEPT ![c] = "called"]
               /\ UNCHANGED <<records, cell, net, conn, outer, inner, done>>

StopMarks(c) == /\ api[c] = "called"
                /\ done' = [done EXCEPT ![c] = TRUE]
                /\ api' = [api EXCEPT ![c] = "marked"]
                /\ UNCHANGED <<records, cell, net, conn, outer, inner, cancelled>>

-------------------------------------------------------------------------------

Next == \/ Flush
        \/ \E c \in Conns :
             \/ \E p \in Ports, d \in Dests : Open(c, p, d)
             \/ ClientPacket(c) \/ ClientClose(c)
             \/ Accept(c)
             \/ DispatchOk(c) \/ DispatchReject(c)
             \/ DispatchBlackHole(c) \/ DispatchBadCert(c)
             \/ StoreZero(c)
             \/ FirstPoll(c) \/ AbortBeforePoll(c)
             \/ EndOuter(c) \/ EndInner(c) \/ CheckOuter(c) \/ CheckInner(c)
             \/ Cancel(c) \/ StopConn(c) \/ StopMarks(c)

Spec == Init /\ [][Next]_vars

\* The runtime drops an aborted task where it awaits.  When the outer
\* direction ends, DuplexCloseGuard aborts the inner one after 30 s at most.
EndedByAbort(c) == cancelled[c] /\ EndOuter(c)
EndedByGuard(c) == outer[c] \in {"subbed", "gone"} /\ EndInner(c)

(***************************************************************************)
(* The flush task ticks for ever, the listener loop runs, spawned tasks    *)
(* are polled or dropped, aborted ones end and a guard's drop runs to its  *)
(* end.  Nothing makes a client close or a direction end by itself, and    *)
(* nobody has to stop a connection.                                        *)
(***************************************************************************)
Fairness == /\ WF_vars(Flush)
            /\ \A c \in Conns :
                 /\ WF_vars(Accept(c))
                 /\ WF_vars(\/ DispatchOk(c) \/ DispatchReject(c)
                            \/ DispatchBlackHole(c) \/ DispatchBadCert(c))
                 /\ WF_vars(StoreZero(c))
                 /\ WF_vars(FirstPoll(c) \/ AbortBeforePoll(c))
                 /\ WF_vars(EndedByAbort(c)) /\ WF_vars(EndedByGuard(c))
                 /\ WF_vars(CheckOuter(c))
                 /\ WF_vars(CheckInner(c))
                 /\ WF_vars(StopMarks(c))

FairSpec == Spec /\ Fairness

-------------------------------------------------------------------------------
(* Properties *)

\* c is the only connection that ever held its counter, or used its port.
Alone(c) == \A d \in Conns \ {c} : own[d] # own[c]
OnlyOneOnPort(c) == \A d \in Conns \ {c} : port[d] # port[c]

HalfOpen(h) == h \in {"spawned", "open"}
Serving(c) == HalfOpen(outer[c]) \/ HalfOpen(inner[c])
BothGone(c) == outer[c] = "gone" /\ inner[c] = "gone"

InTable(k) == \E p \in Ports : records[p] # None /\ records[p].cell = k

\* A connection is dispatched to the destination its client asked for, also
\* when the client's port was used for another destination before and that
\* record was not yet evicted.  (Violated when a client's kernel lets two open
\* connections to different destinations share a source port.)
DispatchedToItsDest ==
  \A c \in Conns : client[c] = "open" /\ target[c] # None => target[c] = dst[c]

\* While the adapter serves a connection, half-closed or not, packets back to
\* its client are rewritten with the address the client connected to and never
\* dropped for want of a record: no flush evicts it too early.
RepliesRewritten ==
  \A c \in Conns :
     st[c] = "live" /\ Serving(c) /\ OnlyOneOnPort(c) => ReplyFrom(c) = dst[c]

\* The two guards of a connection race: each subtracts and then reads in two
\* steps.  When both are gone the context is finished.  It is finished while a
\* direction is open only when the API stopped the connection, and then its
\* tasks were cancelled before it was marked.
FinishedWithBothHalves ==
  \A c \in Conns : st[c] = "live" /\ Alone(c) =>
     /\ BothGone(c) => done[c]
     /\ done[c] /\ Serving(c) => api[c] = "marked" /\ cancelled[c]

\* Once the outer direction of a connection has ended, or the connection was
\* cancelled with its directions open, or its dispatch was refused, the flush
\* evicts the record that counted for it: the other direction follows.
ServedSessionEvicted ==
  \A c \in Conns :
     \/ st[c] = "live" /\ outer[c] \in {"subbed", "gone"}
     \/ st[c] = "live" /\ outer[c] = "open" /\ cancelled[c]
     \/ st[c] = "dead" /\ own[c] # 0
       ~> ~InTable(own[c]) \/ ~Alone(c)
===============================================================================
