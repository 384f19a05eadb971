------------------------------ MODULE WireGuard -------------------------------
(***************************************************************************)
(* WireGuard as an outbound.  WireguardManager caches one Endpoint per     *)
(* configuration (one here); an Endpoint owns a tunnel, a SmolStack and    *)
(* the tasks that drive them, any of which may stop it; connections attach *)
(* to the cached endpoint or make a new one, resolve their destination     *)
(* through the stack, and open a socket on it.                             *)
(*                                                                         *)
(*   src/boltconn/src/adapter/wireguard.rs                                 *)
(*   src/boltconn/src/transport/{wireguard,smol}.rs                        *)
(***************************************************************************)
EXTENDS SmolStack

CONSTANTS Endpoints,        \* incarnations of the endpoint
          PortOf,           \* the port of a connection, if it is a client's
          Scenes            \* kind: of the connections ("tcp", "tcpname", "udp",
                            \*   "dns" or "none"), and the bounds endpoints: made,
                            \*   stops: whether one may stop, bytes: sent by a
                            \*   client, packets: received, data: of these with data

ASSUME WGAssumption == /\ PortOf \in [Conns -> Ports]
                       /\ \A s \in Scenes : s.bytes \in Nat

VARIABLES ep,               \* the endpoints: their flags and tasks
          stack,            \* the SmolStack of each
          inq,              \* wg_smol channel, of one slot here
          active_conn,      \* the manager's cache
          lock,             \* who holds its mutex while making an endpoint
          conn,             \* the connections
          scene             \* the member of Scenes that is played

vars == <<ep, stack, inq, active_conn, lock, conn, scene>>

\* st: "up", "stop" with a message in the broadcast channel, or "killed"; in:
\* wg_in has not ended; permit: smol_drive's Notify was ever notified (only
\* its first wait has no timeout); round: flips with every round of its loop.
NewEndpoint == [st |-> "up", active |-> TRUE, in |-> TRUE, drive |-> "first", permit |-> FALSE,
                errs |-> 0, round |-> FALSE]

Init == /\ scene \in Scenes
        /\ ep = [e \in Endpoints |-> [NewEndpoint EXCEPT !.st = "none", !.active = FALSE]]
        /\ stack = [e \in Endpoints |-> NewStack]
        /\ inq = [e \in Endpoints |-> None]
        /\ active_conn = None
        /\ lock = None
        /\ conn = [c \in Conns |-> [st |-> "idle", ep |-> None, next |-> 0, data |-> 0,
                                    chan |-> <<>>, closed |-> FALSE, cancelled |-> FALSE]]

SetEp(e, f, v) == ep' = [ep EXCEPT ![e][f] = v]
SetSt(c, s) == conn' = [conn EXCEPT ![c].st = s]
Failed(c) == [conn EXCEPT ![c].st = "failed", ![c].closed = TRUE]

Attaching == {"got", "looking", "resolved"}

\* The stack goes with its last Arc: the endpoint's, held by the cache and by
\* connections that attach, and smol_drive's.  Its tasks then cancel their
\* connections (Drop for TcpConnTask and UdpConnTask).
StackAlive(e) == \/ active_conn = e
                 \/ ep[e].drive # "end"
                 \/ \E c \in Conns : conn[c].ep = e /\ conn[c].st \in Attaching

Ended(c) == \/ conn[c].st = "failed"
            \/ conn[c].cancelled
            \/ conn[c].st = "open" /\ ~StackAlive(conn[c].ep)

-------------------------------------------------------------------------------
(* The tasks of an endpoint *)

\* A task ends with a stop message.  The channel holds one, and the receiver
\* takes a lagging receipt for a message too: more of them change nothing.
Stops(e) == /\ ep[e].st = "up" /\ scene.stops
            /\ UNCHANGED <<stack, inq, active_conn, lock, conn, scene>>
Stop(e) == ep' = [ep EXCEPT ![e].st = "stop"]

\* send_outgoing_packet waits for a packet of the stack, and may fail to
\* send it.
WantsToSend(s) == s # Nil /\ (\/ s.st \in {"syn", "finwait1", "closing", "lastack"}
                              \/ s.unacked > 0)
SendOutgoingPacket(e) == \E h \in Handles : WantsToSend(stack[e].sockets[h])
WgOutFails(e) == Stops(e) /\ SendOutgoingPacket(e) /\ Stop(e)

\* wg_in: the socket fails.
WgInFails(e) == Stops(e) /\ ep' = [ep EXCEPT ![e].st = "stop", ![e].in = FALSE]

\* wg_tick: nothing to do, a message sent, or an error; two errors with no
\* message sent in between stop the endpoint.
Tick == {"quiet", "sent", "error"}
WgTick(e) ==
  /\ Stops(e)
  /\ \E r \in Tick \ {"quiet"} :
       ep' = [ep EXCEPT ![e].errs = IF r = "sent" THEN 0 ELSE 1,
                        ![e].st = IF r = "error" /\ ep[e].errs = 1 THEN "stop" ELSE @]

\* The timer: nothing was sent or received for long enough.
TimeoutInactive(e) == Stops(e) /\ ep' = [ep EXCEPT ![e].st = "stop", ![e].active = FALSE]

\* receive_incoming_packet: a packet for a socket goes to the stack, which is
\* notified.
WgIn(e) ==
  /\ ep[e].st \in {"up", "stop"} /\ ep[e].in /\ inq[e] = None
  /\ \E h \in Handles, kind \in scene.packets :
       LET s == stack[e].sockets[h] IN
       /\ s # Nil
       /\ Receive(s, kind) # s
       /\ kind = "data" => conn[s.owner].data < scene.data
       /\ inq' = [inq EXCEPT ![e] = [c |-> s.owner, kind |-> kind]]
       /\ conn' = [conn EXCEPT ![s.owner].data = IF kind = "data" THEN @ + 1 ELSE @]
  /\ SetEp(e, "permit", TRUE)
  /\ UNCHANGED <<stack, active_conn, lock, scene>>

\* The last task waits for a stop and ends the others.
Kill(e) == /\ ep[e].st = "stop"
           /\ ep' = [ep EXCEPT ![e].st = "killed", ![e].active = FALSE]
           /\ UNCHANGED <<stack, inq, active_conn, lock, conn, scene>>

\* smol_drive's canary.
AliveForever(e) == TRUE
Alive(e) == ep[e].st # "killed"

\* smol_drive: the wait before the loop, a round of it, and its end.
DriveFirst(e) == /\ ep[e].drive = "first" /\ ep[e].permit
                 /\ SetEp(e, "drive", "run")
                 /\ UNCHANGED <<stack, inq, active_conn, lock, conn, scene>>
DriveEnd(e) == /\ ep[e].drive = "run" /\ ~Alive(e)
               /\ SetEp(e, "drive", "end")
               /\ UNCHANGED <<stack, inq, active_conn, lock, conn, scene>>

\* drive_iface: the queued packet reaches its socket, new sockets send SYNs.
DriveIface(e) ==
  LET Poll(s) == IF s = Nil THEN Nil
                 ELSE IF inq[e] # None /\ inq[e].c = s.owner THEN Receive(s, inq[e].kind)
                 ELSE Transmit(s)
  IN [stack[e] EXCEPT !.sockets = [h \in Handles |-> Poll(@[h])]]

HasData(s) == \E h \in Handles : s.sockets[h] # Nil /\ s.sockets[h].rx > 0

\* full: whose channels to the client have no room; early: see TcpTuning.
NextRound(e) == /\ ep[e].drive = "run" /\ Alive(e)
                /\ ep' = [ep EXCEPT ![e].round = ~@]
Drive(e) ==
  /\ NextRound(e)
  /\ \E arrived \in {DriveIface(e)} :
     \E full \in IF HasData(arrived) THEN {{}, {c \in Conns : ~conn[c].closed}} ELSE {{}},
        early \in IF HasData(arrived) THEN BOOLEAN ELSE {FALSE} :
     \E polled \in {PollAll(arrived, full, early)} : \E kept \in {Purged(polled)} :
       LET gone == {t.owner : t \in Tasks(polled)} \ {t.owner : t \in Tasks(kept)}
           stopped == gone \cup UdpClosed(polled)
       IN /\ stack' = [stack EXCEPT ![e] = kept]
          /\ conn' = [c \in Conns |->
                        IF c \in stopped
                        THEN [conn[c] EXCEPT !.cancelled = TRUE, !.closed = TRUE]
                        ELSE conn[c]]
  /\ inq' = [inq EXCEPT ![e] = None]
  /\ UNCHANGED <<active_conn, lock, scene>>

\* Time passes: half close timeouts, SYNs without an answer, UDP sockets
\* without traffic, and smoltcp's own timer of TimeWait.
Older(t, kind, st) ==
  [t EXCEPT !.half = IF @ = "running" THEN "due" ELSE @,
            !.old = IF kind = "udp" /\ @ < 2 THEN @ + 1
                    ELSE IF kind = "tcp" /\ st \in {"new", "syn"} THEN 1 ELSE @]
TasksAge(e) == \E kind \in {"tcp", "udp"}, p \in Ports :
                 LET t == stack[e][kind][p] IN
                 /\ t # Nil
                 /\ Older(t, kind, stack[e].sockets[t.handle].st) # t
                 /\ stack' = [stack EXCEPT ![e][kind][p] =
                                Older(t, kind, stack[e].sockets[t.handle].st)]
TimeWaitEnds(e) == \E h \in Handles :
                     /\ stack[e].sockets[h] # Nil /\ stack[e].sockets[h].st = "timewait"
                     /\ stack' = [stack EXCEPT ![e].sockets[h].st = "closed"]
TimePasses(e) ==
  /\ ep[e].drive = "run" /\ Alive(e)
  /\ TasksAge(e) \/ TimeWaitEnds(e)
  /\ UNCHANGED <<ep, inq, active_conn, lock, conn, scene>>

-------------------------------------------------------------------------------
(* WireguardManager::get_wg_conn *)

\* spawn_tcp, spawn_udp: the attach task starts.
Spawn(c) == /\ conn[c].st = "idle" /\ scene.kind[c] \notin {"dns", "none"}
            /\ SetSt(c, "attach")
            /\ UNCHANGED <<ep, stack, inq, active_conn, lock, scene>>

Usable(e) == ep[e].active

TakeCached(c) ==
  /\ conn[c].st = "attach" /\ lock = None /\ active_conn # None
  /\ Usable(active_conn)
  /\ conn' = [conn EXCEPT ![c].st = "got", ![c].ep = active_conn]
  /\ UNCHANGED <<ep, stack, inq, active_conn, lock, scene>>
RemoveInactive(c) ==
  /\ conn[c].st = "attach" /\ lock = None /\ active_conn # None
  /\ ~Usable(active_conn)
  /\ active_conn' = None
  /\ UNCHANGED <<ep, stack, inq, lock, conn, scene>>
StartMaking(c) ==
  /\ conn[c].st = "attach" /\ lock = None /\ active_conn = None
  /\ lock' = c /\ SetSt(c, "making")
  /\ UNCHANGED <<ep, stack, inq, active_conn, scene>>

\* The peer's address, the socket and Endpoint::new, or an error of one.
Make(c) ==
  /\ conn[c].st = "making"
  /\ \/ \E e \in Endpoints :
          /\ e <= scene.endpoints /\ ep[e].st = "none"
          /\ \A f \in Endpoints : f < e => ep[f].st # "none"
          /\ ep' = [ep EXCEPT ![e] = NewEndpoint]
          /\ active_conn' = e
          /\ conn' = [conn EXCEPT ![c].st = "got", ![c].ep = e]
     \/ conn' = Failed(c) /\ UNCHANGED <<ep, active_conn>>
  /\ lock' = None
  /\ UNCHANGED <<stack, inq, scene>>

\* connect_timeout drops the attach future, with the guard it may hold.
AttachTimeout(c) ==
  /\ conn[c].st \in Attaching \cup {"attach", "making"}
  /\ conn' = Failed(c)
  /\ lock' = IF lock = c THEN None ELSE lock
  /\ UNCHANGED <<ep, stack, inq, active_conn, scene>>

-------------------------------------------------------------------------------
(* Opening a socket *)

Vacant(e, kind, p) == stack[e][kind][p] = Nil /\ HasSlot(stack[e])

\* genuine_lookup through the tunnel: a socket of its own on a random port,
\* over UDP or TCP; ten tries may all hit taken ports.
Lookup(c) ==
  /\ conn[c].st = "got" /\ scene.kind[c] = "tcpname"
  /\ \/ \E d \in Conns, kind \in {"udp", "tcp"}, p \in Ports :
          /\ scene.kind[d] = "dns" /\ conn[d].st = "idle"
          /\ Vacant(conn[c].ep, kind, p)
          /\ stack' = [stack EXCEPT ![conn[c].ep] = Open(@, kind, d, p)]
          /\ conn' = [conn EXCEPT ![c].st = "looking", ![d].st = "open", ![d].ep = conn[c].ep,
                                  ![d].chan = <<<<1>>>>, ![d].next = 1]
     \/ conn' = Failed(c) /\ UNCHANGED stack
  /\ UNCHANGED <<ep, inq, active_conn, lock, scene>>

\* The answer needs the query to have left the stack's channel.
LookupEnds(c) ==
  /\ conn[c].st = "looking"
  /\ \E d \in Conns :
       /\ scene.kind[d] = "dns" /\ conn[d].ep = conn[c].ep
       /\ \/ /\ conn[d].chan = <<>> /\ conn[d].data > 0
             /\ conn' = [conn EXCEPT ![c].st = "resolved", ![d].closed = TRUE]
          \/ conn' = [Failed(c) EXCEPT ![d].closed = TRUE]
  /\ UNCHANGED <<ep, stack, inq, active_conn, lock, scene>>

StackKind(c) == IF scene.kind[c] = "udp" THEN "udp" ELSE "tcp"

\* open_tcp, open_udp: AddrInUse when the client's port has a task, an error
\* when no address of the interface fits.
OpenConn(c) ==
  /\ conn[c].st = IF scene.kind[c] = "tcpname" THEN "resolved" ELSE "got"
  /\ \/ /\ Vacant(conn[c].ep, StackKind(c), PortOf[c])
        /\ stack' = [stack EXCEPT ![conn[c].ep] = Open(@, StackKind(c), c, PortOf[c])]
        /\ SetSt(c, "open")
     \/ conn' = Failed(c) /\ UNCHANGED stack
  /\ UNCHANGED <<ep, inq, active_conn, lock, scene>>

-------------------------------------------------------------------------------
(* The client and the forwarder of its task *)

Send(c) ==
  /\ conn[c].st = "open" /\ ~conn[c].closed /\ scene.kind[c] # "dns" /\ ~Ended(c)
  /\ \E n \in 1 .. (scene.bytes - conn[c].next), bad \in BOOLEAN :
       /\ bad => scene.kind[c] = "udp"
       /\ conn' = [conn EXCEPT ![c].next = @ + n,
                     ![c].chan = Append(@, IF bad THEN <<0>>
                                           ELSE [i \in 1 .. n |-> conn[c].next + i])]
  /\ UNCHANGED <<ep, stack, inq, active_conn, lock, scene>>
ClientCloses(c) ==
  /\ conn[c].st = "open" /\ ~conn[c].closed /\ scene.kind[c] # "dns"
  /\ conn' = [conn EXCEPT ![c].closed = TRUE]
  /\ UNCHANGED <<ep, stack, inq, active_conn, lock, scene>>

ForTask(e, c, f, v) ==
  LET Upd(t) == IF t # Nil /\ t.owner = c THEN [t EXCEPT ![f] = v] ELSE t
  IN [stack EXCEPT ![e].tcp = [p \in Ports |-> Upd(@[p])],
                   ![e].udp = [p \in Ports |-> Upd(@[p])]]

\* back_rx.recv, tx.send_async and notify_one; a chunk for a purged task is
\* dropped, and the name of a datagram may not resolve.
Forward(c) ==
  LET e == conn[c].ep IN
  /\ conn[c].st = "open" /\ conn[c].chan # <<>>
  /\ \E dropped \in BOOLEAN :
       /\ dropped => scene.kind[c] = "udp"
       /\ stack' = IF dropped \/ TaskOf(stack[e], c) = {} THEN stack
                   ELSE ForTask(e, c, "rx",
                          Append((CHOOSE t \in TaskOf(stack[e], c) : TRUE).rx, Head(conn[c].chan)))
       /\ SetEp(e, "permit", ep[e].permit \/ ~dropped)
  /\ conn' = [conn EXCEPT ![c].chan = Tail(@)]
  /\ UNCHANGED <<inq, active_conn, lock, scene>>
ForwarderEnds(c) ==
  /\ conn[c].st = "open" /\ conn[c].closed /\ conn[c].chan = <<>>
  /\ \E t \in TaskOf(stack[conn[c].ep], c) : ~t.eof
  /\ stack' = ForTask(conn[c].ep, c, "eof", TRUE)
  /\ UNCHANGED <<ep, inq, active_conn, lock, conn, scene>>

-------------------------------------------------------------------------------
Tasklets(e) == WgOutFails(e) \/ WgIn(e) \/ WgInFails(e) \/ WgTick(e)
               \/ TimeoutInactive(e) \/ Kill(e) \/ DriveFirst(e) \/ Drive(e) \/ DriveEnd(e) \/ TimePasses(e)
Connection(c) == Spawn(c) \/ TakeCached(c) \/ RemoveInactive(c) \/ StartMaking(c)
                 \/ Make(c) \/ AttachTimeout(c) \/ Lookup(c) \/ LookupEnds(c) \/ OpenConn(c)
                 \/ Send(c) \/ ClientCloses(c) \/ Forward(c) \/ ForwarderEnds(c)
Next == (\E e \in Endpoints : Tasklets(e)) \/ (\E c \in Conns : Connection(c))

\* Tokio polls every ready task and fires every timer, smol_drive has a
\* thread of its own; nothing is assumed of the network or of the clients.
Fairness == /\ \A e \in Endpoints : /\ WF_vars(Kill(e)) /\ WF_vars(DriveFirst(e))
                                    /\ WF_ep(NextRound(e)) /\ WF_vars(DriveEnd(e))
                                    /\ WF_vars(TimePasses(e))
            /\ \A c \in Conns : WF_vars(AttachTimeout(c))
Spec == Init /\ [][Next]_vars /\ Fairness

-------------------------------------------------------------------------------
(* Properties *)

SocketOf(c) == {s \in {stack[conn[c].ep].sockets[h] : h \in Handles} \ {Nil} : s.owner = c}

\* The slots of the SocketSet and the tasks of the two port maps stay in step
\* through opens, purges and the reuse of slots by sockets of the other kind:
\* every task's handle names a socket of its kind and owner (get_mut panics
\* otherwise), no two tasks share one, and no socket is left without a task.
HandlesOwned ==
  \A e \in Endpoints :
    LET all == {x \in {"tcp", "udp"} \X Ports : stack[e][x[1]][x[2]] # Nil}
        H(x) == stack[e][x[1]][x[2]].handle
    IN /\ \A x \in all : /\ stack[e].sockets[H(x)] # Nil
                         /\ stack[e].sockets[H(x)].kind = x[1]
                         /\ stack[e].sockets[H(x)].owner = stack[e][x[1]][x[2]].owner
       /\ \A x, y \in all : H(x) = H(y) => x = y
       /\ \A h \in Handles : stack[e].sockets[h] # Nil => \E x \in all : H(x) = h

\* The bytes a client sends reach its socket once, in order, whatever part of
\* a chunk fits into the send buffer at a time, and the socket is closed for a
\* client that has hung up only after all of them are in it.
StreamIntact ==
  \A c \in Conns : conn[c].st = "open" /\ scene.kind[c] \in {"tcp", "tcpname"} =>
    \A s \in SocketOf(c) : /\ s.out = [i \in 1 .. Len(s.out) |-> i]
                           /\ s.st \in FinSent => Len(s.out) = conn[c].next

\* However transfers and round trips alternate, a receive buffer never grows
\* past TCP_RCV_BUF_MAX.
RecvBufBounded ==
  \A e \in Endpoints, h \in Handles :
    stack[e].sockets[h] # Nil => stack[e].sockets[h].cap <= TCP_RCV_BUF_MAX

\* A TCP connection that one side or both have closed ends, by its handshake,
\* the half close timeout or the end of its endpoint, unless its client leaves
\* data unread.  The exception: in LastAck and Closing neither may_send nor
\* may_recv holds, so a socket that gets there before poll_all_tcp has started
\* its timeout depends on the peer's acknowledgement; once that comes, it ends.
FinWithoutTimeout(c) == \E s \in SocketOf(c), t \in TaskOf(stack[conn[c].ep], c) :
                          s.st \in {"lastack", "closing"} /\ t.half = "none"
Closing(c) == conn[c].st = "open" /\ \E s \in SocketOf(c) :
                s.kind = "tcp" /\ s.st \in FinSent \cup {"closewait", "closed"}
Unread(c) == ~conn[c].closed /\ \E s \in SocketOf(c) : s.rx > 0
ClosedIsReaped ==
  \A c \in Conns :
    Closing(c) ~> (conn[c].st = "open" => \/ Ended(c) \/ FinWithoutTimeout(c) \/ Unread(c)
                                          \/ ep[conn[c].ep].st # "up")

\* An endpoint that was told to stop and that the manager has replaced ends
\* smol_drive, frees its stack and cancels the connections still on it,
\* provided smol_drive was ever notified.
StoppedFreesConns ==
  \A e \in Endpoints :
    (ep[e].st \in {"stop", "killed"} /\ ep[e].permit /\ active_conn # e)
      ~> (/\ ep[e].drive = "end"
          /\ \A c \in Conns : conn[c].ep = e /\ conn[c].st = "open" => Ended(c))
===============================================================================
