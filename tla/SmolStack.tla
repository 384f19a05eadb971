------------------------------ MODULE SmolStack -------------------------------
(***************************************************************************)
(* The userspace TCP/IP stack behind a WireGuard tunnel: one task per      *)
(* local port, each with a socket of smoltcp's SocketSet, and the loop     *)
(* body of smol_drive that moves bytes between the tasks' channels and the *)
(* sockets, closes, times out and purges them.  A stack is a value; the    *)
(* operators below are the methods of SmolStack.  smoltcp itself is        *)
(* external: a socket is its state, what was written to it and how much of *)
(* that is unacknowledged.                                                 *)
(*                                                                         *)
(*   src/boltconn/src/transport/smol.rs                                    *)
(***************************************************************************)
EXTENDS Integers, FiniteSets, SequencesExt

CONSTANTS Conns,                 \* the owners of tasks
          Ports,                 \* local ports
          Handles,               \* bound: the slots of the SocketSet
          None,
          TCP_SND_BUF_INIT,      \* size of a send buffer, in bytes
          TCP_REV_BUF_INIT, TCP_RCV_BUF_MAX, MULTI_GROW_THRESHOLD,
          LINEAR_GROW_STEP, RECENCY_THRESHOLD     \* of TcpTuning

ASSUME SSAssumption == /\ None \notin Handles /\ None \notin Conns
                       /\ TCP_SND_BUF_INIT \in Nat \ {0}
                       /\ TCP_REV_BUF_INIT \in Nat \ {0}
                       /\ MULTI_GROW_THRESHOLD \in Nat /\ TCP_RCV_BUF_MAX \in Nat
                       /\ LINEAR_GROW_STEP \in Nat \ {0}

\* The sizes of TcpTuning fit: MULTI_GROW_THRESHOLD is TCP_REV_BUF_INIT doubled
\* a number of times (three: 128 KiB to 1 MiB), and TCP_RCV_BUF_MAX is that
\* plus a number of LINEAR_GROW_STEPs (three of 1 MiB).
Doublings(w) == /\ TCP_REV_BUF_INIT \in w
                /\ \A n \in w : n < MULTI_GROW_THRESHOLD => 2 * n \in w
ASSUME TuningAssumption ==
  /\ \E w \in SUBSET (1 .. MULTI_GROW_THRESHOLD) : Doublings(w)
  /\ \E n \in 0 .. TCP_RCV_BUF_MAX :
       MULTI_GROW_THRESHOLD + n * LINEAR_GROW_STEP = TCP_RCV_BUF_MAX

\* A port without a task, a slot without a socket, no chunk left to send.
Nil == <<>>

-------------------------------------------------------------------------------
(* smoltcp *)

TcpSocket(c) == [kind |-> "tcp", owner |-> c, st |-> "new", out |-> <<>>,
                 unacked |-> 0, rx |-> 0, cap |-> TCP_REV_BUF_INIT]
UdpSocket(c) == [TcpSocket(c) EXCEPT !.kind = "udp", !.st = "open"]

\* The states after a close() of our own: the FIN is queued or sent.
FinSent == {"finwait1", "finwait2", "closing", "timewait", "lastack"}

MaySend(s) == s.st \in {"est", "closewait"}
MayRecv(s) == s.st \in {"est", "finwait1", "finwait2"} \/ s.rx > 0
Room(s) == TCP_SND_BUF_INIT - s.unacked
CanSend(s) == MaySend(s) /\ Room(s) > 0
SendSlice(s, bytes) == [s EXCEPT !.out = @ \o bytes, !.unacked = @ + Len(bytes)]
CloseSocket(s) == [s EXCEPT !.st = CASE @ = "est" -> "finwait1"
                                     [] @ = "closewait" -> "lastack"
                                     [] @ \in {"new", "syn"} -> "closed"
                                     [] OTHER -> @]

\* iface.poll sends the SYN of a new socket.
Transmit(s) == [s EXCEPT !.st = IF @ = "new" THEN "syn" ELSE @]

\* The state after an acknowledgement of all that was sent, our FIN included,
\* and after a FIN of the peer.  A FIN that crosses ours and does not
\* acknowledge it leaves the socket in Closing; TimeWait ends by a timer.
Acked(st) == CASE st = "finwait1" -> "finwait2"
               [] st = "closing"  -> "timewait"
               [] st = "lastack"  -> "closed"
               [] OTHER -> st
Finned(st) == CASE st = "est" -> "closewait"
                [] st = "finwait1" -> "closing"
                [] st = "finwait2" -> "timewait"
                [] OTHER -> st

\* What iface.poll does to a socket with one packet.
Receive(s, kind) ==
  CASE kind = "synack" /\ s.st = "syn" -> [s EXCEPT !.st = "est"]
    [] kind = "ack"    -> [s EXCEPT !.unacked = 0, !.st = Acked(@)]
    [] kind = "data" /\ s.st \in {"est", "finwait1", "finwait2", "open"} /\ s.rx < s.cap
                       -> [s EXCEPT !.rx = @ + 1]
    [] kind = "fin"    -> [s EXCEPT !.st = Finned(@)]
    [] kind = "finack" -> [s EXCEPT !.unacked = 0, !.st = Finned(Acked(@))]
    [] kind = "rst" /\ s.kind = "tcp" -> [s EXCEPT !.st = "closed", !.rx = 0]
    [] OTHER -> s

-------------------------------------------------------------------------------
(* TcpTuning *)

\* increase_tcp_rev_buf: the task after "n" bytes with a buffer of "win", and
\* the new size of the buffer.  "early": less than the estimated round trip
\* has passed.
BelowMaxOrEqual(win) == win <= TCP_RCV_BUF_MAX
BelowMax(win) == win < TCP_RCV_BUF_MAX

IncreaseTcpRevBuf(t, n, win, early) ==
  LET usage == t.accum + n
      fresh == [t EXCEPT !.accum = 0]
  IN CASE early /\ usage < win -> <<[t EXCEPT !.accum = usage], win>>
       [] ~(early /\ usage < win) /\ win < MULTI_GROW_THRESHOLD ->
            <<fresh, IF 3 * usage > win THEN 2 * win ELSE win>>
       [] ~(early /\ usage < win) /\ win >= MULTI_GROW_THRESHOLD /\ BelowMax(win) ->
            IF usage + LINEAR_GROW_STEP > win /\ t.business > RECENCY_THRESHOLD
            THEN <<[fresh EXCEPT !.business = 0], win + LINEAR_GROW_STEP>>
            ELSE IF usage * 2 > win
            THEN <<[fresh EXCEPT !.business = IF @ < RECENCY_THRESHOLD + 2
                                              THEN @ + 1 ELSE @], win>>
            ELSE <<[fresh EXCEPT !.business = IF @ > 3 THEN @ - 3 ELSE 0], win>>
       [] OTHER -> <<fresh, win>>

-------------------------------------------------------------------------------
(* TcpConnTask and UdpConnTask *)

\* rx: the chunks the forwarder has put into the flume channel; eof: the
\* forwarder has ended.  half: half_close_timeout; old: for TCP, SYN sent more
\* than 30 s ago; for UDP, last_active is 0: recent, 1: over 30 s, 2: over
\* udp_timeout ago.
Task(c, h) == [owner |-> c, handle |-> h, rx |-> <<>>, eof |-> FALSE,
               remain |-> Nil, half |-> "none", old |-> 0,
               accum |-> 0, business |-> 0]

\* One round of the loop in TcpConnTask::try_send, with the socket.  A partly
\* written chunk waits in remain_to_send.
WriteFromStart(x, buf, start) ==
  LET sent == IF Room(x.s) < Len(buf) - start THEN Room(x.s) ELSE Len(buf) - start
  IN [x EXCEPT !.s = SendSlice(@, SubSeq(buf, 1, sent)),
               !.t.remain = IF start + sent < Len(buf)
                            THEN [buf |-> buf, start |-> start + sent] ELSE Nil]
Write(x, buf, start) ==
  LET sent == IF Room(x.s) < Len(buf) - start THEN Room(x.s) ELSE Len(buf) - start
  IN [x EXCEPT !.s = SendSlice(@, SubSeq(buf, start + 1, start + sent)),
               !.t.remain = IF start + sent < Len(buf)
                            THEN [buf |-> buf, start |-> start + sent] ELSE Nil]
SendChunk(x) ==
  IF x.t.remain # Nil THEN Write(x, x.t.remain.buf, x.t.remain.start)
  ELSE Write([x EXCEPT !.t.rx = Tail(@)], Head(x.t.rx), 0)

\* while can_send: a chunk per round, until there is none or no room.
SendRound(x) == IF CanSend(x.s) /\ (x.t.remain # Nil \/ x.t.rx # <<>>) THEN SendChunk(x) ELSE x
SendRounds(x) ==
  LET after[i \in 0 .. Len(x.t.rx) + 1] == IF i = 0 THEN x ELSE SendRound(after[i - 1])
  IN after[Len(x.t.rx) + 1]
TrySend(x) ==
  LET z == SendRounds(x)
      s == [x.s EXCEPT !.out = z.s.out, !.unacked = z.s.unacked]
  IN [t |-> [x.t EXCEPT !.rx = z.t.rx, !.remain = z.t.remain],
      s |-> IF CanSend(s) /\ x.t.eof THEN CloseSocket(s) ELSE s]

\* try_recv, when the client's channel has room.
TryRecv(x, early) ==
  IF x.s.rx = 0 THEN x
  ELSE LET g == IncreaseTcpRevBuf(x.t, x.s.rx, x.s.cap, early)
       IN [t |-> g[1], s |-> [x.s EXCEPT !.rx = 0, !.cap = g[2]]]

StartHalfCloseNever(x) == x
StartHalfClose(x) == [x EXCEPT !.t.half = IF @ = "none" THEN "running" ELSE @]

\* The body of poll_all_tcp for one task.
PollTcp(x, full, early) ==
  LET y == IF MaySend(x.s) \/ x.s.st = "syn" THEN TrySend(x)
           ELSE IF MayRecv(x.s) THEN StartHalfClose(x) ELSE x
  IN IF MayRecv(y.s) THEN (IF full THEN y ELSE TryRecv(y, early))
     ELSE IF MaySend(y.s) THEN StartHalfClose(y) ELSE y

\* UdpConnTask::try_send empties the channel; send_slice refuses the bad
\* datagram <<0>>.  Disconnected: the channel is empty and its sender gone.
UdpTrySend(x) ==
  LET bad == \E i \in DOMAIN x.t.rx : x.t.rx[i] = <<0>>
      disconnected == x.t.eof /\ x.t.rx = <<>>
  IN [x EXCEPT !.t.rx = <<>>,
               !.t.old = IF x.t.rx # <<>> THEN 0 ELSE @,
               !.s.st = IF bad \/ (disconnected /\ x.t.old > 0) THEN "closed" ELSE @]
UdpTryRecv(x) == IF x.s.rx = 0 THEN x ELSE [x EXCEPT !.s.rx = 0, !.t.old = 0]

\* The body of poll_all_udp for one task.
PollUdp(x, full) ==
  IF x.s.st # "open" THEN x
  ELSE IF full THEN UdpTrySend(x) ELSE UdpTryRecv(UdpTrySend(x))

\* Sockets whose task cancels its connection although it is not yet purged.
UdpClosed(stack) ==
  {stack.udp[p].owner : p \in {q \in Ports : /\ stack.udp[q] # Nil
                                             /\ stack.sockets[stack.udp[q].handle] # Nil
                                             /\ stack.sockets[stack.udp[q].handle].st = "closed"}}

-------------------------------------------------------------------------------
(* SmolStack *)

NewStack == [tcp |-> [p \in Ports |-> Nil], udp |-> [p \in Ports |-> Nil],
             sockets |-> [h \in Handles |-> Nil]]

Tasks(stack) == ({stack.tcp[p] : p \in Ports} \cup {stack.udp[p] : p \in Ports}) \ {Nil}
TaskOf(stack, c) == {t \in Tasks(stack) : t.owner = c}

\* The SocketSet fills its first empty slot.
HasSlot(stack) == \E i \in Handles : stack.sockets[i] = Nil
FreeHandle(stack) == CHOOSE i \in Handles : stack.sockets[i] = Nil

\* open_tcp and open_udp_extended once the port is known to be vacant.
OpenTcp(stack, c, p) ==
  LET h == FreeHandle(stack)
  IN [stack EXCEPT !.tcp[p] = Task(c, h), !.sockets[h] = TcpSocket(c)]
OpenUdp(stack, c, p) ==
  LET h == FreeHandle(stack)
  IN [stack EXCEPT !.udp[p] = Task(c, h), !.sockets[h] = UdpSocket(c)]
Open(stack, kind, c, p) ==
  IF kind = "tcp" THEN OpenTcp(stack, c, p) ELSE OpenUdp(stack, c, p)

\* The new task, socket of every port.
PollAll(stack, full, early) ==
  LET Tcp(p) == PollTcp([t |-> stack.tcp[p], s |-> stack.sockets[stack.tcp[p].handle]],
                        stack.tcp[p].owner \in full, early)
      Udp(p) == PollUdp([t |-> stack.udp[p], s |-> stack.sockets[stack.udp[p].handle]],
                        stack.udp[p].owner \in full)
      TcpPort(h) == {p \in Ports : stack.tcp[p] # Nil /\ stack.tcp[p].handle = h}
      UdpPort(h) == {p \in Ports : stack.udp[p] # Nil /\ stack.udp[p].handle = h}
  IN [tcp |-> [p \in Ports |-> IF stack.tcp[p] = Nil THEN Nil ELSE Tcp(p).t],
      udp |-> [p \in Ports |-> IF stack.udp[p] = Nil THEN Nil ELSE Udp(p).t],
      sockets |-> [h \in Handles |->
                     IF TcpPort(h) # {} THEN Tcp(CHOOSE p \in TcpPort(h) : TRUE).s
                     ELSE IF UdpPort(h) # {} THEN Udp(CHOOSE p \in UdpPort(h) : TRUE).s
                     ELSE stack.sockets[h]]]

InvalidTcp(stack, t) == \/ stack.sockets[t.handle].st = "closed"
                        \/ t.half = "due"
                        \/ stack.sockets[t.handle].st = "syn" /\ t.old > 0
TimeoutUdp(stack, t) == t.old = 2

\* purge_invalid_tcp and purge_timeout_udp: the ports that go, with their sockets.
PurgedKeepsSocket(stack) ==
  LET tcp == {p \in Ports : stack.tcp[p] # Nil /\ InvalidTcp(stack, stack.tcp[p])}
  IN [stack EXCEPT !.tcp = [p \in Ports |-> IF p \in tcp THEN Nil ELSE stack.tcp[p]]]
Purged(stack) ==
  LET tcp == {p \in Ports : stack.tcp[p] # Nil /\ InvalidTcp(stack, stack.tcp[p])}
      udp == {p \in Ports : stack.udp[p] # Nil /\ TimeoutUdp(stack, stack.udp[p])}
      hs == {stack.tcp[p].handle : p \in tcp} \cup {stack.udp[p].handle : p \in udp}
  IN [tcp |-> [p \in Ports |-> IF p \in tcp THEN Nil ELSE stack.tcp[p]],
      udp |-> [p \in Ports |-> IF p \in udp THEN Nil ELSE stack.udp[p]],
      sockets |-> [h \in Handles |-> IF h \in hs THEN Nil ELSE stack.sockets[h]]]
===============================================================================
