---------------------------- MODULE WireGuardProofs ----------------------------
(***************************************************************************)
(* Proofs about WireGuard and SmolStack for any connections, ports, slots  *)
(* and endpoints.  The methods of SmolStack are functions of a stack, so   *)
(* the invariant is one of a stack: its tasks and sockets refer to each    *)
(* other, and every receive buffer has a size that TcpTuning steps through.*)
(* The second half follows the bytes of a client through its channel, its  *)
(* task and its socket; the loop of try_send is a recursive function, about*)
(* which an induction over the number of rounds speaks.                    *)
(***************************************************************************)
EXTENDS WireGuard, WellFoundedInduction, SequenceTheorems, TLAPS

Kinds == {"tcp", "udp"}
IsTask(t) == {"owner", "handle"} \subseteq DOMAIN t
IsSocket(s) == {"kind", "owner", "cap"} \subseteq DOMAIN s

\* The sizes of a receive buffer: doubled up to MULTI_GROW_THRESHOLD, then some
\* steps below TCP_RCV_BUF_MAX.
Doubled == CHOOSE w \in SUBSET (1 .. MULTI_GROW_THRESHOLD) : Doublings(w)
Stepped == {m \in 0 .. TCP_RCV_BUF_MAX :
              /\ m >= MULTI_GROW_THRESHOLD
              /\ \E n \in 0 .. TCP_RCV_BUF_MAX : m + n * LINEAR_GROW_STEP = TCP_RCV_BUF_MAX}
Size(w) == w \in Doubled \cup Stepped

\* A task has a socket of its kind and owner, in a slot of its own; a socket has
\* a task.
Shape(s) == /\ DOMAIN s = {"tcp", "udp", "sockets"}
            /\ DOMAIN s.tcp = Ports /\ DOMAIN s.udp = Ports
            /\ DOMAIN s.sockets = Handles
TasksOK(s) == \A k \in Kinds, p \in Ports : s[k][p] # Nil =>
                /\ IsTask(s[k][p]) /\ s[k][p].handle \in Handles
                /\ s.sockets[s[k][p].handle] # Nil
                /\ s.sockets[s[k][p].handle].kind = k
                /\ s.sockets[s[k][p].handle].owner = s[k][p].owner
SlotsOK(s) == \A k, l \in Kinds, p, q \in Ports :
                s[k][p] # Nil /\ s[l][q] # Nil /\ s[k][p].handle = s[l][q].handle =>
                  k = l /\ p = q
SocketsOK(s) == \A h \in Handles : s.sockets[h] # Nil =>
                  /\ IsSocket(s.sockets[h]) /\ Size(s.sockets[h].cap)
                  /\ \E k \in Kinds, p \in Ports : s[k][p] # Nil /\ s[k][p].handle = h
StackOK(s) == Shape(s) /\ TasksOK(s) /\ SlotsOK(s) /\ SocketsOK(s)

IInv == DOMAIN stack = Endpoints /\ \A e \in Endpoints : StackOK(stack[e])

-------------------------------------------------------------------------------
(* TcpTuning and the methods of a task.                                      *)

LEMMA TaskIsSomething == ASSUME NEW t, IsTask(t) PROVE t # Nil
<1>1. DOMAIN Nil = {}
  BY DEF Nil
<1> QED
  BY <1>1 DEF IsTask

LEMMA SocketIsSomething == ASSUME NEW s, IsSocket(s) PROVE s # Nil
<1>1. DOMAIN Nil = {}
  BY DEF Nil
<1> QED
  BY <1>1 DEF IsSocket

LEMMA DoubledFacts == Doubled \in SUBSET (1 .. MULTI_GROW_THRESHOLD) /\ Doublings(Doubled)
  BY TuningAssumption DEF Doubled

\* The buffer starts with such a size, and growing it leads to another one.
LEMMA SizeFacts ==
  /\ Size(TCP_REV_BUF_INIT)
  /\ \A w : Size(w) => w \in Nat /\ w <= TCP_RCV_BUF_MAX
  /\ \A w : Size(w) /\ w < MULTI_GROW_THRESHOLD => Size(2 * w)
  /\ \A w : Size(w) /\ ~(w < MULTI_GROW_THRESHOLD) /\ w < TCP_RCV_BUF_MAX =>
       Size(w + LINEAR_GROW_STEP)
<1>1. PICK n \in 0 .. TCP_RCV_BUF_MAX :
        MULTI_GROW_THRESHOLD + n * LINEAR_GROW_STEP = TCP_RCV_BUF_MAX
  BY TuningAssumption
<1>2. n * LINEAR_GROW_STEP \in Nat
  BY SSAssumption
<1>3. MULTI_GROW_THRESHOLD <= TCP_RCV_BUF_MAX
  BY <1>1, <1>2, SSAssumption
<1>4. MULTI_GROW_THRESHOLD \in Stepped
  BY <1>1, <1>3, SSAssumption DEF Stepped
<1>5. Size(TCP_REV_BUF_INIT)
  BY DoubledFacts DEF Size, Doublings
<1>6. ASSUME NEW w, Size(w) PROVE w \in Nat /\ w <= TCP_RCV_BUF_MAX
  BY <1>3, <1>6, DoubledFacts, SSAssumption DEF Size, Stepped
<1>7. ASSUME NEW w, Size(w), w < MULTI_GROW_THRESHOLD PROVE Size(2 * w)
  <2>1. w \in Doubled
    BY <1>6, <1>7, SSAssumption DEF Size, Stepped
  <2> QED
    BY <1>7, <2>1, DoubledFacts DEF Size, Doublings
<1>8. ASSUME NEW w, Size(w), ~(w < MULTI_GROW_THRESHOLD), w < TCP_RCV_BUF_MAX
      PROVE  Size(w + LINEAR_GROW_STEP)
  <2>1. w \in Stepped
    <3>1. CASE w \in Doubled
      <4>1. w = MULTI_GROW_THRESHOLD
        BY <1>8, <3>1, DoubledFacts, SSAssumption
      <4> QED
        BY <1>4, <4>1
    <3> QED
      BY <1>8, <3>1 DEF Size
  <2>2. PICK m \in 0 .. TCP_RCV_BUF_MAX : w + m * LINEAR_GROW_STEP = TCP_RCV_BUF_MAX
    BY <2>1 DEF Stepped
  <2>3. w \in Nat /\ w >= MULTI_GROW_THRESHOLD
    BY <2>1 DEF Stepped
  <2>4. m # 0
    BY <1>8, <2>2, <2>3, SSAssumption
  <2>5. PICK j \in 0 .. TCP_RCV_BUF_MAX : m = j + 1
    <3>1. m - 1 \in 0 .. TCP_RCV_BUF_MAX /\ m = (m - 1) + 1
      BY <2>4, SSAssumption
    <3> QED
      BY <3>1
  <2>6. m * LINEAR_GROW_STEP = j * LINEAR_GROW_STEP + LINEAR_GROW_STEP
    BY <2>5, SSAssumption
  <2>7. j * LINEAR_GROW_STEP \in Nat
    BY SSAssumption
  <2>8. (w + LINEAR_GROW_STEP) + j * LINEAR_GROW_STEP = TCP_RCV_BUF_MAX
    BY <2>2, <2>3, <2>6, <2>7, SSAssumption
  <2>9. w + LINEAR_GROW_STEP \in 0 .. TCP_RCV_BUF_MAX /\ w + LINEAR_GROW_STEP >= MULTI_GROW_THRESHOLD
    BY <2>3, <2>7, <2>8, SSAssumption
  <2> QED
    BY <2>8, <2>9 DEF Size, Stepped
<1> QED
  BY <1>5, <1>6, <1>7, <1>8

SameTask(t, u) == IsTask(u) /\ u.owner = t.owner /\ u.handle = t.handle
SameSocket(s, u) == IsSocket(u) /\ u.kind = s.kind /\ u.owner = s.owner /\ Size(u.cap)
Same(x, y) == SameTask(x.t, y.t) /\ SameSocket(x.s, y.s)
Sound(x) == Same(x, x) /\ DOMAIN x = {"t", "s"}

LEMMA IncreaseFacts ==
  ASSUME NEW t, IsTask(t), NEW n, NEW w, Size(w), NEW early
  PROVE  LET g == IncreaseTcpRevBuf(t, n, w, early)
         IN  SameTask(t, g[1]) /\ Size(g[2])
<1> DEFINE fresh == [t EXCEPT !.accum = 0]
<1>1. \A v : SameTask(t, [t EXCEPT !.accum = v]) /\ SameTask(t, [fresh EXCEPT !.business = v])
  BY DEF SameTask, IsTask
<1>2. SameTask(t, fresh)
  BY <1>1
<1>3. /\ w < MULTI_GROW_THRESHOLD => Size(2 * w)
      /\ ~(w < MULTI_GROW_THRESHOLD) /\ w < TCP_RCV_BUF_MAX => Size(w + LINEAR_GROW_STEP)
      /\ w \in Nat
  BY SizeFacts
<1>4. PICK usage : usage = t.accum + n
  OBVIOUS
<1> HIDE DEF fresh
<1>5. CASE early /\ usage < w
  BY <1>1, <1>4, <1>5 DEF IncreaseTcpRevBuf
<1>6. CASE ~(early /\ usage < w) /\ w < MULTI_GROW_THRESHOLD
  <2>1. PICK v \in {w, 2 * w} : IncreaseTcpRevBuf(t, n, w, early) = <<fresh, v>>
    BY <1>3, <1>4, <1>6, SSAssumption DEF IncreaseTcpRevBuf, fresh
  <2> QED
    BY <1>2, <1>3, <1>6, <2>1
<1>7. CASE ~(early /\ usage < w) /\ ~(w < MULTI_GROW_THRESHOLD)
  BY <1>1, <1>2, <1>3, <1>4, <1>7, SSAssumption DEF IncreaseTcpRevBuf, BelowMax, fresh
<1> QED
  BY <1>5, <1>6, <1>7

Keeps(x, y) == Same(x, y) /\ DOMAIN y = {"t", "s"}

LEMMA KeepsTransitive ==
  ASSUME NEW x, NEW y, NEW z, Keeps(x, y), Keeps(y, z) PROVE Keeps(x, z) /\ Sound(y)
  BY DEF Keeps, Same, Sound, SameTask, SameSocket

LEMMA CloseSocketFacts ==
  ASSUME NEW s, IsSocket(s), Size(s.cap) PROVE SameSocket(s, CloseSocket(s))
<1>1. PICK v : CloseSocket(s) = [s EXCEPT !.st = v]
  BY DEF CloseSocket
<1> QED
  BY <1>1 DEF SameSocket, IsSocket

LEMMA TrySendFacts == ASSUME NEW x, Sound(x) PROVE Keeps(x, TrySend(x))
<1>1. PICK a, b, c, d, s, t : /\ t = [x.t EXCEPT !.rx = a, !.remain = b]
                              /\ s = [x.s EXCEPT !.out = c, !.unacked = d]
                              /\ \/ TrySend(x) = [t |-> t, s |-> s]
                                 \/ TrySend(x) = [t |-> t, s |-> CloseSocket(s)]
  BY DEF TrySend
<1>2. IsTask(x.t) /\ IsSocket(x.s) /\ Size(x.s.cap)
  BY DEF Sound, Same, SameTask, SameSocket
<1>3. SameTask(x.t, t)
  BY <1>1, <1>2 DEF SameTask, IsTask
<1>4. SameSocket(x.s, s)
  BY <1>1, <1>2 DEF SameSocket, IsSocket
<1>5. SameSocket(x.s, CloseSocket(s))
  BY <1>4, CloseSocketFacts DEF SameSocket
<1> QED
  BY <1>1, <1>3, <1>4, <1>5 DEF Keeps, Same

LEMMA TryRecvFacts == ASSUME NEW x, Sound(x), NEW early PROVE Keeps(x, TryRecv(x, early))
<1>1. IsTask(x.t) /\ IsSocket(x.s) /\ Size(x.s.cap)
  BY DEF Sound, Same, SameTask, SameSocket
<1>2. CASE x.s.rx = 0
  BY <1>2 DEF TryRecv, Keeps, Sound
<1>3. CASE x.s.rx # 0
  <2>1. PICK g : g = IncreaseTcpRevBuf(x.t, x.s.rx, x.s.cap, early)
    OBVIOUS
  <2>2. SameTask(x.t, g[1]) /\ Size(g[2])
    BY <1>1, <2>1, IncreaseFacts
  <2>3. PICK s : s = [x.s EXCEPT !.rx = 0, !.cap = g[2]]
    OBVIOUS
  <2>4. TryRecv(x, early) = [t |-> g[1], s |-> s]
    BY <1>3, <2>1, <2>3 DEF TryRecv
  <2>5. SameSocket(x.s, s)
    BY <1>1, <2>2, <2>3 DEF SameSocket, IsSocket
  <2> QED
    BY <2>2, <2>4, <2>5 DEF Keeps, Same
<1> QED
  BY <1>2, <1>3

LEMMA HalfCloseFacts == ASSUME NEW x, Sound(x) PROVE Keeps(x, StartHalfClose(x))
<1>1. PICK v : StartHalfClose(x) = [x EXCEPT !.t.half = v]
  BY DEF StartHalfClose
<1> QED
  BY <1>1 DEF Keeps, Sound, Same, SameTask, SameSocket, IsTask

LEMMA PollTcpFacts ==
  ASSUME NEW x, Sound(x), NEW full, NEW early PROVE Keeps(x, PollTcp(x, full, early))
<1>1. Keeps(x, x)
  BY DEF Keeps, Sound
<1>2. PICK y : /\ y \in {x, TrySend(x), StartHalfClose(x)}
               /\ PollTcp(x, full, early) \in {y, TryRecv(y, early), StartHalfClose(y)}
  BY DEF PollTcp
<1>3. Keeps(x, y)
  BY <1>1, <1>2, TrySendFacts, HalfCloseFacts
<1>4. Sound(y)
  BY <1>3 DEF Keeps, Sound, Same, SameTask, SameSocket
<1>5. Keeps(y, y) /\ Keeps(y, TryRecv(y, early)) /\ Keeps(y, StartHalfClose(y))
  BY <1>4, TryRecvFacts, HalfCloseFacts DEF Keeps, Sound
<1> QED
  BY <1>2, <1>3, <1>5, KeepsTransitive

LEMMA PollUdpFacts ==
  ASSUME NEW x, Sound(x), NEW full PROVE Keeps(x, PollUdp(x, full))
<1>1. Keeps(x, x)
  BY DEF Keeps, Sound
<1>2. PICK a, b : UdpTrySend(x) = [x EXCEPT !.t.rx = <<>>, !.t.old = a, !.s.st = b]
  BY DEF UdpTrySend
<1>3. Keeps(x, UdpTrySend(x))
  BY <1>2 DEF Keeps, Sound, Same, SameTask, SameSocket, IsTask, IsSocket
<1>4. PICK y : y = UdpTrySend(x)
  OBVIOUS
<1>5. Sound(y)
  BY <1>3, <1>4 DEF Keeps, Sound, Same, SameTask, SameSocket
<1>6. Keeps(y, UdpTryRecv(y))
  <2>1. UdpTryRecv(y) \in {y, [y EXCEPT !.s.rx = 0, !.t.old = 0]}
    BY DEF UdpTryRecv
  <2> QED
    BY <1>5, <2>1 DEF Keeps, Sound, Same, SameTask, SameSocket, IsTask, IsSocket
<1>7. Keeps(x, UdpTryRecv(y))
  BY <1>3, <1>4, <1>6, KeepsTransitive
<1> QED
  BY <1>1, <1>3, <1>4, <1>7 DEF PollUdp

-------------------------------------------------------------------------------
(* Stacks.                                                                   *)

\* Tasks and sockets stay where they are and keep their kind, owner and slot.
SameStack(s, u) ==
  /\ Shape(u)
  /\ \A k \in Kinds, p \in Ports : /\ s[k][p] = Nil => u[k][p] = Nil
                                   /\ s[k][p] # Nil => SameTask(s[k][p], u[k][p])
  /\ \A h \in Handles : /\ s.sockets[h] = Nil => u.sockets[h] = Nil
                        /\ s.sockets[h] # Nil => SameSocket(s.sockets[h], u.sockets[h])

LEMMA SameStackOK ==
  ASSUME NEW s, NEW u, StackOK(s), SameStack(s, u) PROVE StackOK(u)
<1>1. \A k \in Kinds, p \in Ports : u[k][p] # Nil =>
        s[k][p] # Nil /\ SameTask(s[k][p], u[k][p])
  BY DEF SameStack
<1>2. \A h \in Handles : u.sockets[h] # Nil =>
        s.sockets[h] # Nil /\ SameSocket(s.sockets[h], u.sockets[h])
  BY DEF SameStack
<1>3. \A h \in Handles : s.sockets[h] # Nil =>
        u.sockets[h] # Nil /\ SameSocket(s.sockets[h], u.sockets[h])
  BY SocketIsSomething DEF SameStack, SameSocket
<1>4. TasksOK(u)
  <2> SUFFICES ASSUME NEW k \in Kinds, NEW p \in Ports, u[k][p] # Nil
               PROVE  /\ IsTask(u[k][p]) /\ u[k][p].handle \in Handles
                      /\ u.sockets[u[k][p].handle] # Nil
                      /\ u.sockets[u[k][p].handle].kind = k
                      /\ u.sockets[u[k][p].handle].owner = u[k][p].owner
    BY DEF TasksOK
  <2>1. /\ s[k][p] # Nil /\ IsTask(u[k][p]) /\ u[k][p].handle = s[k][p].handle
        /\ u[k][p].owner = s[k][p].owner
    BY <1>1 DEF SameTask
  <2>2. PICK h \in Handles : /\ h = s[k][p].handle /\ s.sockets[h] # Nil
                             /\ s.sockets[h].kind = k /\ s.sockets[h].owner = s[k][p].owner
    BY <2>1 DEF StackOK, TasksOK
  <2>3. u.sockets[h] # Nil /\ u.sockets[h].kind = k /\ u.sockets[h].owner = s[k][p].owner
    BY <1>3, <2>2 DEF SameSocket
  <2> QED
    BY <2>1, <2>2, <2>3
<1>5. SlotsOK(u)
  BY <1>1 DEF SlotsOK, SameTask, StackOK
<1>6. SocketsOK(u)
  <2> SUFFICES ASSUME NEW h \in Handles, u.sockets[h] # Nil
               PROVE  /\ IsSocket(u.sockets[h]) /\ Size(u.sockets[h].cap)
                      /\ \E k \in Kinds, p \in Ports : u[k][p] # Nil /\ u[k][p].handle = h
    BY DEF SocketsOK
  <2>1. s.sockets[h] # Nil /\ IsSocket(u.sockets[h]) /\ Size(u.sockets[h].cap)
    BY <1>2 DEF SameSocket
  <2>2. PICK k \in Kinds, p \in Ports : s[k][p] # Nil /\ s[k][p].handle = h
    BY <2>1 DEF StackOK, SocketsOK
  <2>3. SameTask(s[k][p], u[k][p])
    BY <2>2 DEF SameStack
  <2>4. u[k][p] # Nil /\ u[k][p].handle = h
    BY <2>2, <2>3, TaskIsSomething DEF SameTask
  <2> QED
    BY <2>1, <2>4
<1> QED
  BY <1>4, <1>5, <1>6 DEF StackOK, SameStack

LEMMA NewStackOK == StackOK(NewStack)
<1>1. /\ Shape(NewStack)
      /\ \A k \in Kinds, p \in Ports : NewStack[k][p] = Nil
      /\ \A h \in Handles : NewStack.sockets[h] = Nil
  BY DEF NewStack, Shape, Kinds
<1> HIDE DEF NewStack
<1> QED
  BY <1>1 DEF StackOK, TasksOK, SlotsOK, SocketsOK

\* poll_all_tcp and poll_all_udp.
LEMMA PollAllOK ==
  ASSUME NEW s, StackOK(s), NEW full, NEW early PROVE StackOK(PollAll(s, full, early))
<1> DEFINE Tcp(p) == PollTcp([t |-> s.tcp[p], s |-> s.sockets[s.tcp[p].handle]],
                             s.tcp[p].owner \in full, early)
           Udp(p) == PollUdp([t |-> s.udp[p], s |-> s.sockets[s.udp[p].handle]],
                             s.udp[p].owner \in full)
           TcpPort(h) == {p \in Ports : s.tcp[p] # Nil /\ s.tcp[p].handle = h}
           UdpPort(h) == {p \in Ports : s.udp[p] # Nil /\ s.udp[p].handle = h}
<1>1. PICK u : u = PollAll(s, full, early)
  OBVIOUS
<1>2. /\ Shape(u)
      /\ \A p \in Ports : u.tcp[p] = IF s.tcp[p] = Nil THEN Nil ELSE Tcp(p).t
      /\ \A p \in Ports : u.udp[p] = IF s.udp[p] = Nil THEN Nil ELSE Udp(p).t
      /\ \A h \in Handles : u.sockets[h] =
           IF TcpPort(h) # {} THEN Tcp(CHOOSE p \in TcpPort(h) : TRUE).s
           ELSE IF UdpPort(h) # {} THEN Udp(CHOOSE p \in UdpPort(h) : TRUE).s
           ELSE s.sockets[h]
  BY <1>1, Zenon DEF PollAll, Shape
<1>3. ASSUME NEW k \in Kinds, NEW p \in Ports, s[k][p] # Nil
      PROVE  Sound([t |-> s[k][p], s |-> s.sockets[s[k][p].handle]])
  <2>1. PICK h \in Handles : h = s[k][p].handle /\ s.sockets[h] # Nil
    BY <1>3 DEF StackOK, TasksOK
  <2>2. IsTask(s[k][p]) /\ IsSocket(s.sockets[h]) /\ Size(s.sockets[h].cap)
    BY <1>3, <2>1 DEF StackOK, TasksOK, SocketsOK
  <2> QED
    BY <2>1, <2>2 DEF Sound, Same, SameTask, SameSocket
<1>4. ASSUME NEW p \in Ports, s.tcp[p] # Nil
      PROVE  SameTask(s.tcp[p], Tcp(p).t) /\ SameSocket(s.sockets[s.tcp[p].handle], Tcp(p).s)
  <2>1. Sound([t |-> s.tcp[p], s |-> s.sockets[s.tcp[p].handle]])
    BY <1>3, <1>4 DEF Kinds
  <2>2. Keeps([t |-> s.tcp[p], s |-> s.sockets[s.tcp[p].handle]], Tcp(p))
    BY <2>1, PollTcpFacts
  <2> HIDE DEF Tcp
  <2> QED
    BY <2>2 DEF Keeps, Same
<1>5. ASSUME NEW p \in Ports, s.udp[p] # Nil
      PROVE  SameTask(s.udp[p], Udp(p).t) /\ SameSocket(s.sockets[s.udp[p].handle], Udp(p).s)
  <2>1. Sound([t |-> s.udp[p], s |-> s.sockets[s.udp[p].handle]])
    BY <1>3, <1>5 DEF Kinds
  <2>2. Keeps([t |-> s.udp[p], s |-> s.sockets[s.udp[p].handle]], Udp(p))
    BY <2>1, PollUdpFacts
  <2> HIDE DEF Udp
  <2> QED
    BY <2>2 DEF Keeps, Same
<1> HIDE DEF Tcp, Udp
<1>6. ASSUME NEW h \in Handles, s.sockets[h] # Nil
      PROVE  SameSocket(s.sockets[h], u.sockets[h])
  <2>1. PICK k \in Kinds, p \in Ports : s[k][p] # Nil /\ s[k][p].handle = h
    BY <1>6 DEF StackOK, SocketsOK
  <2>2. CASE TcpPort(h) # {}
    <3>1. PICK q \in TcpPort(h) : q = CHOOSE r \in TcpPort(h) : TRUE
      BY <2>2
    <3>2. u.sockets[h] = Tcp(q).s
      BY <1>2, <2>2, <3>1
    <3>3. q \in Ports /\ s.tcp[q] # Nil /\ s.tcp[q].handle = h
      BY <3>1
    <3> QED
      BY <1>4, <3>2, <3>3
  <2>3. CASE TcpPort(h) = {}
    <3>1. k = "udp"
      BY <2>1, <2>3 DEF Kinds
    <3>2. UdpPort(h) # {}
      BY <2>1, <3>1
    <3>3. PICK q \in UdpPort(h) : q = CHOOSE r \in UdpPort(h) : TRUE
      BY <3>2
    <3>4. u.sockets[h] = Udp(q).s
      BY <1>2, <2>3, <3>2, <3>3
    <3>5. q \in Ports /\ s.udp[q] # Nil /\ s.udp[q].handle = h
      BY <3>3
    <3> QED
      BY <1>5, <3>4, <3>5
  <2> QED
    BY <2>2, <2>3
<1>7. ASSUME NEW h \in Handles, s.sockets[h] = Nil PROVE u.sockets[h] = Nil
  <2>1. \A k \in Kinds, p \in Ports : s[k][p] # Nil => s[k][p].handle # h
    BY <1>7 DEF StackOK, TasksOK
  <2>2. TcpPort(h) = {} /\ UdpPort(h) = {}
    BY <2>1 DEF Kinds
  <2> QED
    BY <1>2, <1>7, <2>2
<1>8. SameStack(s, u)
  BY <1>2, <1>4, <1>5, <1>6, <1>7 DEF SameStack, Kinds
<1> QED
  BY <1>1, <1>8, SameStackOK

\* purge_invalid_tcp and purge_timeout_udp: a task that stays has another slot
\* than one that goes, and a socket whose slot stays has a task that stays.
LEMMA PurgedOK == ASSUME NEW s, StackOK(s) PROVE StackOK(Purged(s))
<1>1. PICK tcp, udp, hs :
        /\ tcp = {p \in Ports : s.tcp[p] # Nil /\ InvalidTcp(s, s.tcp[p])}
        /\ udp = {p \in Ports : s.udp[p] # Nil /\ TimeoutUdp(s, s.udp[p])}
        /\ hs = {s.tcp[p].handle : p \in tcp} \cup {s.udp[p].handle : p \in udp}
  OBVIOUS
<1>2. PICK u : u = Purged(s)
  OBVIOUS
<1>3. u = [tcp |-> [p \in Ports |-> IF p \in tcp THEN Nil ELSE s.tcp[p]],
           udp |-> [p \in Ports |-> IF p \in udp THEN Nil ELSE s.udp[p]],
           sockets |-> [h \in Handles |-> IF h \in hs THEN Nil ELSE s.sockets[h]]]
  BY <1>1, <1>2 DEF Purged
<1>4. PICK out : out = [k \in Kinds |-> IF k = "tcp" THEN tcp ELSE udp]
  OBVIOUS
<1>5. /\ Shape(u)
      /\ \A k \in Kinds, p \in Ports : u[k][p] = IF p \in out[k] THEN Nil ELSE s[k][p]
      /\ \A h \in Handles : u.sockets[h] = IF h \in hs THEN Nil ELSE s.sockets[h]
  BY <1>3, <1>4 DEF Shape, Kinds
<1>6. \A h : h \in hs <=> \E k \in Kinds, p \in Ports : p \in out[k] /\ s[k][p].handle = h
  BY <1>1, <1>4 DEF Kinds
<1>7. \A k \in Kinds, p \in Ports : p \in out[k] => s[k][p] # Nil
  BY <1>1, <1>4 DEF Kinds
<1>8. \A k \in Kinds, p \in Ports : u[k][p] # Nil =>
        s[k][p] # Nil /\ u[k][p] = s[k][p] /\ s[k][p].handle \notin hs
  <2> SUFFICES ASSUME NEW k \in Kinds, NEW p \in Ports, u[k][p] # Nil, s[k][p].handle \in hs
               PROVE  FALSE
    BY <1>5
  <2>1. PICK l \in Kinds, q \in Ports : q \in out[l] /\ s[l][q].handle = s[k][p].handle
    BY <1>6
  <2>2. p \notin out[k] /\ s[k][p] # Nil
    BY <1>5
  <2>3. l = k /\ q = p
    BY <1>7, <2>1, <2>2 DEF StackOK, SlotsOK
  <2> QED
    BY <2>1, <2>2, <2>3
<1>9. TasksOK(u)
  <2> SUFFICES ASSUME NEW k \in Kinds, NEW p \in Ports, u[k][p] # Nil
               PROVE  /\ IsTask(u[k][p]) /\ u[k][p].handle \in Handles
                      /\ u.sockets[u[k][p].handle] # Nil
                      /\ u.sockets[u[k][p].handle].kind = k
                      /\ u.sockets[u[k][p].handle].owner = u[k][p].owner
    BY DEF TasksOK
  <2>1. s[k][p] # Nil /\ u[k][p] = s[k][p] /\ s[k][p].handle \notin hs
    BY <1>8
  <2>2. s[k][p].handle \in Handles /\ u.sockets[s[k][p].handle] = s.sockets[s[k][p].handle]
    BY <1>5, <2>1 DEF StackOK, TasksOK
  <2> QED
    BY <2>1, <2>2 DEF StackOK, TasksOK
<1>10. SlotsOK(u)
  BY <1>8 DEF SlotsOK, StackOK
<1>11. SocketsOK(u)
  <2> SUFFICES ASSUME NEW h \in Handles, u.sockets[h] # Nil
               PROVE  /\ IsSocket(u.sockets[h]) /\ Size(u.sockets[h].cap)
                      /\ \E k \in Kinds, p \in Ports : u[k][p] # Nil /\ u[k][p].handle = h
    BY DEF SocketsOK
  <2>1. h \notin hs /\ u.sockets[h] = s.sockets[h] /\ s.sockets[h] # Nil
    BY <1>5
  <2>2. PICK k \in Kinds, p \in Ports : s[k][p] # Nil /\ s[k][p].handle = h
    BY <2>1 DEF StackOK, SocketsOK
  <2>3. p \notin out[k]
    BY <1>6, <2>1, <2>2
  <2>4. u[k][p] = s[k][p]
    BY <1>5, <2>3
  <2> QED
    BY <2>1, <2>2, <2>4 DEF StackOK, SocketsOK
<1> QED
  BY <1>2, <1>5, <1>9, <1>10, <1>11 DEF StackOK

LEMMA NewTaskFacts ==
  ASSUME NEW c, NEW h
  PROVE  /\ IsTask(Task(c, h)) /\ Task(c, h).owner = c /\ Task(c, h).handle = h
         /\ IsSocket(TcpSocket(c)) /\ TcpSocket(c).kind = "tcp" /\ TcpSocket(c).owner = c
         /\ TcpSocket(c).cap = TCP_REV_BUF_INIT
         /\ IsSocket(UdpSocket(c)) /\ UdpSocket(c).kind = "udp" /\ UdpSocket(c).owner = c
         /\ UdpSocket(c).cap = TCP_REV_BUF_INIT
  BY DEF IsTask, IsSocket, Task, TcpSocket, UdpSocket

\* open_tcp and open_udp take a vacant port and an empty slot, which no task has.
LEMMA OpenOK ==
  ASSUME NEW s, StackOK(s), NEW kind \in Kinds, NEW c, NEW p \in Ports,
         s[kind][p] = Nil, HasSlot(s)
  PROVE  StackOK(Open(s, kind, c, p))
<1>1. PICK h \in Handles : h = FreeHandle(s) /\ s.sockets[h] = Nil
  BY DEF HasSlot, FreeHandle
<1>2. PICK t, x : t = Task(c, h) /\ x = IF kind = "tcp" THEN TcpSocket(c) ELSE UdpSocket(c)
  OBVIOUS
<1>3. /\ IsTask(t) /\ t.owner = c /\ t.handle = h
      /\ IsSocket(x) /\ x.kind = kind /\ x.owner = c /\ Size(x.cap)
  BY <1>2, NewTaskFacts, SizeFacts DEF Kinds
<1>4. t # Nil /\ x # Nil
  BY <1>3, TaskIsSomething, SocketIsSomething
<1>5. PICK u : u = Open(s, kind, c, p)
  OBVIOUS
<1>6. u = [s EXCEPT ![kind][p] = t, !.sockets[h] = x]
  BY <1>1, <1>2, <1>5 DEF Open, OpenTcp, OpenUdp, Kinds
<1>7. /\ Shape(u)
      /\ u[kind][p] = t /\ u.sockets[h] = x
      /\ \A l \in Kinds, q \in Ports : ~(l = kind /\ q = p) => u[l][q] = s[l][q]
      /\ \A i \in Handles : i # h => u.sockets[i] = s.sockets[i]
  BY <1>6 DEF StackOK, Shape, Kinds
<1>8. \A l \in Kinds, q \in Ports : s[l][q] # Nil => s[l][q].handle # h
  BY <1>1 DEF StackOK, TasksOK
<1>9. TasksOK(u)
  <2> SUFFICES ASSUME NEW l \in Kinds, NEW q \in Ports, u[l][q] # Nil
               PROVE  /\ IsTask(u[l][q]) /\ u[l][q].handle \in Handles
                      /\ u.sockets[u[l][q].handle] # Nil
                      /\ u.sockets[u[l][q].handle].kind = l
                      /\ u.sockets[u[l][q].handle].owner = u[l][q].owner
    BY DEF TasksOK
  <2>1. CASE l = kind /\ q = p
    BY <1>3, <1>4, <1>7, <2>1
  <2>2. CASE ~(l = kind /\ q = p)
    <3>1. u[l][q] = s[l][q] /\ s[l][q] # Nil
      BY <1>7, <2>2
    <3>2. s[l][q].handle \in Handles /\ u.sockets[s[l][q].handle] = s.sockets[s[l][q].handle]
      BY <1>7, <1>8, <3>1 DEF StackOK, TasksOK
    <3> QED
      BY <3>1, <3>2 DEF StackOK, TasksOK
  <2> QED
    BY <2>1, <2>2
<1>10. SlotsOK(u)
  <2> SUFFICES ASSUME NEW k \in Kinds, NEW l \in Kinds, NEW q \in Ports, NEW r \in Ports,
                      u[k][q] # Nil, u[l][r] # Nil, u[k][q].handle = u[l][r].handle
               PROVE  k = l /\ q = r
    BY DEF SlotsOK
  <2>1. CASE k = kind /\ q = p
    BY <1>3, <1>7, <1>8, <2>1
  <2>2. CASE l = kind /\ r = p
    BY <1>3, <1>7, <1>8, <2>2
  <2>3. CASE ~(k = kind /\ q = p) /\ ~(l = kind /\ r = p)
    BY <1>7, <2>3 DEF StackOK, SlotsOK
  <2> QED
    BY <2>1, <2>2, <2>3
<1>11. SocketsOK(u)
  <2> SUFFICES ASSUME NEW i \in Handles, u.sockets[i] # Nil
               PROVE  /\ IsSocket(u.sockets[i]) /\ Size(u.sockets[i].cap)
                      /\ \E k \in Kinds, q \in Ports : u[k][q] # Nil /\ u[k][q].handle = i
    BY DEF SocketsOK
  <2>1. CASE i = h
    BY <1>3, <1>4, <1>7, <2>1
  <2>2. CASE i # h
    <3>1. u.sockets[i] = s.sockets[i]
      BY <1>7, <2>2
    <3>2. PICK k \in Kinds, q \in Ports : s[k][q] # Nil /\ s[k][q].handle = i
      BY <3>1 DEF StackOK, SocketsOK
    <3>3. u[k][q] = s[k][q]
      BY <1>7, <3>2
    <3> QED
      BY <3>1, <3>2, <3>3 DEF StackOK, SocketsOK
  <2> QED
    BY <2>1, <2>2
<1> QED
  BY <1>5, <1>7, <1>9, <1>10, <1>11 DEF StackOK

\* smoltcp's own steps leave a socket its kind, owner and buffer.
LEMMA PacketFacts ==
  ASSUME NEW s, IsSocket(s), Size(s.cap), NEW kind
  PROVE  SameSocket(s, Receive(s, kind)) /\ SameSocket(s, Transmit(s))
<1>1. \A a : SameSocket(s, [s EXCEPT !.st = a]) /\ SameSocket(s, [s EXCEPT !.rx = a])
  BY DEF SameSocket, IsSocket
<1>2. \A a, b : /\ SameSocket(s, [s EXCEPT !.unacked = a, !.st = b])
                /\ SameSocket(s, [s EXCEPT !.st = a, !.rx = b])
  BY DEF SameSocket, IsSocket
<1>3. SameSocket(s, Receive(s, kind))
  <2>1. SameSocket(s, s)
    BY DEF SameSocket
  <2>2. CASE kind = "ack"
    BY <1>2, <2>2 DEF Receive
  <2>3. CASE kind = "data"
    BY <1>1, <2>1, <2>3 DEF Receive
  <2>4. CASE kind = "fin"
    BY <1>1, <2>1, <2>4 DEF Receive
  <2>5. CASE kind = "rst"
    BY <1>2, <2>1, <2>5 DEF Receive
  <2>6. CASE kind = "finack"
    BY <1>2, <2>1, <2>6 DEF Receive
  <2>7. CASE kind \notin {"ack", "data", "fin", "finack", "rst"}
    BY <1>1, <2>1, <2>7 DEF Receive
  <2> QED
    BY <2>2, <2>3, <2>4, <2>5, <2>6, <2>7
<1>4. PICK a : Transmit(s) = [s EXCEPT !.st = a]
  BY DEF Transmit
<1> QED
  BY <1>1, <1>3, <1>4

LEMMA DriveIfaceOK ==
  ASSUME NEW e, StackOK(stack[e]) PROVE StackOK(DriveIface(e))
<1> DEFINE Poll(s) == IF s = Nil THEN Nil
                      ELSE IF inq[e] # None /\ inq[e].c = s.owner THEN Receive(s, inq[e].kind)
                      ELSE Transmit(s)
<1>1. PICK s, u : s = stack[e] /\ u = DriveIface(e)
  OBVIOUS
<1>2. u = [s EXCEPT !.sockets = [h \in Handles |-> Poll(s.sockets[h])]]
  BY <1>1 DEF DriveIface
<1>3. /\ Shape(u) /\ u.tcp = s.tcp /\ u.udp = s.udp
      /\ \A h \in Handles : u.sockets[h] = Poll(s.sockets[h])
  BY <1>1, <1>2 DEF StackOK, Shape
<1>4. ASSUME NEW h \in Handles, s.sockets[h] # Nil
      PROVE  SameSocket(s.sockets[h], u.sockets[h])
  <2>1. IsSocket(s.sockets[h]) /\ Size(s.sockets[h].cap)
    BY <1>1, <1>4 DEF StackOK, SocketsOK
  <2> QED
    BY <1>3, <1>4, <2>1, PacketFacts
<1>5. \A k \in Kinds, p \in Ports : /\ u[k][p] = s[k][p]
                                    /\ s[k][p] # Nil => SameTask(s[k][p], u[k][p])
  BY <1>1, <1>3 DEF StackOK, TasksOK, SameTask, Kinds
<1>6. SameStack(s, u)
  BY <1>3, <1>4, <1>5 DEF SameStack
<1> QED
  BY <1>1, <1>6, SameStackOK

\* One task changes, and keeps its owner and its slot.
LEMMA OneTaskOK ==
  ASSUME NEW s, StackOK(s), NEW kind \in Kinds, NEW p \in Ports, s[kind][p] # Nil,
         NEW t, SameTask(s[kind][p], t)
  PROVE  StackOK([s EXCEPT ![kind][p] = t])
<1>1. PICK u : u = [s EXCEPT ![kind][p] = t]
  OBVIOUS
<1>2. /\ Shape(u) /\ u[kind][p] = t /\ u.sockets = s.sockets
      /\ \A l \in Kinds, q \in Ports : ~(l = kind /\ q = p) => u[l][q] = s[l][q]
  BY <1>1 DEF StackOK, Shape, Kinds
<1>3. \A l \in Kinds, q \in Ports : s[l][q] # Nil => SameTask(s[l][q], s[l][q])
  BY DEF StackOK, TasksOK, SameTask
<1>4. \A h \in Handles : s.sockets[h] # Nil => SameSocket(s.sockets[h], s.sockets[h])
  BY DEF StackOK, SocketsOK, SameSocket
<1>5. SameStack(s, u)
  BY <1>2, <1>3, <1>4 DEF SameStack
<1> QED
  BY <1>1, <1>5, SameStackOK

\* What a forwarder does to the task of its connection: the channel gets a
\* chunk, or its sender is dropped.
LEMMA ForTaskInv ==
  ASSUME IInv, NEW e, NEW c, NEW f \in {"rx", "eof"}, NEW v
  PROVE  /\ DOMAIN ForTask(e, c, f, v) = Endpoints
         /\ \A d \in Endpoints : StackOK(ForTask(e, c, f, v)[d])
<1> DEFINE Upd(t) == IF t # Nil /\ t.owner = c THEN [t EXCEPT ![f] = v] ELSE t
<1>1. PICK s, u : /\ s = stack[e]
                  /\ u = [s EXCEPT !.tcp = [p \in Ports |-> Upd(s.tcp[p])],
                                   !.udp = [p \in Ports |-> Upd(s.udp[p])]]
  OBVIOUS
<1>2. /\ DOMAIN ForTask(e, c, f, v) = Endpoints
      /\ \A d \in Endpoints : ForTask(e, c, f, v)[d] = IF d = e THEN u ELSE stack[d]
  BY <1>1 DEF ForTask, IInv
<1>3. ASSUME e \in Endpoints PROVE StackOK(u)
  <2>1. StackOK(s)
    BY <1>1, <1>3 DEF IInv
  <2>2. /\ Shape(u) /\ u.sockets = s.sockets
        /\ \A k \in Kinds, p \in Ports : u[k][p] = Upd(s[k][p])
    BY <1>1, <2>1 DEF StackOK, Shape, Kinds
  <2>3. ASSUME NEW k \in Kinds, NEW p \in Ports, s[k][p] # Nil
        PROVE  SameTask(s[k][p], u[k][p])
    <3>1. IsTask(s[k][p])
      BY <2>1, <2>3 DEF StackOK, TasksOK
    <3>2. u[k][p] \in {s[k][p], [s[k][p] EXCEPT ![f] = v]}
      BY <2>2
    <3> QED
      BY <3>1, <3>2 DEF SameTask, IsTask
  <2>4. \A h \in Handles : s.sockets[h] # Nil => SameSocket(s.sockets[h], s.sockets[h])
    BY <2>1 DEF StackOK, SocketsOK, SameSocket
  <2>5. SameStack(s, u)
    BY <2>2, <2>3, <2>4 DEF SameStack
  <2> QED
    BY <2>1, <2>5, SameStackOK
<1> QED
  BY <1>2, <1>3 DEF IInv

-------------------------------------------------------------------------------
(* The endpoints.                                                            *)

LEMMA OneStack ==
  ASSUME IInv, NEW e, NEW u, StackOK(u), stack' = [stack EXCEPT ![e] = u]
  PROVE  IInv'
  BY DEF IInv

LEMMA SameStacks == ASSUME IInv, UNCHANGED stack PROVE IInv'
  BY DEF IInv

LEMMA InitInv == Init => IInv
  BY NewStackOK DEF Init, IInv

LEMMA DriveInv == ASSUME IInv, NEW e \in Endpoints, Drive(e) PROVE IInv'
<1>1. PICK arrived, full, early : /\ arrived = DriveIface(e)
                                  /\ stack' = [stack EXCEPT ![e] = Purged(PollAll(arrived, full, early))]
  BY DEF Drive
<1>2. StackOK(arrived)
  BY <1>1, DriveIfaceOK DEF IInv
<1>3. StackOK(Purged(PollAll(arrived, full, early)))
  BY <1>2, PollAllOK, PurgedOK
<1> QED
  BY <1>1, <1>3, OneStack

LEMMA TasksAgeInv == ASSUME IInv, NEW e \in Endpoints, TasksAge(e) PROVE IInv'
<1> DEFINE Aged(kind, p) ==
             Older(stack[e][kind][p], kind, stack[e].sockets[stack[e][kind][p].handle].st)
<1>1. PICK kind \in Kinds, p \in Ports :
        /\ stack[e][kind][p] # Nil
        /\ stack' = [stack EXCEPT ![e][kind][p] = Aged(kind, p)]
  BY DEF TasksAge, Kinds
<1> HIDE DEF Aged
<1>2. PICK s, t : s = stack[e] /\ t = Aged(kind, p)
  OBVIOUS
<1>3. stack' = [stack EXCEPT ![e] = [s EXCEPT ![kind][p] = t]]
  BY <1>1, <1>2
<1>4. StackOK(s) /\ IsTask(s[kind][p])
  BY <1>1, <1>2 DEF IInv, StackOK, TasksOK
<1>5. PICK a, b : t = [s[kind][p] EXCEPT !.half = a, !.old = b]
  BY <1>2 DEF Aged, Older
<1>6. SameTask(s[kind][p], t)
  BY <1>4, <1>5 DEF SameTask, IsTask
<1>7. StackOK([s EXCEPT ![kind][p] = t])
  BY <1>1, <1>2, <1>4, <1>6, OneTaskOK
<1> QED
  BY <1>3, <1>7, OneStack

\* A socket whose state changes is the same socket.
LEMMA OneSocketOK ==
  ASSUME NEW s, StackOK(s), NEW h \in Handles, s.sockets[h] # Nil, NEW v
  PROVE  StackOK([s EXCEPT !.sockets[h].st = v])
<1>1. PICK u : u = [s EXCEPT !.sockets[h].st = v]
  OBVIOUS
<1>2. /\ Shape(u) /\ u.tcp = s.tcp /\ u.udp = s.udp
      /\ u.sockets[h] = [s.sockets[h] EXCEPT !.st = v]
      /\ \A i \in Handles : i # h => u.sockets[i] = s.sockets[i]
  BY <1>1 DEF StackOK, Shape
<1>3. \A i \in Handles : s.sockets[i] # Nil => IsSocket(s.sockets[i]) /\ Size(s.sockets[i].cap)
  BY DEF StackOK, SocketsOK
<1>4. SameSocket(s.sockets[h], u.sockets[h])
  BY <1>2, <1>3 DEF SameSocket, IsSocket
<1>5. ASSUME NEW i \in Handles, s.sockets[i] # Nil PROVE SameSocket(s.sockets[i], u.sockets[i])
  <2>1. CASE i = h
    BY <1>4, <2>1
  <2>2. CASE i # h
    BY <1>2, <1>3, <1>5, <2>2 DEF SameSocket
  <2> QED
    BY <2>1, <2>2
<1>6. u.sockets[h] # Nil
  BY <1>4, SocketIsSomething DEF SameSocket
<1>7. \A k \in Kinds, p \in Ports : /\ u[k][p] = s[k][p]
                                    /\ s[k][p] # Nil => SameTask(s[k][p], u[k][p])
  BY <1>2 DEF StackOK, TasksOK, SameTask, Kinds
<1>8. SameStack(s, u)
  BY <1>2, <1>5, <1>6, <1>7 DEF SameStack
<1> QED
  BY <1>1, <1>8, SameStackOK

LEMMA TimeWaitInv == ASSUME IInv, NEW e \in Endpoints, TimeWaitEnds(e) PROVE IInv'
<1>1. PICK h \in Handles : /\ stack[e].sockets[h] # Nil
                           /\ stack' = [stack EXCEPT ![e].sockets[h].st = "closed"]
  BY DEF TimeWaitEnds
<1>2. PICK s, u : s = stack[e] /\ u = [s EXCEPT !.sockets[h].st = "closed"]
  OBVIOUS
<1>3. stack' = [stack EXCEPT ![e] = u]
  BY <1>1, <1>2
<1>4. StackOK(u)
  BY <1>1, <1>2, OneSocketOK DEF IInv
<1> QED
  BY <1>3, <1>4, OneStack

LEMMA TimePassesInv == ASSUME IInv, NEW e \in Endpoints, TimePasses(e) PROVE IInv'
  BY TasksAgeInv, TimeWaitInv DEF TimePasses

LEMMA OpenInv ==
  ASSUME IInv, NEW e, NEW kind \in Kinds, NEW c, NEW p \in Ports, Vacant(e, kind, p),
         stack' = [stack EXCEPT ![e] = Open(@, kind, c, p)]
  PROVE  IInv'
<1>1. CASE e \in Endpoints
  <2>1. StackOK(Open(stack[e], kind, c, p))
    BY <1>1, OpenOK DEF IInv, Vacant
  <2> QED
    BY <2>1, OneStack
<1>2. CASE e \notin Endpoints
  BY <1>2 DEF IInv
<1> QED
  BY <1>1, <1>2

LEMMA StepInv == IInv /\ [Next]_vars => IInv'
<1> SUFFICES ASSUME IInv, [Next]_vars PROVE IInv'
  OBVIOUS
<1>1. ASSUME NEW e \in Endpoints, Tasklets(e) PROVE IInv'
  <2>1. CASE Drive(e)
    BY <2>1, DriveInv
  <2>2. CASE TimePasses(e)
    BY <2>2, TimePassesInv
  <2>3. CASE WgOutFails(e) \/ WgIn(e) \/ WgInFails(e) \/ WgTick(e) \/ TimeoutInactive(e)
    BY <2>3, SameStacks DEF WgOutFails, WgIn, WgInFails, WgTick, TimeoutInactive, Stops
  <2>4. CASE Kill(e) \/ DriveFirst(e) \/ DriveEnd(e)
    BY <2>4, SameStacks DEF Kill, DriveFirst, DriveEnd
  <2> QED
    BY <1>1, <2>1, <2>2, <2>3, <2>4 DEF Tasklets
<1>2. ASSUME NEW c \in Conns, Connection(c) PROVE IInv'
  <2>1. CASE Spawn(c) \/ TakeCached(c) \/ RemoveInactive(c) \/ StartMaking(c) \/ Make(c)
    BY <2>1, SameStacks DEF Spawn, TakeCached, RemoveInactive, StartMaking, Make
  <2>2. CASE AttachTimeout(c) \/ LookupEnds(c) \/ Send(c) \/ ClientCloses(c)
    BY <2>2, SameStacks DEF AttachTimeout, LookupEnds, Send, ClientCloses
  <2>3. CASE Lookup(c)
    <3>1. CASE UNCHANGED stack
      BY <3>1, SameStacks
    <3>2. ASSUME NEW d \in Conns, NEW kind \in {"udp", "tcp"}, NEW p \in Ports,
                 Vacant(conn[c].ep, kind, p),
                 stack' = [stack EXCEPT ![conn[c].ep] = Open(@, kind, d, p)]
          PROVE  IInv'
      BY <3>2, OpenInv DEF Kinds
    <3> QED
      BY <2>3, <3>1, <3>2 DEF Lookup
  <2>4. CASE OpenConn(c)
    <3>1. CASE UNCHANGED stack
      BY <3>1, SameStacks
    <3>2. CASE /\ Vacant(conn[c].ep, StackKind(c), PortOf[c])
               /\ stack' = [stack EXCEPT ![conn[c].ep] = Open(@, StackKind(c), c, PortOf[c])]
      <4>1. StackKind(c) \in Kinds /\ PortOf[c] \in Ports
        BY WGAssumption DEF StackKind, Kinds
      <4> QED
        BY <3>2, <4>1, OpenInv
    <3> QED
      BY <2>4, <3>1, <3>2 DEF OpenConn
  <2>5. CASE Forward(c)
    <3>1. PICK v : stack' = stack \/ stack' = ForTask(conn[c].ep, c, "rx", v)
      BY <2>5 DEF Forward
    <3> QED
      BY <3>1, ForTaskInv, SameStacks DEF IInv
  <2>6. CASE ForwarderEnds(c)
    <3>1. stack' = ForTask(conn[c].ep, c, "eof", TRUE)
      BY <2>6 DEF ForwarderEnds
    <3> QED
      BY <3>1, ForTaskInv DEF IInv
  <2> QED
    BY <1>2, <2>1, <2>2, <2>3, <2>4, <2>5, <2>6 DEF Connection
<1>3. CASE UNCHANGED vars
  BY <1>3, SameStacks DEF vars
<1> QED
  BY <1>1, <1>2, <1>3 DEF Next

\* The tasks and the sockets of every stack refer to each other, and the sizes of
\* its receive buffers are ones TcpTuning steps through, in every reachable state.
THEOREM InvariantHolds == Spec => []IInv
  BY InitInv, StepInv, PTL DEF Spec

\* The SocketSet and the two port maps stay in step, however many connections,
\* lookups and endpoints open, time out and reuse ports and slots: no task's
\* get_mut finds another's socket or an empty slot, and no slot leaks.
THEOREM SlotsMatchTasks == Spec => []HandlesOwned
<1>1. IInv => HandlesOwned
  <2> SUFFICES ASSUME IInv, NEW e \in Endpoints
               PROVE  LET all == {x \in {"tcp", "udp"} \X Ports : stack[e][x[1]][x[2]] # Nil}
                          H(x) == stack[e][x[1]][x[2]].handle
                      IN /\ \A x \in all : /\ stack[e].sockets[H(x)] # Nil
                                           /\ stack[e].sockets[H(x)].kind = x[1]
                                           /\ stack[e].sockets[H(x)].owner = stack[e][x[1]][x[2]].owner
                         /\ \A x, y \in all : H(x) = H(y) => x = y
                         /\ \A h \in Handles : stack[e].sockets[h] # Nil => \E x \in all : H(x) = h
    BY DEF HandlesOwned
  <2> DEFINE all == {x \in {"tcp", "udp"} \X Ports : stack[e][x[1]][x[2]] # Nil}
             H(x) == stack[e][x[1]][x[2]].handle
  <2>1. StackOK(stack[e])
    BY DEF IInv
  <2>2. \A x \in all : /\ x[1] \in Kinds /\ x[2] \in Ports /\ x = <<x[1], x[2]>>
                       /\ stack[e][x[1]][x[2]] # Nil
    BY DEF Kinds
  <2>3. ASSUME NEW x \in all
        PROVE  /\ stack[e].sockets[H(x)] # Nil
               /\ stack[e].sockets[H(x)].kind = x[1]
               /\ stack[e].sockets[H(x)].owner = stack[e][x[1]][x[2]].owner
    BY <2>1, <2>2 DEF StackOK, TasksOK
  <2>4. ASSUME NEW x \in all, NEW y \in all, H(x) = H(y) PROVE x = y
    BY <2>1, <2>2, <2>4 DEF StackOK, SlotsOK
  <2>5. ASSUME NEW h \in Handles, stack[e].sockets[h] # Nil PROVE \E x \in all : H(x) = h
    <3>1. PICK k \in Kinds, p \in Ports : stack[e][k][p] # Nil /\ stack[e][k][p].handle = h
      BY <2>1, <2>5 DEF StackOK, SocketsOK
    <3>2. <<k, p>> \in all /\ H(<<k, p>>) = h
      BY <3>1 DEF Kinds
    <3> QED
      BY <3>2
  <2> QED
    BY <2>3, <2>4, <2>5
<1> QED
  BY <1>1, InvariantHolds, PTL

\* increase_tcp_rev_buf never takes a receive buffer past TCP_RCV_BUF_MAX, for any
\* sizes that fit together the way those of TcpTuning do.
THEOREM BuffersBounded == Spec => []RecvBufBounded
<1>1. IInv => RecvBufBounded
  BY SizeFacts DEF IInv, StackOK, SocketsOK, RecvBufBounded
<1> QED
  BY <1>1, InvariantHolds, PTL

-------------------------------------------------------------------------------
(* The loop of try_send.  It is a recursive function, so what it computes is *)
(* proved by induction on its rounds, over a set of naturals: a set without a*)
(* least natural outside it holds them all.                                  *)

LEMMA NatSetInduction ==
  ASSUME NEW S, 0 \in S, \A n \in Nat : n \in S => n + 1 \in S PROVE Nat \subseteq S
<1> SUFFICES ASSUME Nat \ S # {} PROVE FALSE
  OBVIOUS
<1>1. PICK x \in Nat \ S : \A y \in Nat \ S : <<y, x>> \notin OpToRel(<, Nat)
  BY NatLessThanWellFounded, WFMin
<1>2. \A y \in Nat \ S : ~(y < x)
  BY <1>1 DEF OpToRel
<1>3. x # 0 /\ x - 1 \in Nat /\ x - 1 < x
  OBVIOUS
<1>4. x - 1 \in S
  BY <1>2, <1>3
<1> QED
  BY <1>3, <1>4

\* The function of the rounds exists, so that SendRounds is its last value.
IsRounds(f, x, n) == f = [i \in 0 .. n |-> IF i = 0 THEN x ELSE SendRound(f[i - 1])]

LEMMA RoundsExist == ASSUME NEW x, NEW n \in Nat PROVE \E f : IsRounds(f, x, n)
<1> DEFINE S == {m \in Nat : \E f : IsRounds(f, x, m)}
<1>1. 0 \in S
  <2>1. IsRounds([i \in 0 .. 0 |-> x], x, 0)
    BY DEF IsRounds
  <2> QED
    BY <2>1
<1>2. ASSUME NEW m \in Nat, m \in S PROVE m + 1 \in S
  <2>1. PICK f : IsRounds(f, x, m)
    BY <1>2
  <2>2. PICK g : g = [i \in 0 .. m + 1 |-> IF i = m + 1 THEN SendRound(f[m]) ELSE f[i]]
    OBVIOUS
  <2>3. ASSUME NEW i \in 0 .. m + 1
        PROVE  g[i] = IF i = 0 THEN x ELSE SendRound(g[i - 1])
    <3>1. CASE i = m + 1
      <4>1. g[i] = SendRound(f[m]) /\ i # 0 /\ i - 1 = m /\ g[m] = f[m]
        BY <2>2, <3>1
      <4> QED
        BY <4>1
    <3>2. CASE i = 0
      BY <2>1, <2>2, <3>2 DEF IsRounds
    <3>3. CASE i \in 1 .. m
      <4>1. g[i] = f[i] /\ g[i - 1] = f[i - 1] /\ i \in 0 .. m /\ i # 0
        BY <2>2, <3>3
      <4>2. f[i] = SendRound(f[i - 1])
        BY <2>1, <4>1 DEF IsRounds
      <4> QED
        BY <4>1, <4>2
    <3> QED
      BY <3>1, <3>2, <3>3
  <2>4. g = [i \in 0 .. m + 1 |-> IF i = 0 THEN x ELSE SendRound(g[i - 1])]
    BY <2>2, <2>3
  <2>5. IsRounds(g, x, m + 1)
    BY <2>4 DEF IsRounds
  <2> QED
    BY <2>5
<1> HIDE DEF S
<1>3. n \in S
  BY <1>1, <1>2, NatSetInduction
<1> QED
  BY <1>3 DEF S

After(x, n, z) == \E f : /\ f[0] = x
                         /\ \A i \in 0 .. n - 1 : f[i + 1] = SendRound(f[i])
                         /\ z = f[n]

LEMMA RoundsFacts ==
  ASSUME NEW x, NEW n, n = Len(x.t.rx) + 1, n \in Nat
  PROVE  After(x, n, SendRounds(x))
<1>1. PICK f : f = CHOOSE g : IsRounds(g, x, n)
  OBVIOUS
<1>2. IsRounds(f, x, n)
  BY <1>1, RoundsExist
<1>3. SendRounds(x) = f[n]
  BY <1>1 DEF SendRounds, IsRounds
<1>4. f[0] = x
  BY <1>2 DEF IsRounds
<1>5. ASSUME NEW i \in 0 .. n - 1 PROVE f[i + 1] = SendRound(f[i])
  <2>1. i + 1 \in 0 .. n /\ i + 1 # 0 /\ (i + 1) - 1 = i
    OBVIOUS
  <2>2. f[i + 1] = SendRound(f[(i + 1) - 1])
    BY <1>2, <2>1 DEF IsRounds
  <2> QED
    BY <2>1, <2>2
<1> QED
  BY <1>3, <1>4, <1>5 DEF After

-------------------------------------------------------------------------------
(* Chunks of numbered bytes.                                                 *)

\* The bytes a + 1 to b; chunks of them, none empty, with the number of the last
\* byte before each as a witness; the rest of a chunk of which the first bytes,
\* up to n, are written.
Run(a, b) == [i \in 1 .. b - a |-> a + i]
Offsets(f, q, a, b) ==
  /\ f \in [0 .. Len(q) -> 0 .. b] /\ f[0] = a /\ f[Len(q)] = b
  /\ \A i \in 1 .. Len(q) : f[i - 1] < f[i] /\ q[i] = Run(f[i - 1], f[i])
Chunks(q, a, b) == q \in Seq(Seq(Nat)) /\ \E f \in [0 .. Len(q) -> 0 .. b] : Offsets(f, q, a, b)
Rest(r, n, a) == IF r = Nil THEN a = n
                 ELSE /\ DOMAIN r = {"buf", "start"} /\ r.start \in Nat /\ r.start <= n
                      /\ n < a /\ r.buf = Run(n - r.start, a)

LEMMA RunFacts ==
  ASSUME NEW a \in Nat, NEW b \in Nat, a <= b
  PROVE  Run(a, b) \in Seq(Nat) /\ Len(Run(a, b)) = b - a /\ \A i \in 1 .. b - a : Run(a, b)[i] = a + i
  BY DEF Run

LEMMA NoChunks == ASSUME NEW a \in Nat PROVE Chunks(<<>>, a, a)
<1>1. PICK f : f = [i \in 0 .. 0 |-> a]
  OBVIOUS
<1>2. f \in [0 .. Len(<<>>) -> 0 .. a] /\ Offsets(f, <<>>, a, a)
  BY <1>1 DEF Offsets
<1> QED
  BY <1>2 DEF Chunks

LEMMA ChunksOfNothing ==
  ASSUME NEW a, NEW b, Chunks(<<>>, a, b) PROVE a = b
  BY DEF Chunks, Offsets

LEMMA ChunksAppend ==
  ASSUME NEW q, NEW a \in Nat, NEW b \in Nat, NEW c \in Nat, b < c, Chunks(q, a, b)
  PROVE  Chunks(Append(q, Run(b, c)), a, c)
<1>1. PICK f \in [0 .. Len(q) -> 0 .. b] : Offsets(f, q, a, b)
  BY DEF Chunks
<1>2. q \in Seq(Seq(Nat)) /\ Len(q) \in Nat /\ Run(b, c) \in Seq(Nat)
  <2>1. b <= c
    OBVIOUS
  <2>2. Run(b, c) \in Seq(Nat)
    BY <2>1, RunFacts
  <2> QED
    BY <2>2 DEF Chunks
<1>3. PICK r : r = Append(q, Run(b, c))
  OBVIOUS
<1>4. /\ r \in Seq(Seq(Nat)) /\ Len(r) = Len(q) + 1
      /\ r[Len(q) + 1] = Run(b, c) /\ \A i \in 1 .. Len(q) : r[i] = q[i]
  BY <1>2, <1>3
<1>5. PICK g : g = [i \in 0 .. Len(q) + 1 |-> IF i = Len(q) + 1 THEN c ELSE f[i]]
  OBVIOUS
<1>6. g \in [0 .. Len(r) -> 0 .. c]
  BY <1>1, <1>2, <1>4, <1>5
<1>7. g[0] = a /\ g[Len(r)] = c
  BY <1>1, <1>2, <1>4, <1>5 DEF Offsets
<1>8. ASSUME NEW i \in 1 .. Len(r) PROVE g[i - 1] < g[i] /\ r[i] = Run(g[i - 1], g[i])
  <2>1. CASE i = Len(q) + 1
    <3>1. i - 1 = Len(q) /\ g[i] = c /\ g[Len(q)] = f[Len(q)] /\ f[Len(q)] = b
      BY <1>1, <1>2, <1>5, <2>1 DEF Offsets
    <3> QED
      BY <1>4, <2>1, <3>1
  <2>2. CASE i # Len(q) + 1
    <3>1. i \in 1 .. Len(q) /\ i - 1 \in 0 .. Len(q)
      BY <1>2, <1>4, <2>2
    <3>2. g[i] = f[i] /\ g[i - 1] = f[i - 1]
      BY <1>2, <1>5, <3>1
    <3> QED
      BY <1>1, <1>4, <3>1, <3>2 DEF Offsets
  <2> QED
    BY <2>1, <2>2
<1>9. Offsets(g, r, a, c)
  BY <1>6, <1>7, <1>8 DEF Offsets
<1> QED
  BY <1>3, <1>4, <1>6, <1>9 DEF Chunks

LEMMA ChunksTail ==
  ASSUME NEW q, NEW a \in Nat, NEW b \in Nat, Chunks(q, a, b), q # <<>>
  PROVE  \E m \in 0 .. b : a < m /\ Head(q) = Run(a, m) /\ Chunks(Tail(q), m, b)
<1>1. PICK f \in [0 .. Len(q) -> 0 .. b] : Offsets(f, q, a, b)
  BY DEF Chunks
<1>2. q \in Seq(Seq(Nat)) /\ Len(q) \in Nat /\ Len(q) > 0 /\ Head(q) = q[1]
  BY DEF Chunks
<1>3. PICK r : r = Tail(q)
  OBVIOUS
<1>4. /\ r \in Seq(Seq(Nat)) /\ Len(r) = Len(q) - 1
      /\ \A i \in 1 .. Len(q) - 1 : r[i] = q[i + 1]
  BY <1>2, <1>3
<1>5. /\ f[1] \in 0 .. b /\ f[1 - 1] = a /\ f[1 - 1] < f[1] /\ q[1] = Run(f[1 - 1], f[1])
  BY <1>1, <1>2 DEF Offsets
<1>6. PICK g : g = [i \in 0 .. Len(q) - 1 |-> f[i + 1]]
  OBVIOUS
<1>7. g \in [0 .. Len(r) -> 0 .. b]
  BY <1>1, <1>2, <1>4, <1>6
<1>8. g[0] = f[1] /\ g[Len(r)] = b
  BY <1>1, <1>2, <1>4, <1>6 DEF Offsets
<1>9. ASSUME NEW i \in 1 .. Len(r) PROVE g[i - 1] < g[i] /\ r[i] = Run(g[i - 1], g[i])
  <2>1. i + 1 \in 1 .. Len(q) /\ (i + 1) - 1 = i
    BY <1>2, <1>4
  <2>2. f[i] < f[i + 1] /\ q[i + 1] = Run(f[i], f[i + 1])
    <3>1. f[(i + 1) - 1] < f[i + 1] /\ q[i + 1] = Run(f[(i + 1) - 1], f[i + 1])
      BY <1>1, <2>1 DEF Offsets
    <3> QED
      BY <2>1, <3>1
  <2>3. i \in 0 .. Len(q) - 1 /\ i - 1 \in 0 .. Len(q) - 1 /\ (i - 1) + 1 = i
    BY <1>2, <1>4
  <2>4. g[i] = f[i + 1] /\ g[i - 1] = f[(i - 1) + 1]
    BY <1>6, <2>3
  <2> QED
    BY <1>4, <2>2, <2>3, <2>4
<1>10. Offsets(g, r, f[1], b)
  BY <1>7, <1>8, <1>9 DEF Offsets
<1> QED
  BY <1>2, <1>3, <1>4, <1>5, <1>7, <1>10 DEF Chunks

-------------------------------------------------------------------------------
(* try_send.                                                                 *)

Pair(x) == /\ DOMAIN x = {"t", "s"}
           /\ {"rx", "remain", "eof"} \subseteq DOMAIN x.t
           /\ {"st", "out", "unacked"} \subseteq DOMAIN x.s /\ x.s.unacked \in Nat

\* What was written, and then a part of a chunk.
Written(n, r, lo, hi) == Run(0, n) \o SubSeq(r, lo, hi)

LEMMA RunConcat ==
  ASSUME NEW k \in Nat, NEW n \in Nat, NEW a \in Nat, NEW j \in Nat, k <= n, n <= j, j <= a,
         NEW lo, lo = (n - k) + 1, NEW hi, hi = (n - k) + (j - n)
  PROVE  Written(n, Run(k, a), lo, hi) = Run(0, j)
<1>1. PICK r : r = Run(k, a)
  OBVIOUS
<1>2. r \in Seq(Nat) /\ Len(r) = a - k /\ \A i \in 1 .. a - k : r[i] = k + i
  <2>1. k <= a
    OBVIOUS
  <2> QED
    BY <1>1, <2>1, RunFacts
<1>3. PICK w : w = SubSeq(r, lo, hi)
  OBVIOUS
<1>4. w \in Seq(Nat) /\ Len(w) = j - n
  BY <1>2, <1>3
<1>5. ASSUME NEW i \in 1 .. j - n PROVE w[i] = n + i
  <2>1. w[i] = r[(n - k) + 1 + i - 1]
    BY <1>2, <1>3
  <2>2. (n - k) + 1 + i - 1 \in 1 .. a - k /\ k + ((n - k) + 1 + i - 1) = n + i
    OBVIOUS
  <2> QED
    BY <1>2, <2>1, <2>2
<1>6. PICK v : v = Run(0, n)
  OBVIOUS
<1>7. v \in Seq(Nat) /\ Len(v) = n /\ \A i \in 1 .. n : v[i] = i
  <2>1. 0 \in Nat /\ 0 <= n /\ n - 0 = n /\ \A i \in 1 .. n : 0 + i = i
    OBVIOUS
  <2>2. v \in Seq(Nat) /\ Len(v) = n - 0 /\ \A i \in 1 .. n - 0 : v[i] = 0 + i
    BY <1>6, <2>1, RunFacts
  <2> QED
    BY <2>1, <2>2
<1>8. PICK u : u = v \o w
  OBVIOUS
<1>9. u \in Seq(Nat) /\ Len(u) = j
  <2>1. u \in Seq(Nat) /\ Len(u) = Len(v) + Len(w)
    BY <1>4, <1>7, <1>8, ConcatProperties, Zenon
  <2> QED
    BY <1>4, <1>7, <2>1
<1>10. ASSUME NEW i \in 1 .. j PROVE u[i] = i
  <2>1. CASE i <= n
    BY <1>4, <1>7, <1>8, <2>1
  <2>2. CASE ~(i <= n)
    <3>1. u[i] = w[i - n]
      <4>1. i \in (Len(v) + 1) .. (Len(v) + Len(w))
        BY <1>4, <1>7, <2>2
      <4>2. u[i] = w[i - Len(v)]
        BY <1>4, <1>7, <1>8, <4>1, ConcatProperties
      <4> QED
        BY <1>7, <4>2
    <3>2. i - n \in 1 .. j - n /\ n + (i - n) = i
      BY <2>2
    <3> QED
      BY <1>5, <3>1, <3>2
  <2> QED
    BY <2>1, <2>2
<1>11. PICK z : z = Run(0, j)
  OBVIOUS
<1>12. z \in Seq(Nat) /\ Len(z) = j /\ \A i \in 1 .. j : z[i] = i
  <2>1. 0 \in Nat /\ 0 <= j /\ j - 0 = j /\ \A i \in 1 .. j : 0 + i = i
    OBVIOUS
  <2>2. z \in Seq(Nat) /\ Len(z) = j - 0 /\ \A i \in 1 .. j - 0 : z[i] = 0 + i
    BY <1>11, <2>1, RunFacts
  <2> QED
    BY <2>1, <2>2
<1>13. u = z
  BY <1>9, <1>10, <1>12
<1> QED
  BY <1>1, <1>3, <1>6, <1>8, <1>11, <1>13 DEF Written

Wrote(x, z, n, a) == \E j \in 0 .. a, u \in Nat : \E r :
                       /\ n < j /\ Rest(r, j, a) /\ (r = Nil \/ TCP_SND_BUF_INIT <= u)
                       /\ DOMAIN z = {"t", "s"}
                       /\ z.t = [x.t EXCEPT !.remain = r]
                       /\ z.s = [x.s EXCEPT !.out = Run(0, j), !.unacked = u]

\* send_slice takes what fits of the rest of a chunk, and something does.
LEMMA WriteFacts ==
  ASSUME NEW x, Pair(x), NEW n \in Nat, NEW a \in Nat, NEW start \in Nat, start <= n, n < a,
         x.s.out = Run(0, n), CanSend(x.s), NEW buf, buf = Run(n - start, a)
  PROVE  Wrote(x, Write(x, buf, start), n, a)
<1>1. PICK k : k = n - start
  OBVIOUS
<1>2. k \in Nat /\ k <= n /\ k <= a /\ n - k = start
  BY <1>1
<1>3. Len(buf) = a - k
  BY <1>1, <1>2, RunFacts
<1>4. PICK room : room = Room(x.s)
  OBVIOUS
<1>5. room \in Nat /\ room > 0 /\ room = TCP_SND_BUF_INIT - x.s.unacked
  BY <1>4, SSAssumption DEF CanSend, Room, Pair
<1>6. PICK sent : sent = IF room < Len(buf) - start THEN room ELSE Len(buf) - start
  OBVIOUS
<1>7. sent \in Nat /\ sent > 0 /\ n + sent <= a /\ (sent = room \/ n + sent = a)
  BY <1>2, <1>3, <1>5, <1>6
<1>8. PICK j : j = n + sent
  OBVIOUS
<1>9. j \in Nat /\ j \in 0 .. a /\ n < j /\ j - n = sent /\ n <= j /\ j <= a
  BY <1>7, <1>8
<1>10. Run(0, n) \o SubSeq(buf, start + 1, start + sent) = Run(0, j)
  <2>1. PICK lo, hi : lo = start + 1 /\ hi = start + sent
    OBVIOUS
  <2>2. lo = (n - k) + 1 /\ hi = (n - k) + (j - n)
    BY <1>2, <1>9, <2>1
  <2>3. Written(n, Run(k, a), lo, hi) = Run(0, j)
    BY <1>2, <1>9, <2>2, RunConcat
  <2> QED
    BY <1>1, <2>1, <2>3 DEF Written
<1>11. Len(SubSeq(buf, start + 1, start + sent)) = sent
  <2>1. buf \in Seq(Nat) /\ start + sent <= Len(buf)
    BY <1>1, <1>2, <1>3, <1>7, RunFacts
  <2> QED
    BY <1>7, <2>1
<1>12. PICK r : r = IF start + sent < Len(buf) THEN [buf |-> buf, start |-> start + sent] ELSE Nil
  OBVIOUS
<1>13. Rest(r, j, a)
  <2>1. CASE start + sent < Len(buf)
    <3>1. r = [buf |-> buf, start |-> start + sent]
      BY <1>12, <2>1
    <3>2. j < a /\ start + sent <= j /\ start + sent \in Nat /\ j - (start + sent) = n - start
      BY <1>2, <1>3, <1>7, <1>8, <2>1
    <3>3. r # Nil
      <4>1. DOMAIN r = {"buf", "start"} /\ DOMAIN Nil = {}
        BY <3>1 DEF Nil
      <4> QED
        BY <4>1
    <3>4. DOMAIN r = {"buf", "start"} /\ r.start = start + sent /\ r.buf = Run(n - start, a)
      BY <3>1
    <3> QED
      BY <3>2, <3>3, <3>4 DEF Rest
  <2>2. CASE ~(start + sent < Len(buf))
    <3>1. r = Nil /\ j = a
      BY <1>2, <1>3, <1>7, <1>8, <1>12, <2>2
    <3> QED
      BY <3>1 DEF Rest
  <2> QED
    BY <2>1, <2>2
<1>14. PICK u : u = x.s.unacked + sent
  OBVIOUS
<1>15. u \in Nat /\ (r = Nil \/ TCP_SND_BUF_INIT <= u)
  <2>1. u \in Nat /\ (sent = room => TCP_SND_BUF_INIT <= u)
    BY <1>5, <1>7, <1>14, SSAssumption DEF Pair
  <2>2. n + sent = a => ~(start + sent < Len(buf))
    BY <1>2, <1>3, <1>7
  <2> QED
    BY <1>7, <1>12, <2>1, <2>2
<1>16. SendSlice(x.s, SubSeq(buf, start + 1, start + sent)) = [x.s EXCEPT !.out = Run(0, j), !.unacked = u]
  BY <1>10, <1>11, <1>14 DEF SendSlice, Pair
<1>17. Write(x, buf, start) =
         [x EXCEPT !.s = SendSlice(@, SubSeq(buf, start + 1, start + sent)), !.t.remain = r]
  BY <1>4, <1>6, <1>12 DEF Write
<1>18. /\ DOMAIN Write(x, buf, start) = {"t", "s"}
       /\ Write(x, buf, start).t = [x.t EXCEPT !.remain = r]
       /\ Write(x, buf, start).s = SendSlice(x.s, SubSeq(buf, start + 1, start + sent))
  BY <1>17 DEF Pair
<1> QED
  <2>1. Write(x, buf, start).s = [x.s EXCEPT !.out = Run(0, j), !.unacked = u]
    BY <1>16, <1>18
  <2> HIDE DEF Write
  <2> QED
    BY <1>9, <1>13, <1>15, <1>18, <2>1, Zenon DEF Wrote

\* A pair of which m bytes are in the socket, in the rest of a chunk or in the
\* channel, in this order; chunks left to send.
Flow(y, m) == \E n, a \in 0 .. m : /\ y.s.out = Run(0, n) /\ Rest(y.t.remain, n, a)
                                   /\ Chunks(y.t.rx, a, m)
Left(y) == Len(y.t.rx) + (IF y.t.remain = Nil THEN 0 ELSE 1)
RoundOK(y, st, m, b) == /\ Pair(y) /\ y.s.st = st /\ Flow(y, m)
                        /\ CanSend(y.s) => Left(y) <= b

LEMMA ChunkFacts == ASSUME NEW q, NEW a, NEW b, Chunks(q, a, b) PROVE q \in Seq(Seq(Nat)) /\ Len(q) \in Nat
  BY DEF Chunks

\* A chunk, or the rest of one, is written whole or fills the send buffer.
LEMMA WriteOK ==
  ASSUME NEW y, Pair(y), NEW m \in Nat, NEW n \in Nat, NEW a \in 0 .. m, NEW start \in Nat,
         start <= n, n < a, y.s.out = Run(0, n), CanSend(y.s), Chunks(y.t.rx, a, m),
         NEW buf, buf = Run(n - start, a)
  PROVE  RoundOK(Write(y, buf, start), y.s.st, m, Len(y.t.rx))
<1>1. PICK z : z = Write(y, buf, start)
  OBVIOUS
<1>2. Wrote(y, z, n, a)
  <2>1. a \in Nat
    OBVIOUS
  <2> QED
    BY <1>1, <2>1, WriteFacts
<1>3. PICK j \in 0 .. a, u \in Nat : \E r :
           /\ n < j /\ Rest(r, j, a) /\ (r = Nil \/ TCP_SND_BUF_INIT <= u)
           /\ DOMAIN z = {"t", "s"}
           /\ z.t = [y.t EXCEPT !.remain = r]
           /\ z.s = [y.s EXCEPT !.out = Run(0, j), !.unacked = u]
  BY <1>2 DEF Wrote
<1> PICK r : /\ Rest(r, j, a) /\ (r = Nil \/ TCP_SND_BUF_INIT <= u)
             /\ DOMAIN z = {"t", "s"}
             /\ z.t = [y.t EXCEPT !.remain = r]
             /\ z.s = [y.s EXCEPT !.out = Run(0, j), !.unacked = u]
  BY <1>3
<1>4. z.t.rx = y.t.rx /\ z.t.remain = r /\ DOMAIN z.t = DOMAIN y.t
  BY <1>3 DEF Pair
<1>5. z.s.out = Run(0, j) /\ z.s.unacked = u /\ z.s.st = y.s.st /\ DOMAIN z.s = DOMAIN y.s
  BY <1>3 DEF Pair
<1>6. Pair(z)
  BY <1>3, <1>4, <1>5 DEF Pair
<1>7. Flow(z, m)
  <2>1. j \in 0 .. m
    OBVIOUS
  <2> QED
    BY <1>3, <1>4, <1>5, <2>1 DEF Flow
<1>8. CanSend(z.s) => r = Nil
  BY <1>3, <1>5, SSAssumption DEF CanSend, Room
<1>9. CanSend(z.s) => Left(z) <= Len(y.t.rx)
  <2>1. Len(y.t.rx) \in Nat
    BY ChunkFacts
  <2> QED
    BY <1>4, <1>8, <2>1 DEF Left
<1> QED
  BY <1>1, <1>5, <1>6, <1>7, <1>9 DEF RoundOK

LEMMA LeftFacts ==
  ASSUME NEW y, NEW m, Flow(y, m)
  PROVE  /\ Left(y) \in Nat /\ Len(y.t.rx) \in Nat /\ y.t.rx \in Seq(Seq(Nat))
         /\ Left(y) = 0 <=> y.t.rx = <<>> /\ y.t.remain = Nil
         /\ y.t.remain = Nil => Left(y) = Len(y.t.rx)
         /\ y.t.remain # Nil => Left(y) = Len(y.t.rx) + 1
<1>1. PICK q, r : q = y.t.rx /\ r = y.t.remain
  OBVIOUS
<1>2. q \in Seq(Seq(Nat)) /\ Len(q) \in Nat
  BY <1>1, ChunkFacts DEF Flow
<1>3. Len(q) = 0 <=> q = <<>>
  BY <1>2
<1>4. (r = Nil => Left(y) = Len(q) + 0) /\ (r # Nil => Left(y) = Len(q) + 1)
  BY <1>1 DEF Left
<1>5. CASE r = Nil
  <2>1. Left(y) = Len(q)
    BY <1>2, <1>4, <1>5
  <2> QED
    BY <1>1, <1>2, <1>3, <1>5, <2>1
<1>6. CASE r # Nil
  <2>1. Left(y) \in Nat /\ Left(y) # 0 /\ Left(y) = Len(q) + 1
    BY <1>2, <1>4, <1>6
  <2> QED
    BY <1>1, <1>2, <1>6, <2>1
<1> QED
  BY <1>5, <1>6

LEMMA RoundWeaker ==
  ASSUME NEW y, NEW st, NEW m, NEW b \in Nat, NEW c \in Nat, c <= b, RoundOK(y, st, m, c)
  PROVE  RoundOK(y, st, m, b)
<1>1. Left(y) \in Nat
  BY LeftFacts DEF RoundOK
<1> QED
  BY <1>1 DEF RoundOK

LEMMA RoundFacts ==
  ASSUME NEW y, NEW st, NEW m \in Nat, NEW b \in Nat, RoundOK(y, st, m, b + 1)
  PROVE  RoundOK(SendRound(y), st, m, b)
<1>1. PICK n \in 0 .. m, a \in 0 .. m :
        y.s.out = Run(0, n) /\ Rest(y.t.remain, n, a) /\ Chunks(y.t.rx, a, m)
  BY DEF RoundOK, Flow
<1>2. n \in Nat /\ a \in Nat /\ Pair(y) /\ Flow(y, m) /\ y.s.st = st
  BY DEF RoundOK
<1>3. CASE ~(CanSend(y.s) /\ (y.t.remain # Nil \/ y.t.rx # <<>>))
  <2>1. SendRound(y) = y
    BY <1>3 DEF SendRound
  <2>2. CanSend(y.s) => Left(y) = 0
    BY <1>2, <1>3, LeftFacts
  <2> QED
    BY <2>1, <2>2 DEF RoundOK
<1>4. CASE CanSend(y.s) /\ y.t.remain # Nil
  <2>1. PICK start \in Nat, buf \in {y.t.remain.buf} :
          /\ start = y.t.remain.start /\ start <= n /\ n < a
          /\ buf = Run(n - start, a)
    BY <1>1, <1>4 DEF Rest
  <2>2. SendRound(y) = Write(y, buf, start)
    BY <1>4, <2>1 DEF SendRound, SendChunk
  <2>3. RoundOK(Write(y, buf, start), y.s.st, m, Len(y.t.rx))
    BY <1>1, <1>2, <1>4, <2>1, WriteOK
  <2>4. Len(y.t.rx) \in Nat /\ Len(y.t.rx) <= b
    BY <1>2, <1>4, LeftFacts DEF RoundOK
  <2> QED
    BY <1>2, <2>2, <2>3, <2>4, RoundWeaker
<1>5. CASE CanSend(y.s) /\ y.t.remain = Nil /\ y.t.rx # <<>>
  <2>1. a = n
    BY <1>1, <1>5 DEF Rest
  <2>2. PICK k \in 0 .. m : a < k /\ Head(y.t.rx) = Run(a, k) /\ Chunks(Tail(y.t.rx), k, m)
    BY <1>1, <1>2, <1>5, ChunksTail
  <2>3. PICK z, buf : z = [y EXCEPT !.t.rx = Tail(@)] /\ buf = Head(y.t.rx)
    OBVIOUS
  <2>4. /\ DOMAIN z = {"t", "s"} /\ z.s = y.s /\ z.t = [y.t EXCEPT !.rx = Tail(y.t.rx)]
    BY <1>2, <2>3 DEF Pair
  <2>5. z.t.rx = Tail(y.t.rx) /\ DOMAIN z.t = DOMAIN y.t
    BY <1>2, <2>4 DEF Pair
  <2>6. Pair(z)
    BY <1>2, <2>4, <2>5 DEF Pair
  <2>7. SendRound(y) = Write(z, buf, 0)
    BY <1>5, <2>3 DEF SendRound, SendChunk
  <2>8. RoundOK(Write(z, buf, 0), z.s.st, m, Len(z.t.rx))
    <3>1. 0 \in Nat /\ 0 <= n /\ n < k /\ n - 0 = n
      BY <1>2, <2>1, <2>2
    <3>2. buf = Run(n - 0, k) /\ z.s.out = Run(0, n) /\ CanSend(z.s) /\ Chunks(z.t.rx, k, m)
      BY <1>1, <1>5, <2>1, <2>2, <2>3, <2>4, <2>5, <3>1
    <3> QED
      BY <1>2, <2>6, <3>1, <3>2, WriteOK
  <2>9. Len(z.t.rx) <= b /\ Len(z.t.rx) \in Nat
    <3>1. /\ Len(y.t.rx) <= b + 1 /\ y.t.rx \in Seq(Seq(Nat))
      BY <1>2, <1>5, LeftFacts DEF RoundOK
    <3>2. Len(Tail(y.t.rx)) = Len(y.t.rx) - 1 /\ Len(y.t.rx) \in Nat /\ Len(y.t.rx) > 0
      BY <1>5, <3>1
    <3> QED
      BY <2>5, <3>1, <3>2
  <2> QED
    BY <1>2, <2>4, <2>7, <2>8, <2>9, RoundWeaker
<1> QED
  BY <1>3, <1>4, <1>5

\* When the rounds are over, everything is written or the send buffer is full.
LEMMA RoundsOK ==
  ASSUME NEW x, NEW m \in Nat, Pair(x), Flow(x, m)
  PROVE  RoundOK(SendRounds(x), x.s.st, m, 0)
<1>1. PICK n : n = Len(x.t.rx) + 1
  OBVIOUS
<1>2. n \in Nat /\ Len(x.t.rx) \in Nat
  BY <1>1, ChunkFacts DEF Flow
<1>3. PICK f : /\ f[0] = x
               /\ \A i \in 0 .. n - 1 : f[i + 1] = SendRound(f[i])
               /\ SendRounds(x) = f[n]
  BY <1>1, <1>2, RoundsFacts DEF After
<1> DEFINE S == {i \in Nat : i <= n => RoundOK(f[i], x.s.st, m, n - i)}
<1>4. 0 \in S
  <2>1. Left(x) <= n - 0
    BY <1>1, <1>2 DEF Left
  <2>2. RoundOK(f[0], x.s.st, m, n - 0)
    BY <1>3, <2>1 DEF RoundOK
  <2> QED
    BY <2>2
<1>5. ASSUME NEW i \in Nat, i \in S PROVE i + 1 \in S
  <2> SUFFICES ASSUME i + 1 <= n PROVE RoundOK(f[i + 1], x.s.st, m, n - (i + 1))
    OBVIOUS
  <2>1. PICK b \in Nat : b = n - (i + 1)
    BY <1>2
  <2>2. i \in 0 .. n - 1 /\ n - i = b + 1 /\ i <= n
    BY <1>2, <2>1
  <2>3. RoundOK(f[i], x.s.st, m, b + 1)
    BY <1>5, <2>2
  <2>4. RoundOK(SendRound(f[i]), x.s.st, m, b)
    BY <2>3, RoundFacts
  <2> QED
    BY <1>3, <2>1, <2>2, <2>4
<1> HIDE DEF S
<1>6. n \in S
  BY <1>2, <1>4, <1>5, NatSetInduction
<1>7. RoundOK(f[n], x.s.st, m, n - n) /\ n - n = 0
  BY <1>2, <1>6 DEF S
<1> QED
  BY <1>3, <1>7

-------------------------------------------------------------------------------
(* The stream of a connection.                                               *)

\* What a TCP connection k has sent is in its socket, waits with its task or is
\* still in its channel, each byte once and in this order; the forwarder ends
\* after the client hung up and its channel is empty, and the socket is closed
\* only after everything is in it.
Stream(x, k) ==
  /\ Pair(x)
  /\ k.next \in Nat /\ \E m \in 0 .. k.next : Flow(x, m) /\ Chunks(k.chan, m, k.next)
  /\ x.t.eof => k.closed /\ k.chan = <<>>
  /\ x.s.st \in FinSent => x.t.eof /\ x.t.rx = <<>> /\ x.t.remain = Nil

LEMMA StreamKept ==
  ASSUME NEW x, NEW y, NEW k, Stream(x, k), Pair(y),
         y.t.rx = x.t.rx, y.t.remain = x.t.remain, y.t.eof = x.t.eof, y.s.out = x.s.out,
         y.s.st \in FinSent => x.s.st \in FinSent
  PROVE  Stream(y, k)
<1>1. \A m : Flow(x, m) => Flow(y, m)
  BY DEF Flow
<1> QED
  BY <1>1 DEF Stream

LEMMA TrySendStream ==
  ASSUME NEW x, NEW k, Stream(x, k), x.s.st \notin FinSent PROVE Stream(TrySend(x), k)
<1>1. PICK m \in 0 .. k.next : Flow(x, m) /\ Chunks(k.chan, m, k.next)
  BY DEF Stream
<1>2. m \in Nat /\ Pair(x)
  BY DEF Stream
<1>3. PICK z, s, t : /\ z = SendRounds(x)
                     /\ s = [x.s EXCEPT !.out = z.s.out, !.unacked = z.s.unacked]
                     /\ t = [x.t EXCEPT !.rx = z.t.rx, !.remain = z.t.remain]
  OBVIOUS
<1>4. RoundOK(z, x.s.st, m, 0)
  BY <1>1, <1>2, <1>3, RoundsOK
<1>5. /\ DOMAIN s = DOMAIN x.s /\ s.out = z.s.out /\ s.unacked = z.s.unacked /\ s.st = x.s.st
      /\ DOMAIN t = DOMAIN x.t /\ t.rx = z.t.rx /\ t.remain = z.t.remain /\ t.eof = x.t.eof
  BY <1>2, <1>3 DEF Pair
<1>6. CanSend(s) => t.rx = <<>> /\ t.remain = Nil
  <2>1. CanSend(s) = CanSend(z.s)
    BY <1>4, <1>5 DEF CanSend, MaySend, Room, RoundOK
  <2>2. CanSend(z.s) => Left(z) = 0
    BY <1>4, LeftFacts DEF RoundOK
  <2> QED
    BY <1>4, <1>5, <2>1, <2>2, LeftFacts DEF RoundOK
<1>7. PICK r : r = IF CanSend(s) /\ x.t.eof THEN CloseSocket(s) ELSE s
  OBVIOUS
<1>8. /\ DOMAIN r = DOMAIN s /\ r.out = s.out /\ r.unacked = s.unacked
      /\ r.st \in FinSent => CanSend(s) /\ x.t.eof
  <2>1. CASE CanSend(s) /\ x.t.eof
    <3>1. PICK v : CloseSocket(s) = [s EXCEPT !.st = v]
      BY DEF CloseSocket
    <3> QED
      BY <1>7, <2>1, <3>1
  <2>2. CASE ~(CanSend(s) /\ x.t.eof)
    BY <1>5, <1>7, <2>2
  <2> QED
    BY <2>1, <2>2
<1>9. PICK y : y = [t |-> t, s |-> r]
  OBVIOUS
<1>10. TrySend(x) = y
  BY <1>3, <1>7, <1>9 DEF TrySend
<1>11. Pair(y)
  BY <1>2, <1>4, <1>5, <1>8, <1>9 DEF Pair, RoundOK
<1>12. Flow(y, m)
  <2>1. y.s.out = z.s.out /\ y.t.remain = z.t.remain /\ y.t.rx = z.t.rx
    BY <1>5, <1>8, <1>9
  <2> QED
    BY <1>4, <2>1 DEF RoundOK, Flow
<1>13. y.t.eof => k.closed /\ k.chan = <<>>
  BY <1>5, <1>9 DEF Stream
<1>14. y.s.st \in FinSent => y.t.eof /\ y.t.rx = <<>> /\ y.t.remain = Nil
  BY <1>5, <1>6, <1>8, <1>9
<1> QED
  BY <1>1, <1>10, <1>11, <1>12, <1>13, <1>14 DEF Stream

LEMMA IncreaseKeeps ==
  ASSUME NEW t, {"rx", "remain", "eof"} \subseteq DOMAIN t, NEW n, NEW w \in Nat, NEW early
  PROVE  LET g == IncreaseTcpRevBuf(t, n, w, early)
         IN  /\ DOMAIN g[1] = DOMAIN t /\ g[1].rx = t.rx /\ g[1].remain = t.remain
             /\ g[1].eof = t.eof
<1> DEFINE Like(u) == DOMAIN u = DOMAIN t /\ u.rx = t.rx /\ u.remain = t.remain /\ u.eof = t.eof
           fresh == [t EXCEPT !.accum = 0]
<1>1. \A v : Like([t EXCEPT !.accum = v]) /\ Like([fresh EXCEPT !.business = v])
  OBVIOUS
<1>2. Like(fresh)
  OBVIOUS
<1>3. PICK usage, g : usage = t.accum + n /\ g = IncreaseTcpRevBuf(t, n, w, early)
  OBVIOUS
<1> HIDE DEF fresh, Like
<1>4. CASE early /\ usage < w
  BY <1>1, <1>3, <1>4 DEF IncreaseTcpRevBuf
<1>5. CASE ~(early /\ usage < w) /\ w < MULTI_GROW_THRESHOLD
  <2>1. g[1] = fresh
    BY <1>3, <1>5, SSAssumption DEF IncreaseTcpRevBuf, fresh
  <2> QED
    BY <1>2, <1>3, <2>1 DEF Like
<1>6. CASE ~(early /\ usage < w) /\ ~(w < MULTI_GROW_THRESHOLD) /\ w >= MULTI_GROW_THRESHOLD /\ BelowMax(w)
  <2>1. \E v : g[1] = [fresh EXCEPT !.business = v]
    BY <1>3, <1>6 DEF IncreaseTcpRevBuf, fresh
  <2> QED
    BY <1>1, <1>3, <2>1 DEF Like
<1>7. CASE ~(early /\ usage < w) /\ ~(w < MULTI_GROW_THRESHOLD) /\ ~(w >= MULTI_GROW_THRESHOLD /\ BelowMax(w))
  <2>1. g[1] = fresh
    BY <1>3, <1>7 DEF IncreaseTcpRevBuf, fresh
  <2> QED
    BY <1>2, <1>3, <2>1 DEF Like
<1> QED
  BY <1>4, <1>5, <1>6, <1>7

LEMMA TryRecvStream ==
  ASSUME NEW x, NEW k, Stream(x, k), Sound(x), NEW early PROVE Stream(TryRecv(x, early), k)
<1>1. CASE x.s.rx = 0
  BY <1>1 DEF TryRecv
<1>2. CASE x.s.rx # 0
  <2>1. PICK g, s, y : /\ g = IncreaseTcpRevBuf(x.t, x.s.rx, x.s.cap, early)
                       /\ s = [x.s EXCEPT !.rx = 0, !.cap = g[2]]
                       /\ y = [t |-> g[1], s |-> s]
    OBVIOUS
  <2>2. TryRecv(x, early) = y
    BY <1>2, <2>1 DEF TryRecv
  <2>3. Pair(x)
    BY DEF Stream
  <2>4. /\ DOMAIN g[1] = DOMAIN x.t /\ g[1].rx = x.t.rx /\ g[1].remain = x.t.remain
        /\ g[1].eof = x.t.eof
    <3>1. x.s.cap \in Nat
      BY SizeFacts DEF Sound, Same, SameSocket
    <3> QED
      BY <2>1, <2>3, <3>1, IncreaseKeeps DEF Pair
  <2>5. DOMAIN s = DOMAIN x.s /\ s.st = x.s.st /\ s.out = x.s.out /\ s.unacked = x.s.unacked
    BY <2>1, <2>3 DEF Pair
  <2>6. Pair(y)
    BY <2>1, <2>3, <2>4, <2>5 DEF Pair
  <2>7. y.t = g[1] /\ y.s = s
    BY <2>1
  <2> QED
    BY <2>2, <2>4, <2>5, <2>6, <2>7, StreamKept
<1> QED
  BY <1>1, <1>2

LEMMA HalfCloseStream ==
  ASSUME NEW x, NEW k, Stream(x, k) PROVE Stream(StartHalfClose(x), k)
<1>1. PICK v, y : y = [x EXCEPT !.t.half = v] /\ y = StartHalfClose(x)
  BY DEF StartHalfClose
<1>2. Pair(x)
  BY DEF Stream
<1>3. /\ y.s = x.s /\ y.t.rx = x.t.rx /\ y.t.remain = x.t.remain /\ y.t.eof = x.t.eof
      /\ DOMAIN y = {"t", "s"} /\ DOMAIN y.t = DOMAIN x.t
  BY <1>1, <1>2 DEF Pair
<1>4. Pair(y)
  BY <1>2, <1>3 DEF Pair
<1> QED
  BY <1>1, <1>3, <1>4, StreamKept

\* The body of poll_all_tcp.
LEMMA PollTcpStream ==
  ASSUME NEW x, NEW k, Stream(x, k), Sound(x), NEW full, NEW early
  PROVE  Stream(PollTcp(x, full, early), k)
<1>1. PICK y : /\ y = IF MaySend(x.s) \/ x.s.st = "syn" THEN TrySend(x)
                      ELSE IF MayRecv(x.s) THEN StartHalfClose(x) ELSE x
               /\ PollTcp(x, full, early) \in {y, TryRecv(y, early), StartHalfClose(y)}
  BY DEF PollTcp
<1>2. MaySend(x.s) \/ x.s.st = "syn" => x.s.st \notin FinSent
  BY DEF MaySend, FinSent
<1>3. Stream(y, k)
  BY <1>1, <1>2, TrySendStream, HalfCloseStream
<1>4. Keeps(x, y) /\ Keeps(y, y)
  BY <1>1, TrySendFacts, HalfCloseFacts DEF Keeps, Sound, Same, SameTask, SameSocket
<1>5. Sound(y)
  BY <1>4, KeepsTransitive
<1> QED
  BY <1>1, <1>3, <1>5, TryRecvStream, HalfCloseStream

\* smoltcp's own steps write nothing and send no FIN.
LEMMA PacketStream ==
  ASSUME NEW x, NEW k, Stream(x, k), NEW kind, NEW s,
         \/ s = Receive(x.s, kind) \/ s = Transmit(x.s)
         \/ s = [x.s EXCEPT !.st = "closed"]
  PROVE  Stream([t |-> x.t, s |-> s], k)
<1>1. Pair(x)
  BY DEF Stream
<1> DEFINE Like(u) == /\ DOMAIN u = DOMAIN x.s /\ u.out = x.s.out /\ u.unacked \in Nat
                      /\ u.st \in FinSent => x.s.st \in FinSent
<1>2. /\ Like(x.s)
      /\ \A v : Like([x.s EXCEPT !.rx = v])
      /\ \A v : (v \in FinSent => x.s.st \in FinSent) => Like([x.s EXCEPT !.st = v])
      /\ \A v, w : (v \in FinSent => x.s.st \in FinSent) => Like([x.s EXCEPT !.st = v, !.rx = w])
      /\ \A v : (v \in FinSent => x.s.st \in FinSent) => Like([x.s EXCEPT !.unacked = 0, !.st = v])
  BY <1>1 DEF Pair
<1>3. /\ "est" \notin FinSent /\ "closewait" \notin FinSent
      /\ "closed" \notin FinSent /\ "syn" \notin FinSent
      /\ \A v : (Acked(v) \in FinSent => v \in FinSent) /\ (Finned(v) \in FinSent => v \in FinSent)
  BY DEF FinSent, Acked, Finned
<1> HIDE DEF Like
<1>4. Like(Receive(x.s, kind))
  <2>1. CASE kind = "ack"
    BY <1>2, <1>3, <2>1 DEF Receive
  <2>2. CASE kind = "data"
    BY <1>2, <2>2 DEF Receive
  <2>3. CASE kind = "fin"
    BY <1>2, <1>3, <2>3 DEF Receive
  <2>4. CASE kind = "rst"
    BY <1>2, <1>3, <2>4 DEF Receive
  <2>5. CASE kind = "finack"
    BY <1>2, <1>3, <2>5 DEF Receive
  <2>6. CASE kind \notin {"ack", "data", "fin", "finack", "rst"}
    BY <1>2, <1>3, <2>6 DEF Receive
  <2> QED
    BY <2>1, <2>2, <2>3, <2>4, <2>5, <2>6
<1>5. Like(Transmit(x.s))
  BY <1>2, <1>3 DEF Transmit
<1>6. PICK y : y = [t |-> x.t, s |-> s]
  OBVIOUS
<1>7. Like(s)
  BY <1>2, <1>3, <1>4, <1>5
<1>8. y.t = x.t /\ y.s = s /\ DOMAIN y = {"t", "s"}
  BY <1>6
<1>9. Pair(y)
  BY <1>1, <1>7, <1>8 DEF Pair, Like
<1> QED
  BY <1>6, <1>7, <1>8, <1>9, StreamKept DEF Like

-------------------------------------------------------------------------------
(* The streams of a stack.                                                   *)

PairAt(s, p) == [t |-> s.tcp[p], s |-> s.sockets[s.tcp[p].handle]]

\* A task of the stack of endpoint e belongs to a connection opened on e, of a
\* kind that fits, and is the only one of it; every TCP task has its stream.
Owners(s, e, cn, kd) ==
  \A k \in Kinds, p \in Ports : s[k][p] # Nil =>
    /\ s[k][p].owner \in Conns /\ cn[s[k][p].owner].st = "open" /\ cn[s[k][p].owner].ep = e
    /\ k = "tcp" => kd[s[k][p].owner] # "udp"
    /\ k = "udp" => kd[s[k][p].owner] \in {"udp", "dns"}
OneEach(s) == \A k, l \in Kinds, p, q \in Ports :
                s[k][p] # Nil /\ s[l][q] # Nil /\ s[k][p].owner = s[l][q].owner => k = l /\ p = q
Streams(s, cn) == \A p \in Ports : s.tcp[p] # Nil => Stream(PairAt(s, p), cn[s.tcp[p].owner])
InOrder(s, e, cn, kd) == Owners(s, e, cn, kd) /\ OneEach(s) /\ Streams(s, cn)

\* Tasks keep their owners or go, and connections stay open where they are.
LEMMA OwnersKept ==
  ASSUME NEW s, NEW u, NEW e, NEW cn, NEW cm, NEW kd, Owners(s, e, cn, kd), OneEach(s),
         \A k \in Kinds, p \in Ports : u[k][p] # Nil => s[k][p] # Nil /\ u[k][p].owner = s[k][p].owner,
         \A c \in Conns : cn[c].st = "open" /\ cn[c].ep = e => cm[c].st = "open" /\ cm[c].ep = e
  PROVE  Owners(u, e, cm, kd) /\ OneEach(u)
<1>1. Owners(u, e, cm, kd)
  <2> SUFFICES ASSUME NEW k \in Kinds, NEW p \in Ports, u[k][p] # Nil
               PROVE  /\ u[k][p].owner \in Conns
                      /\ cm[u[k][p].owner].st = "open" /\ cm[u[k][p].owner].ep = e
                      /\ k = "tcp" => kd[u[k][p].owner] # "udp"
                      /\ k = "udp" => kd[u[k][p].owner] \in {"udp", "dns"}
    BY DEF Owners
  <2>1. PICK c : c = u[k][p].owner /\ c = s[k][p].owner /\ s[k][p] # Nil
    OBVIOUS
  <2>2. /\ c \in Conns /\ cn[c].st = "open" /\ cn[c].ep = e
        /\ k = "tcp" => kd[c] # "udp"
        /\ k = "udp" => kd[c] \in {"udp", "dns"}
    BY <2>1 DEF Owners
  <2> QED
    BY <2>1, <2>2
<1>2. OneEach(u)
  BY DEF OneEach
<1> QED
  BY <1>1, <1>2

LEMMA StackFacts ==
  ASSUME NEW s, StackOK(s), NEW p \in Ports, s.tcp[p] # Nil
  PROVE  /\ s.tcp[p].handle \in Handles /\ s.sockets[s.tcp[p].handle] # Nil
         /\ s.sockets[s.tcp[p].handle].owner = s.tcp[p].owner
         /\ IsTask(s.tcp[p]) /\ IsSocket(s.sockets[s.tcp[p].handle])
         /\ Size(s.sockets[s.tcp[p].handle].cap)
<1>1. "tcp" \in Kinds
  BY DEF Kinds
<1>2. /\ s.tcp[p].handle \in Handles /\ s.sockets[s.tcp[p].handle] # Nil
      /\ s.sockets[s.tcp[p].handle].owner = s.tcp[p].owner /\ IsTask(s.tcp[p])
  BY <1>1 DEF StackOK, TasksOK
<1> QED
  BY <1>2 DEF StackOK, SocketsOK

LEMMA PollAllStreams ==
  ASSUME NEW s, StackOK(s), NEW cn, Streams(s, cn), NEW full, NEW early
  PROVE  LET u == PollAll(s, full, early)
         IN  /\ Streams(u, cn)
             /\ \A k \in Kinds, p \in Ports :
                  u[k][p] # Nil => s[k][p] # Nil /\ u[k][p].owner = s[k][p].owner
<1> DEFINE Tcp(p) == PollTcp(PairAt(s, p), s.tcp[p].owner \in full, early)
           Udp(p) == PollUdp([t |-> s.udp[p], s |-> s.sockets[s.udp[p].handle]],
                             s.udp[p].owner \in full)
           TcpPort(h) == {p \in Ports : s.tcp[p] # Nil /\ s.tcp[p].handle = h}
           UdpPort(h) == {p \in Ports : s.udp[p] # Nil /\ s.udp[p].handle = h}
<1>1. PICK u : u = PollAll(s, full, early)
  OBVIOUS
<1>2. /\ \A p \in Ports : u.tcp[p] = IF s.tcp[p] = Nil THEN Nil ELSE Tcp(p).t
      /\ \A p \in Ports : u.udp[p] = IF s.udp[p] = Nil THEN Nil ELSE Udp(p).t
      /\ \A h \in Handles : TcpPort(h) # {} => u.sockets[h] = Tcp(CHOOSE p \in TcpPort(h) : TRUE).s
  BY <1>1, Zenon DEF PollAll, PairAt
<1>3. ASSUME NEW p \in Ports, s.tcp[p] # Nil
      PROVE  Sound(PairAt(s, p)) /\ Keeps(PairAt(s, p), Tcp(p)) /\ Stream(Tcp(p), cn[s.tcp[p].owner])
  <2>1. Sound(PairAt(s, p))
    BY <1>3, StackFacts DEF Sound, Same, SameTask, SameSocket, PairAt
  <2>2. Stream(PairAt(s, p), cn[s.tcp[p].owner])
    BY <1>3 DEF Streams
  <2> QED
    BY <2>1, <2>2, PollTcpFacts, PollTcpStream
<1>4. ASSUME NEW p \in Ports, s.udp[p] # Nil PROVE Udp(p).t.owner = s.udp[p].owner
  <2>1. PICK h \in Handles : h = s.udp[p].handle /\ s.sockets[h] # Nil /\ IsTask(s.udp[p])
    BY <1>4 DEF StackOK, TasksOK, Kinds
  <2>2. IsSocket(s.sockets[h]) /\ Size(s.sockets[h].cap)
    BY <2>1 DEF StackOK, SocketsOK
  <2>3. Sound([t |-> s.udp[p], s |-> s.sockets[s.udp[p].handle]])
    BY <2>1, <2>2 DEF Sound, Same, SameTask, SameSocket
  <2>4. Keeps([t |-> s.udp[p], s |-> s.sockets[s.udp[p].handle]], Udp(p))
    BY <2>3, PollUdpFacts
  <2> HIDE DEF Udp
  <2> QED
    BY <2>4 DEF Keeps, Same, SameTask
<1> HIDE DEF Tcp, Udp
<1>5. ASSUME NEW p \in Ports, u.tcp[p] # Nil
      PROVE  /\ s.tcp[p] # Nil /\ u.tcp[p] = Tcp(p).t
             /\ u.tcp[p].owner = s.tcp[p].owner /\ u.tcp[p].handle = s.tcp[p].handle
  <2>1. s.tcp[p] # Nil /\ u.tcp[p] = Tcp(p).t
    BY <1>2, <1>5
  <2>2. Keeps(PairAt(s, p), Tcp(p)) /\ PairAt(s, p).t = s.tcp[p]
    BY <1>3, <2>1 DEF PairAt
  <2> QED
    BY <2>1, <2>2 DEF Keeps, Same, SameTask
<1>6. ASSUME NEW p \in Ports, u.tcp[p] # Nil PROVE Stream(PairAt(u, p), cn[u.tcp[p].owner])
  <2>1. PICK h \in Handles : h = s.tcp[p].handle
    BY <1>5, <1>6, StackFacts
  <2>2. TcpPort(h) = {p}
    <3>1. p \in TcpPort(h)
      BY <1>5, <1>6, <2>1
    <3>2. ASSUME NEW q \in TcpPort(h) PROVE q = p
      BY <1>5, <1>6, <2>1 DEF StackOK, SlotsOK, Kinds
    <3> QED
      BY <3>1, <3>2
  <2>3. (CHOOSE q \in TcpPort(h) : TRUE) = p
    BY <2>2
  <2>4. u.sockets[h] = Tcp(p).s
    BY <1>2, <2>2, <2>3
  <2>5. DOMAIN Tcp(p) = {"t", "s"} /\ Stream(Tcp(p), cn[s.tcp[p].owner])
    BY <1>3, <1>5, <1>6 DEF Keeps
  <2>6. PICK y : y = PairAt(u, p) /\ y.t = Tcp(p).t /\ y.s = Tcp(p).s /\ DOMAIN y = {"t", "s"}
    <3>1. u.tcp[p] = Tcp(p).t /\ u.tcp[p].handle = h
      BY <1>5, <1>6, <2>1
    <3>2. PICK y : y = [t |-> u.tcp[p], s |-> u.sockets[h]]
      OBVIOUS
    <3>3. y = PairAt(u, p)
      BY <3>1, <3>2 DEF PairAt
    <3>4. y.t = Tcp(p).t /\ y.s = Tcp(p).s /\ DOMAIN y = {"t", "s"}
      BY <2>4, <3>1, <3>2
    <3> QED
      BY <3>3, <3>4
  <2>7. Pair(y)
    BY <2>5, <2>6 DEF Pair, Stream
  <2>8. Stream(y, cn[s.tcp[p].owner])
    BY <2>5, <2>6, <2>7, StreamKept
  <2> QED
    BY <1>5, <1>6, <2>6, <2>8
<1>7. ASSUME NEW p \in Ports, u.udp[p] # Nil PROVE s.udp[p] # Nil /\ u.udp[p].owner = s.udp[p].owner
  BY <1>2, <1>4, <1>7
<1> QED
  BY <1>1, <1>5, <1>6, <1>7 DEF Streams, Kinds

LEMMA PurgedStreams ==
  ASSUME NEW s, StackOK(s), NEW cn, Streams(s, cn)
  PROVE  LET u == Purged(s)
         IN  /\ Streams(u, cn)
             /\ \A k \in Kinds, p \in Ports :
                  u[k][p] # Nil => s[k][p] # Nil /\ u[k][p].owner = s[k][p].owner
<1>1. PICK tcp, udp, hs :
        /\ tcp = {p \in Ports : s.tcp[p] # Nil /\ InvalidTcp(s, s.tcp[p])}
        /\ udp = {p \in Ports : s.udp[p] # Nil /\ TimeoutUdp(s, s.udp[p])}
        /\ hs = {s.tcp[p].handle : p \in tcp} \cup {s.udp[p].handle : p \in udp}
  OBVIOUS
<1>2. PICK u : u = Purged(s)
  OBVIOUS
<1>3. /\ \A p \in Ports : u.tcp[p] = IF p \in tcp THEN Nil ELSE s.tcp[p]
      /\ \A p \in Ports : u.udp[p] = IF p \in udp THEN Nil ELSE s.udp[p]
      /\ \A h \in Handles : u.sockets[h] = IF h \in hs THEN Nil ELSE s.sockets[h]
  BY <1>1, <1>2 DEF Purged
<1>4. \A k \in Kinds, p \in Ports :
        u[k][p] # Nil => s[k][p] # Nil /\ u[k][p] = s[k][p]
  BY <1>3 DEF Kinds
<1>5. ASSUME NEW p \in Ports, u.tcp[p] # Nil PROVE Stream(PairAt(u, p), cn[u.tcp[p].owner])
  <2>1. p \notin tcp /\ s.tcp[p] # Nil /\ u.tcp[p] = s.tcp[p]
    BY <1>3, <1>5
  <2>2. PICK h \in Handles : h = s.tcp[p].handle
    BY <2>1, StackFacts
  <2>3. ASSUME h \in hs PROVE FALSE
    <3>1. CASE \E q \in tcp : s.tcp[q].handle = h
      BY <1>1, <2>1, <2>2, <3>1 DEF StackOK, SlotsOK, Kinds
    <3>2. CASE \E q \in udp : s.udp[q].handle = h
      BY <1>1, <2>1, <2>2, <3>2 DEF StackOK, SlotsOK, Kinds
    <3> QED
      BY <1>1, <2>3, <3>1, <3>2
  <2>4. PairAt(u, p) = PairAt(s, p)
    BY <1>3, <2>1, <2>2, <2>3 DEF PairAt
  <2> QED
    BY <2>1, <2>4 DEF Streams
<1> QED
  BY <1>2, <1>4, <1>5 DEF Streams

LEMMA DriveIfaceStreams ==
  ASSUME NEW e, StackOK(stack[e]), NEW cn, Streams(stack[e], cn)
  PROVE  /\ Streams(DriveIface(e), cn)
         /\ \A k \in Kinds, p \in Ports : DriveIface(e)[k][p] = stack[e][k][p]
<1> DEFINE Poll(s) == IF s = Nil THEN Nil
                      ELSE IF inq[e] # None /\ inq[e].c = s.owner THEN Receive(s, inq[e].kind)
                      ELSE Transmit(s)
<1>1. PICK s, u : s = stack[e] /\ u = DriveIface(e)
  OBVIOUS
<1>2. u = [s EXCEPT !.sockets = [h \in Handles |-> Poll(s.sockets[h])]]
  BY <1>1 DEF DriveIface
<1>3. u.tcp = s.tcp /\ u.udp = s.udp /\ \A h \in Handles : u.sockets[h] = Poll(s.sockets[h])
  BY <1>1, <1>2 DEF StackOK, Shape
<1>4. ASSUME NEW p \in Ports, u.tcp[p] # Nil PROVE Stream(PairAt(u, p), cn[u.tcp[p].owner])
  <2>1. s.tcp[p] # Nil /\ u.tcp[p] = s.tcp[p]
    BY <1>3, <1>4
  <2>2. PICK h \in Handles : h = s.tcp[p].handle /\ s.sockets[h] # Nil
    BY <1>1, <2>1, StackFacts
  <2>3. PICK x : x = PairAt(s, p) /\ x.t = s.tcp[p] /\ x.s = s.sockets[h]
    <3>1. PICK x : x = [t |-> s.tcp[p], s |-> s.sockets[h]]
      OBVIOUS
    <3>2. x = PairAt(s, p) /\ x.t = s.tcp[p] /\ x.s = s.sockets[h]
      BY <2>2, <3>1 DEF PairAt
    <3> QED
      BY <3>2
  <2>4. Stream(x, cn[s.tcp[p].owner])
    BY <1>1, <2>1, <2>3 DEF Streams
  <2>5. u.sockets[h] \in {Receive(x.s, inq[e].kind), Transmit(x.s)}
    BY <1>3, <2>2, <2>3
  <2>6. PairAt(u, p) = [t |-> x.t, s |-> u.sockets[h]]
    BY <2>1, <2>2, <2>3 DEF PairAt
  <2>7. Stream([t |-> x.t, s |-> u.sockets[h]], cn[s.tcp[p].owner])
    BY <2>4, <2>5, PacketStream
  <2> QED
    BY <2>1, <2>6, <2>7
<1> QED
  BY <1>1, <1>3, <1>4 DEF Streams, Kinds

\* A task that ages keeps its stream.
Aging(t, v) == DOMAIN v = DOMAIN t /\ \A f \in DOMAIN t \ {"half", "old"} : v[f] = t[f]

LEMMA OneTaskStreams ==
  ASSUME NEW s, StackOK(s), NEW cn, Streams(s, cn), NEW kind \in Kinds, NEW p \in Ports,
         s[kind][p] # Nil, NEW t, SameTask(s[kind][p], t), Aging(s[kind][p], t), NEW u, u = [s EXCEPT ![kind][p] = t]
  PROVE  /\ Streams(u, cn)
         /\ \A k \in Kinds, q \in Ports :
              u[k][q] # Nil => s[k][q] # Nil /\ u[k][q].owner = s[k][q].owner
<1>2. /\ u[kind][p] = t /\ u.sockets = s.sockets
      /\ \A l \in Kinds, q \in Ports : ~(l = kind /\ q = p) => u[l][q] = s[l][q]
  BY DEF StackOK, Shape, Kinds
<1>3. \A k \in Kinds, q \in Ports :
        u[k][q] # Nil => s[k][q] # Nil /\ u[k][q].owner = s[k][q].owner
  BY <1>2 DEF SameTask
<1>4. ASSUME NEW q \in Ports, u.tcp[q] # Nil PROVE Stream(PairAt(u, q), cn[u.tcp[q].owner])
  <2>1. s.tcp[q] # Nil /\ u.tcp[q].owner = s.tcp[q].owner
    BY <1>3, <1>4 DEF Kinds
  <2>2. PICK x : x = PairAt(s, q) /\ Stream(x, cn[s.tcp[q].owner])
    BY <2>1 DEF Streams
  <2>3. x.t = s.tcp[q] /\ x.s = s.sockets[s.tcp[q].handle] /\ Pair(x)
    BY <2>2 DEF PairAt, Stream
  <2>4. CASE ~("tcp" = kind /\ q = p)
    <3>1. u.tcp[q] = s.tcp[q]
      BY <1>2, <2>4 DEF Kinds
    <3>2. PairAt(u, q) = PairAt(s, q)
      BY <1>2, <3>1 DEF PairAt
    <3> QED
      BY <2>1, <2>2, <3>2
  <2>5. CASE "tcp" = kind /\ q = p
    <3>1. u.tcp[q] = t /\ Aging(s.tcp[q], t) /\ t.handle = s.tcp[q].handle
      BY <1>2, <2>5 DEF SameTask
    <3>2. PICK y : y = [t |-> t, s |-> x.s]
      OBVIOUS
    <3>3. y = PairAt(u, q)
      BY <1>2, <2>3, <3>1, <3>2 DEF PairAt
    <3>4. y.t = t /\ y.s = x.s /\ DOMAIN y = {"t", "s"}
      BY <3>2
    <3>5. t.rx = x.t.rx /\ t.remain = x.t.remain /\ t.eof = x.t.eof /\ DOMAIN t = DOMAIN x.t
      BY <2>3, <3>1 DEF Pair, Aging
    <3>6. Pair(y)
      BY <2>3, <3>4, <3>5 DEF Pair
    <3> QED
      BY <2>1, <2>2, <3>3, <3>4, <3>5, <3>6, StreamKept
  <2> QED
    BY <2>4, <2>5
<1> QED
  BY <1>3, <1>4 DEF Streams

\* A new TCP task with its socket and a connection that has sent nothing, or a
\* query.
LEMMA NewStream ==
  ASSUME NEW c, NEW h, NEW k, k.next \in Nat, Chunks(k.chan, 0, k.next)
  PROVE  Stream([t |-> Task(c, h), s |-> TcpSocket(c)], k)
<1>1. PICK x : x = [t |-> Task(c, h), s |-> TcpSocket(c)]
  OBVIOUS
<1>2. /\ x.t.rx = <<>> /\ x.t.remain = Nil /\ ~x.t.eof /\ x.s.out = <<>> /\ x.s.st = "new"
      /\ Pair(x)
  BY <1>1 DEF Task, TcpSocket, Pair
<1>3. Run(0, 0) = <<>>
  BY DEF Run
<1>4. Rest(x.t.remain, 0, 0) /\ Chunks(x.t.rx, 0, 0)
  BY <1>2, NoChunks DEF Rest
<1>5. Flow(x, 0)
  BY <1>2, <1>3, <1>4 DEF Flow
<1>6. x.s.st \notin FinSent
  BY <1>2 DEF FinSent
<1> QED
  BY <1>1, <1>2, <1>5, <1>6 DEF Stream

LEMMA OpenInOrder ==
  ASSUME NEW s, StackOK(s), NEW e, NEW cn, NEW cm, NEW kd, InOrder(s, e, cn, kd),
         NEW kind \in Kinds, NEW c \in Conns, NEW p \in Ports, s[kind][p] = Nil, HasSlot(s),
         cn[c].st # "open", cm[c].st = "open", cm[c].ep = e,
         \A d \in Conns : cn[d].st = "open" => cm[d] = cn[d],
         kind = "tcp" => kd[c] # "udp", kind = "udp" => kd[c] \in {"udp", "dns"},
         cm[c].next \in Nat, Chunks(cm[c].chan, 0, cm[c].next)
  PROVE  InOrder(Open(s, kind, c, p), e, cm, kd)
<1>1. PICK h \in Handles : h = FreeHandle(s) /\ s.sockets[h] = Nil
  BY DEF HasSlot, FreeHandle
<1>2. PICK t, x : t = Task(c, h) /\ x = IF kind = "tcp" THEN TcpSocket(c) ELSE UdpSocket(c)
  OBVIOUS
<1>3. t.owner = c /\ t.handle = h
  BY <1>2, NewTaskFacts
<1>4. PICK u : u = Open(s, kind, c, p)
  OBVIOUS
<1>5. u = [s EXCEPT ![kind][p] = t, !.sockets[h] = x]
  BY <1>1, <1>2, <1>4 DEF Open, OpenTcp, OpenUdp, Kinds
<1>6. /\ u[kind][p] = t /\ u.sockets[h] = x
      /\ \A l \in Kinds, q \in Ports : ~(l = kind /\ q = p) => u[l][q] = s[l][q]
      /\ \A i \in Handles : i # h => u.sockets[i] = s.sockets[i]
  BY <1>5 DEF StackOK, Shape, Kinds
<1>7. \A l \in Kinds, q \in Ports : s[l][q] # Nil =>
        /\ s[l][q].owner \in Conns /\ s[l][q].owner # c
        /\ cm[s[l][q].owner] = cn[s[l][q].owner] /\ cn[s[l][q].owner].st = "open"
        /\ s[l][q].handle # h
  BY <1>1 DEF InOrder, Owners, StackOK, TasksOK
<1>8. Owners(u, e, cm, kd)
  <2> SUFFICES ASSUME NEW l \in Kinds, NEW q \in Ports, u[l][q] # Nil
               PROVE  /\ u[l][q].owner \in Conns
                      /\ cm[u[l][q].owner].st = "open" /\ cm[u[l][q].owner].ep = e
                      /\ l = "tcp" => kd[u[l][q].owner] # "udp"
                      /\ l = "udp" => kd[u[l][q].owner] \in {"udp", "dns"}
    BY DEF Owners
  <2>1. CASE l = kind /\ q = p
    BY <1>3, <1>6, <2>1
  <2>2. CASE ~(l = kind /\ q = p)
    BY <1>6, <1>7, <2>2 DEF InOrder, Owners
  <2> QED
    BY <2>1, <2>2
<1>9. OneEach(u)
  <2> SUFFICES ASSUME NEW k \in Kinds, NEW l \in Kinds, NEW q \in Ports, NEW r \in Ports,
                      u[k][q] # Nil, u[l][r] # Nil, u[k][q].owner = u[l][r].owner
               PROVE  k = l /\ q = r
    BY DEF OneEach
  <2>1. CASE k = kind /\ q = p
    BY <1>3, <1>6, <1>7, <2>1
  <2>2. CASE l = kind /\ r = p
    BY <1>3, <1>6, <1>7, <2>2
  <2>3. CASE ~(k = kind /\ q = p) /\ ~(l = kind /\ r = p)
    BY <1>6, <2>3 DEF InOrder, OneEach
  <2> QED
    BY <2>1, <2>2, <2>3
<1>10. ASSUME NEW q \in Ports, u.tcp[q] # Nil PROVE Stream(PairAt(u, q), cm[u.tcp[q].owner])
  <2>1. CASE "tcp" = kind /\ q = p
    <3>1. u.tcp[q] = Task(c, h) /\ u.tcp[q].owner = c /\ u.tcp[q].handle = h /\ u.sockets[h] = TcpSocket(c)
      BY <1>2, <1>3, <1>6, <2>1
    <3>2. PairAt(u, q) = [t |-> Task(c, h), s |-> TcpSocket(c)]
      BY <3>1 DEF PairAt
    <3> QED
      BY <3>1, <3>2, NewStream
  <2>2. CASE ~("tcp" = kind /\ q = p)
    <3>1. u.tcp[q] = s.tcp[q] /\ s.tcp[q] # Nil
      BY <1>6, <1>10, <2>2 DEF Kinds
    <3>2. s.tcp[q].handle \in Handles /\ s.tcp[q].handle # h /\ cm[s.tcp[q].owner] = cn[s.tcp[q].owner]
      BY <1>7, <3>1, StackFacts DEF Kinds
    <3>3. PairAt(u, q) = PairAt(s, q)
      BY <1>6, <3>1, <3>2 DEF PairAt
    <3> QED
      BY <3>1, <3>2, <3>3 DEF InOrder, Streams
  <2> QED
    BY <2>1, <2>2
<1> QED
  BY <1>4, <1>8, <1>9, <1>10 DEF InOrder, Streams

-------------------------------------------------------------------------------
(* The connections.                                                          *)

Fields == {"st", "ep", "next", "data", "chan", "closed", "cancelled"}

\* A connection on its way or open has an endpoint, and one that is not open has
\* sent nothing.
ConnOK(r) == /\ DOMAIN r = Fields
             /\ r.st \in Attaching \cup {"open"} => r.ep \in Endpoints
             /\ r.st # "open" => r.chan = <<>> /\ r.next = 0
CInv == /\ scene \in Scenes
        /\ active_conn \in Endpoints \cup {None}
        /\ DOMAIN conn = Conns /\ \A c \in Conns : ConnOK(conn[c])

LEMMA ConnSet ==
  ASSUME CInv, NEW c, NEW r, conn' = [conn EXCEPT ![c] = r], ConnOK(r), UNCHANGED scene,
         active_conn' \in Endpoints \cup {None}
  PROVE  CInv'
<1>1. DOMAIN conn' = Conns
  BY DEF CInv
<1>2. ASSUME NEW d \in Conns PROVE ConnOK(conn'[d])
  <2>1. conn'[d] = r \/ conn'[d] = conn[d]
    BY DEF CInv
  <2> QED
    BY <2>1 DEF CInv
<1>3. \A d \in Conns : ConnOK(conn[d])'
  BY <1>2
<1> QED
  BY <1>1, <1>3 DEF CInv

LEMMA SameConns ==
  ASSUME CInv, UNCHANGED <<conn, scene>>, active_conn' \in Endpoints \cup {None} PROVE CInv'
  BY DEF CInv, ConnOK

LEMMA InitC == Init => CInv
<1> SUFFICES ASSUME Init PROVE CInv
  OBVIOUS
<1>1. \A c \in Conns : conn[c] = [st |-> "idle", ep |-> None, next |-> 0, data |-> 0,
                                  chan |-> <<>>, closed |-> FALSE, cancelled |-> FALSE]
  BY DEF Init
<1>2. \A c \in Conns : ConnOK(conn[c])
  BY <1>1 DEF ConnOK, Fields, Attaching
<1> QED
  BY <1>2 DEF Init, CInv

\* What an action makes of a connection.
LEMMA RecFacts ==
  ASSUME NEW r, ConnOK(r)
  PROVE  /\ \A v : ConnOK([r EXCEPT !.data = v]) /\ ConnOK([r EXCEPT !.closed = v])
         /\ \A v, w : ConnOK([r EXCEPT !.cancelled = v, !.closed = w])
         /\ \A v, w : r.st # "open" /\ v \notin Attaching \cup {"open"} =>
              ConnOK([r EXCEPT !.st = v]) /\ ConnOK([r EXCEPT !.st = v, !.closed = w])
         /\ \A v : r.st \in Attaching /\ v \in Attaching \cup {"open"} => ConnOK([r EXCEPT !.st = v])
         /\ \A v \in Attaching, e \in Endpoints : r.st # "open" =>
              ConnOK([r EXCEPT !.st = v, !.ep = e])
         /\ \A n, q : r.st = "open" => ConnOK([r EXCEPT !.next = n, !.chan = q])
         /\ \A q : r.st = "open" => ConnOK([r EXCEPT !.chan = q])
         /\ \A e \in Endpoints : \A q, n : ConnOK([r EXCEPT !.st = "open", !.ep = e, !.chan = q, !.next = n])
<1>1. \A v : v \in Attaching => v # "open"
  BY DEF Attaching
<1> QED
  BY <1>1 DEF ConnOK, Fields

LEMMA StepC == CInv /\ [Next]_vars => CInv'
<1> SUFFICES ASSUME CInv, [Next]_vars PROVE CInv'
  OBVIOUS
<1>1. active_conn \in Endpoints \cup {None} /\ DOMAIN conn = Conns
  BY DEF CInv
<1>2. ASSUME NEW e \in Endpoints, Tasklets(e) PROVE CInv'
  <2>1. CASE Drive(e)
    <3>1. PICK stopped : conn' = [c \in Conns |->
                                    IF c \in stopped
                                    THEN [conn[c] EXCEPT !.cancelled = TRUE, !.closed = TRUE]
                                    ELSE conn[c]]
      BY <2>1 DEF Drive
    <3>2. \A c \in Conns : ConnOK(conn'[c])
      BY <3>1, RecFacts DEF CInv
    <3>3. active_conn' = active_conn /\ scene' = scene /\ DOMAIN conn' = Conns
      BY <2>1, <3>1 DEF Drive
    <3> QED
      BY <3>2, <3>3 DEF CInv
  <2>2. CASE WgIn(e)
    <3>1. PICK c, v : /\ conn' = [conn EXCEPT ![c].data = v]
                      /\ active_conn' = active_conn /\ scene' = scene
      BY <2>2 DEF WgIn
    <3>2. /\ DOMAIN conn' = Conns
          /\ \A f \in Conns : conn'[f] = conn[f] \/ conn'[f] = [conn[f] EXCEPT !.data = v]
      BY <1>1, <3>1
    <3>3. ASSUME NEW f \in Conns PROVE ConnOK(conn'[f])
      <4>1. PICK r : r = conn[f] /\ ConnOK(r)
        BY DEF CInv
      <4>2. conn'[f] = r \/ conn'[f] = [r EXCEPT !.data = v]
        BY <3>2, <4>1
      <4>3. ConnOK([r EXCEPT !.data = v])
        BY <4>1, RecFacts
      <4> QED
        BY <4>1, <4>2, <4>3
    <3> QED
      BY <1>1, <3>1, <3>2, <3>3 DEF CInv
  <2>3. CASE TimePasses(e) \/ WgOutFails(e) \/ WgInFails(e) \/ WgTick(e) \/ TimeoutInactive(e)
    BY <1>1, <2>3, SameConns DEF TimePasses, WgOutFails, WgInFails, WgTick, TimeoutInactive, Stops
  <2>4. CASE Kill(e) \/ DriveFirst(e) \/ DriveEnd(e)
    BY <1>1, <2>4, SameConns DEF Kill, DriveFirst, DriveEnd
  <2> QED
    BY <1>2, <2>1, <2>2, <2>3, <2>4 DEF Tasklets
<1>3. ASSUME NEW c \in Conns, Connection(c) PROVE CInv'
  <2>1. ConnOK(conn[c])
    BY DEF CInv
  <2>2. CASE Spawn(c) \/ StartMaking(c)
    <3>1. PICK v \in {"attach", "making"} :
            conn' = [conn EXCEPT ![c].st = v] /\ UNCHANGED <<active_conn, scene>> /\ conn[c].st # "open"
      BY <2>2 DEF Spawn, StartMaking, SetSt
    <3>2. conn' = [conn EXCEPT ![c] = [conn[c] EXCEPT !.st = v]]
      BY <3>1
    <3>3. v \notin Attaching \cup {"open"}
      BY <3>1 DEF Attaching
    <3>4. ConnOK([conn[c] EXCEPT !.st = v])
      BY <2>1, <3>1, <3>3, RecFacts
    <3> QED
      BY <1>1, <3>1, <3>2, <3>4, ConnSet
  <2>3. CASE TakeCached(c)
    <3>1. /\ conn' = [conn EXCEPT ![c].st = "got", ![c].ep = active_conn] /\ active_conn \in Endpoints
          /\ UNCHANGED <<active_conn, scene>> /\ conn[c].st # "open"
      BY <1>1, <2>3 DEF TakeCached
    <3>2. conn' = [conn EXCEPT ![c] = [conn[c] EXCEPT !.st = "got", !.ep = active_conn]]
      BY <3>1
    <3>3. ConnOK([conn[c] EXCEPT !.st = "got", !.ep = active_conn])
      BY <2>1, <3>1, RecFacts DEF Attaching
    <3> QED
      BY <1>1, <3>1, <3>2, <3>3, ConnSet
  <2>4. CASE RemoveInactive(c)
    BY <2>4, SameConns DEF RemoveInactive
  <2>5. ASSUME conn' = Failed(c), conn[c].st # "open", UNCHANGED scene,
               active_conn' \in Endpoints \cup {None}
        PROVE  CInv'
    <3>1. conn' = [conn EXCEPT ![c] = [conn[c] EXCEPT !.st = "failed", !.closed = TRUE]]
      BY <2>5 DEF Failed
    <3>2. "failed" \notin Attaching \cup {"open"}
      BY DEF Attaching
    <3>3. ConnOK([conn[c] EXCEPT !.st = "failed", !.closed = TRUE])
      BY <2>1, <2>5, <3>2, RecFacts
    <3> QED
      BY <2>5, <3>1, <3>3, ConnSet
  <2>6. CASE Make(c)
    <3>1. conn[c].st # "open" /\ UNCHANGED scene
      BY <2>6 DEF Make
    <3>2. ASSUME NEW e \in Endpoints, active_conn' = e,
                 conn' = [conn EXCEPT ![c].st = "got", ![c].ep = e]
          PROVE  CInv'
      <4>1. conn' = [conn EXCEPT ![c] = [conn[c] EXCEPT !.st = "got", !.ep = e]]
        BY <3>2
      <4>2. ConnOK([conn[c] EXCEPT !.st = "got", !.ep = e])
        BY <2>1, <3>1, <3>2, RecFacts DEF Attaching
      <4>3. active_conn' \in Endpoints \cup {None}
        BY <3>2
      <4> QED
        BY <3>1, <4>1, <4>2, <4>3, ConnSet
    <3>3. CASE conn' = Failed(c) /\ UNCHANGED <<ep, active_conn>>
      BY <1>1, <2>5, <3>1, <3>3
    <3> QED
      BY <2>6, <3>2, <3>3 DEF Make
  <2>7. CASE AttachTimeout(c)
    <3>1. conn[c].st # "open" /\ conn' = Failed(c) /\ UNCHANGED <<scene, active_conn>>
      BY <2>7 DEF AttachTimeout, Attaching
    <3> QED
      BY <1>1, <2>5, <3>1
  <2>8. CASE Lookup(c)
    <3>1. conn[c].st = "got" /\ UNCHANGED <<scene, active_conn>> /\ scene.kind[c] = "tcpname"
      BY <2>8 DEF Lookup
    <3>2. ASSUME NEW d \in Conns, scene.kind[d] = "dns",
                 conn' = [conn EXCEPT ![c].st = "looking", ![d].st = "open", ![d].ep = conn[c].ep,
                                      ![d].chan = << << 1 >> >>, ![d].next = 1]
          PROVE  CInv'
      <4>1. c # d /\ conn[c].ep \in Endpoints
        BY <2>1, <3>1, <3>2 DEF ConnOK, Attaching
      <4>2. PICK a, b : /\ a = [conn[c] EXCEPT !.st = "looking"]
                        /\ b = [conn[d] EXCEPT !.st = "open", !.ep = conn[c].ep, !.chan = << << 1 >> >>, !.next = 1]
        OBVIOUS
      <4>3. conn' = [conn EXCEPT ![c] = a, ![d] = b]
        BY <1>1, <3>2, <4>1, <4>2
      <4>4. ConnOK(a)
        BY <2>1, <3>1, <4>2, RecFacts DEF Attaching
      <4>5. ConnOK(b)
        BY <4>1, <4>2, RecFacts DEF CInv
      <4>6. \A f \in Conns : ConnOK(conn'[f])
        BY <1>1, <4>3, <4>4, <4>5 DEF CInv
      <4>7. DOMAIN conn' = Conns
        BY <1>1, <4>3
      <4> QED
        BY <1>1, <3>1, <4>6, <4>7 DEF CInv
    <3>3. CASE conn' = Failed(c)
      BY <1>1, <2>5, <3>1, <3>3
    <3> QED
      BY <2>8, <3>2, <3>3 DEF Lookup
  <2>9. CASE LookupEnds(c)
    <3>1. conn[c].st = "looking" /\ UNCHANGED <<scene, active_conn>>
      BY <2>9 DEF LookupEnds
    <3>2. PICK d \in Conns : \/ conn' = [conn EXCEPT ![c].st = "resolved", ![d].closed = TRUE]
                             \/ conn' = [Failed(c) EXCEPT ![d].closed = TRUE]
      BY <2>9 DEF LookupEnds
    <3>3. PICK a : /\ ConnOK(a)
                   /\ conn' = [[conn EXCEPT ![c] = a] EXCEPT ![d].closed = TRUE]
      <4>1. CASE conn' = [conn EXCEPT ![c].st = "resolved", ![d].closed = TRUE]
        <5>1. ConnOK([conn[c] EXCEPT !.st = "resolved"])
          BY <2>1, <3>1, RecFacts DEF Attaching
        <5> QED
          BY <4>1, <5>1
      <4>2. CASE conn' = [Failed(c) EXCEPT ![d].closed = TRUE]
        <5>1. "failed" \notin Attaching \cup {"open"}
          BY DEF Attaching
        <5>2. ConnOK([conn[c] EXCEPT !.st = "failed", !.closed = TRUE])
          BY <2>1, <3>1, <5>1, RecFacts
        <5> QED
          BY <4>2, <5>2 DEF Failed
      <4> QED
        BY <3>2, <4>1, <4>2
    <3>4. PICK g : g = [conn EXCEPT ![c] = a]
      OBVIOUS
    <3>5. DOMAIN g = Conns /\ \A f \in Conns : ConnOK(g[f])
      BY <1>1, <3>3, <3>4 DEF CInv
    <3>6. conn' = [g EXCEPT ![d] = [g[d] EXCEPT !.closed = TRUE]]
      BY <3>3, <3>4
    <3>7. ConnOK([g[d] EXCEPT !.closed = TRUE])
      BY <3>5, RecFacts
    <3>8. DOMAIN conn' = Conns /\ \A f \in Conns : ConnOK(conn'[f])
      BY <3>5, <3>6, <3>7
    <3> QED
      BY <1>1, <3>1, <3>8 DEF CInv
  <2>10. CASE OpenConn(c)
    <3>1. conn[c].st \in Attaching /\ conn[c].st # "open" /\ UNCHANGED <<scene, active_conn>>
      BY <2>10 DEF OpenConn, Attaching
    <3>2. CASE SetSt(c, "open")
      <4>1. conn' = [conn EXCEPT ![c] = [conn[c] EXCEPT !.st = "open"]]
        BY <3>2 DEF SetSt
      <4>2. ConnOK([conn[c] EXCEPT !.st = "open"])
        BY <2>1, <3>1, RecFacts
      <4> QED
        BY <1>1, <3>1, <4>1, <4>2, ConnSet
    <3>3. CASE conn' = Failed(c)
      BY <1>1, <2>5, <3>1, <3>3
    <3> QED
      BY <2>10, <3>2, <3>3 DEF OpenConn
  <2>11. CASE Send(c)
    <3>1. PICK n, q : /\ conn' = [conn EXCEPT ![c].next = n, ![c].chan = q]
                      /\ conn[c].st = "open" /\ UNCHANGED <<scene, active_conn>>
      <4> DEFINE Chunk(n, bad) == IF bad THEN <<0>> ELSE [i \in 1 .. n |-> conn[c].next + i]
      <4>1. PICK n \in 1 .. (scene.bytes - conn[c].next), bad \in BOOLEAN :
              conn' = [conn EXCEPT ![c].next = @ + n, ![c].chan = Append(@, Chunk(n, bad))]
        BY <2>11 DEF Send
      <4> HIDE DEF Chunk
      <4>2. conn' = [conn EXCEPT ![c].next = conn[c].next + n,
                                 ![c].chan = Append(conn[c].chan, Chunk(n, bad))]
        BY <4>1
      <4>3. conn[c].st = "open" /\ UNCHANGED <<scene, active_conn>>
        BY <2>11 DEF Send
      <4> QED
        BY <4>2, <4>3
    <3>2. conn' = [conn EXCEPT ![c] = [conn[c] EXCEPT !.next = n, !.chan = q]]
      BY <3>1
    <3>3. ConnOK([conn[c] EXCEPT !.next = n, !.chan = q])
      BY <2>1, <3>1, RecFacts
    <3> QED
      BY <1>1, <3>1, <3>2, <3>3, ConnSet
  <2>12. CASE ClientCloses(c)
    <3>1. /\ conn' = [conn EXCEPT ![c] = [conn[c] EXCEPT !.closed = TRUE]]
          /\ UNCHANGED <<scene, active_conn>>
      BY <2>12 DEF ClientCloses
    <3>2. ConnOK([conn[c] EXCEPT !.closed = TRUE])
      BY <2>1, RecFacts
    <3> QED
      BY <1>1, <3>1, <3>2, ConnSet
  <2>13. CASE Forward(c)
    <3>1. PICK q : /\ conn' = [conn EXCEPT ![c] = [conn[c] EXCEPT !.chan = q]]
                   /\ conn[c].st = "open" /\ UNCHANGED <<scene, active_conn>>
      BY <2>13 DEF Forward
    <3>2. ConnOK([conn[c] EXCEPT !.chan = q])
      BY <2>1, <3>1, RecFacts
    <3> QED
      BY <1>1, <3>1, <3>2, ConnSet
  <2>14. CASE ForwarderEnds(c)
    BY <1>1, <2>14, SameConns DEF ForwarderEnds
  <2> QED
    BY <1>3, <2>2, <2>3, <2>4, <2>6, <2>7, <2>8, <2>9, <2>10, <2>11, <2>12, <2>13, <2>14
       DEF Connection
<1>4. CASE UNCHANGED vars
  BY <1>1, <1>4, SameConns DEF vars
<1> QED
  BY <1>2, <1>3, <1>4 DEF Next

-------------------------------------------------------------------------------
(* The streams of every endpoint.                                            *)

OInv == \A e \in Endpoints : InOrder(stack[e], e, conn, scene.kind)

\* The connection sends nothing and stays where it is.
Calm(k, l) == /\ l.next = k.next /\ l.chan = k.chan /\ (k.closed => l.closed)
              /\ k.st = "open" => l.st = "open" /\ l.ep = k.ep

LEMMA StreamCalm == ASSUME NEW x, NEW k, NEW l, Stream(x, k), Calm(k, l) PROVE Stream(x, l)
  BY DEF Stream, Calm

LEMMA CalmFacts ==
  ASSUME NEW r, ConnOK(r)
  PROVE  /\ Calm(r, r)
         /\ \A v : Calm(r, [r EXCEPT !.data = v])
         /\ Calm(r, [r EXCEPT !.closed = TRUE]) /\ Calm(r, [r EXCEPT !.cancelled = TRUE, !.closed = TRUE])
         /\ \A v, e : r.st # "open" => /\ Calm(r, [r EXCEPT !.st = v])
                                       /\ Calm(r, [r EXCEPT !.st = v, !.closed = TRUE])
                                       /\ Calm(r, [r EXCEPT !.st = v, !.ep = e])
  BY DEF ConnOK, Fields, Calm

LEMMA CalmTransitive ==
  ASSUME NEW k, NEW l, NEW r, Calm(k, l), Calm(l, r) PROVE Calm(k, r)
  BY DEF Calm

\* A stack of which no task changes, with connections that are calm.
LEMMA CalmOrder ==
  ASSUME NEW s, NEW e, NEW cn, NEW cm, NEW kd, InOrder(s, e, cn, kd),
         \A c \in Conns : cn[c].st = "open" /\ cn[c].ep = e => Calm(cn[c], cm[c])
  PROVE  InOrder(s, e, cm, kd)
<1>1. Owners(s, e, cm, kd) /\ OneEach(s)
  BY OwnersKept DEF InOrder, Calm
<1>2. ASSUME NEW p \in Ports, s.tcp[p] # Nil PROVE Stream(PairAt(s, p), cm[s.tcp[p].owner])
  <2>1. PICK c \in Conns : c = s.tcp[p].owner /\ cn[c].st = "open" /\ cn[c].ep = e
    BY <1>2 DEF InOrder, Owners, Kinds
  <2>2. Stream(PairAt(s, p), cn[s.tcp[p].owner])
    BY <1>2 DEF InOrder, Streams
  <2> QED
    BY <2>1, <2>2, StreamCalm
<1> QED
  BY <1>1, <1>2 DEF InOrder, Streams

LEMMA CalmStep ==
  ASSUME OInv, UNCHANGED <<stack, scene>>, \A c \in Conns : Calm(conn[c], conn'[c]) PROVE OInv'
<1>1. ASSUME NEW e \in Endpoints PROVE InOrder(stack[e], e, conn', scene.kind)
  BY CalmOrder DEF OInv
<1> QED
  BY <1>1 DEF OInv

LEMMA CalmSet ==
  ASSUME CInv, NEW c \in Conns, NEW r, conn' = [conn EXCEPT ![c] = r], Calm(conn[c], r)
  PROVE  \A d \in Conns : Calm(conn[d], conn'[d])
<1> SUFFICES ASSUME NEW d \in Conns PROVE Calm(conn[d], conn'[d])
  OBVIOUS
<1>1. CASE d = c
  BY <1>1 DEF CInv
<1>2. CASE d # c
  <2>1. conn'[d] = conn[d]
    BY <1>2 DEF CInv
  <2> QED
    BY <2>1 DEF Calm
<1> QED
  BY <1>1, <1>2

LEMMA CalmSame == ASSUME CInv, UNCHANGED conn PROVE \A d \in Conns : Calm(conn[d], conn'[d])
  BY CalmFacts DEF CInv

LEMMA OneStackOrder ==
  ASSUME OInv, NEW e \in Endpoints, \A d \in Endpoints \ {e} : stack'[d] = stack[d],
         InOrder(stack'[e], e, conn', scene.kind), UNCHANGED scene,
         \A c \in Conns : conn[c].st = "open" /\ conn[c].ep # e => Calm(conn[c], conn'[c])
  PROVE  OInv'
<1>1. ASSUME NEW d \in Endpoints PROVE InOrder(stack'[d], d, conn', scene.kind)
  <2>1. CASE d = e
    BY <2>1
  <2>2. CASE d # e
    <3>1. stack'[d] = stack[d] /\ \A c \in Conns :
            conn[c].st = "open" /\ conn[c].ep = d => Calm(conn[c], conn'[c])
      BY <2>2
    <3> QED
      BY <3>1, CalmOrder DEF OInv
  <2> QED
    BY <2>1, <2>2
<1> QED
  BY <1>1 DEF OInv

LEMMA InitO == Init => OInv
<1> SUFFICES ASSUME Init, NEW e \in Endpoints PROVE InOrder(stack[e], e, conn, scene.kind)
  BY DEF OInv
<1>1. /\ \A k \in Kinds, p \in Ports : NewStack[k][p] = Nil
      /\ stack[e] = NewStack
  BY DEF NewStack, Kinds, Init
<1>2. \A p \in Ports : NewStack.tcp[p] = Nil
  BY <1>1 DEF Kinds
<1> HIDE DEF NewStack
<1> QED
  BY <1>1, <1>2 DEF InOrder, Owners, OneEach, Streams

LEMMA DriveOrder == ASSUME IInv, CInv, OInv, NEW e \in Endpoints, Drive(e) PROVE OInv'
<1>1. PICK a, full, early : /\ a = DriveIface(e)
                            /\ stack' = [stack EXCEPT ![e] = Purged(PollAll(a, full, early))]
  BY DEF Drive
<1>2. PICK b, u : b = PollAll(a, full, early) /\ u = Purged(b)
  OBVIOUS
<1>3. StackOK(stack[e]) /\ InOrder(stack[e], e, conn, scene.kind)
  BY DEF IInv, OInv
<1>4. StackOK(a) /\ StackOK(b)
  BY <1>1, <1>2, <1>3, DriveIfaceOK, PollAllOK
<1>5. Streams(a, conn) /\ \A k \in Kinds, p \in Ports : a[k][p] = stack[e][k][p]
  BY <1>1, <1>3, DriveIfaceStreams DEF InOrder
<1>6. Streams(b, conn) /\ \A k \in Kinds, p \in Ports :
                            b[k][p] # Nil => a[k][p] # Nil /\ b[k][p].owner = a[k][p].owner
  BY <1>2, <1>4, <1>5, PollAllStreams
<1>7. Streams(u, conn) /\ \A k \in Kinds, p \in Ports :
                            u[k][p] # Nil => b[k][p] # Nil /\ u[k][p].owner = b[k][p].owner
  BY <1>2, <1>4, <1>6, PurgedStreams
<1>8. \A k \in Kinds, p \in Ports :
        u[k][p] # Nil => stack[e][k][p] # Nil /\ u[k][p].owner = stack[e][k][p].owner
  BY <1>5, <1>6, <1>7
<1>9. Owners(u, e, conn, scene.kind) /\ OneEach(u)
  BY <1>3, <1>8, OwnersKept DEF InOrder
<1>10. InOrder(u, e, conn, scene.kind)
  BY <1>7, <1>9 DEF InOrder
<1>11. \A c \in Conns : Calm(conn[c], conn'[c])
  <2>1. PICK stopped : conn' = [c \in Conns |->
                                  IF c \in stopped
                                  THEN [conn[c] EXCEPT !.cancelled = TRUE, !.closed = TRUE]
                                  ELSE conn[c]]
    BY DEF Drive
  <2> QED
    BY <2>1, CalmFacts DEF CInv
<1>12. InOrder(u, e, conn', scene.kind)
  BY <1>10, <1>11, CalmOrder
<1>13. stack'[e] = u /\ (\A d \in Endpoints \ {e} : stack'[d] = stack[d]) /\ UNCHANGED scene
  BY <1>1, <1>2 DEF Drive, IInv
<1> QED
  BY <1>11, <1>12, <1>13, OneStackOrder

LEMMA TasksAgeOrder ==
  ASSUME IInv, CInv, OInv, NEW e \in Endpoints, TasksAge(e), UNCHANGED <<conn, scene>>
  PROVE  OInv'
<1> DEFINE Aged(kind, p) ==
             Older(stack[e][kind][p], kind, stack[e].sockets[stack[e][kind][p].handle].st)
<1>1. PICK kind \in Kinds, p \in Ports :
        /\ stack[e][kind][p] # Nil
        /\ stack' = [stack EXCEPT ![e][kind][p] = Aged(kind, p)]
  BY DEF TasksAge, Kinds
<1> HIDE DEF Aged
<1>2. PICK s, t, u : s = stack[e] /\ t = Aged(kind, p) /\ u = [s EXCEPT ![kind][p] = t]
  OBVIOUS
<1>3. stack' = [stack EXCEPT ![e] = u] /\ UNCHANGED <<conn, scene>>
  BY <1>1, <1>2
<1>4. StackOK(s) /\ IsTask(s[kind][p]) /\ s[kind][p] # Nil /\ InOrder(s, e, conn, scene.kind)
  BY <1>1, <1>2 DEF IInv, StackOK, TasksOK, OInv
<1>5. PICK a, b : t = [s[kind][p] EXCEPT !.half = a, !.old = b]
  BY <1>2 DEF Aged, Older
<1>6. SameTask(s[kind][p], t) /\ Aging(s[kind][p], t)
  BY <1>4, <1>5 DEF SameTask, IsTask, Aging
<1>7. Streams(u, conn) /\ \A k \in Kinds, q \in Ports :
                            u[k][q] # Nil => s[k][q] # Nil /\ u[k][q].owner = s[k][q].owner
  BY <1>2, <1>4, <1>6, OneTaskStreams DEF InOrder
<1>8. Owners(u, e, conn, scene.kind) /\ OneEach(u)
  BY <1>4, <1>7, OwnersKept DEF InOrder
<1>9. InOrder(u, e, conn', scene.kind)
  BY <1>3, <1>7, <1>8 DEF InOrder
<1>10. \A c \in Conns : Calm(conn[c], conn'[c])
  BY <1>3, CalmSame
<1> QED
  <2>1. stack'[e] = u /\ (\A d \in Endpoints \ {e} : stack'[d] = stack[d]) /\ UNCHANGED scene
    BY <1>3 DEF IInv
  <2> QED
    BY <1>9, <1>10, <2>1, OneStackOrder

LEMMA TimeWaitOrder ==
  ASSUME IInv, CInv, OInv, NEW e \in Endpoints, TimeWaitEnds(e), UNCHANGED <<conn, scene>>
  PROVE  OInv'
<1>1. PICK h \in Handles : /\ stack[e].sockets[h] # Nil
                           /\ stack' = [stack EXCEPT ![e].sockets[h].st = "closed"]
  BY DEF TimeWaitEnds
<1>2. PICK s, u : s = stack[e] /\ u = [s EXCEPT !.sockets[h].st = "closed"]
  OBVIOUS
<1>3. stack' = [stack EXCEPT ![e] = u]
  BY <1>1, <1>2
<1>4. StackOK(s) /\ InOrder(s, e, conn, scene.kind)
  BY <1>2 DEF IInv, OInv
<1>5. /\ u.tcp = s.tcp /\ u.udp = s.udp
      /\ u.sockets[h] = [s.sockets[h] EXCEPT !.st = "closed"]
      /\ \A i \in Handles : i # h => u.sockets[i] = s.sockets[i]
  BY <1>2, <1>4 DEF StackOK, Shape
<1>6. ASSUME NEW p \in Ports, u.tcp[p] # Nil PROVE Stream(PairAt(u, p), conn[u.tcp[p].owner])
  <2>1. s.tcp[p] # Nil /\ u.tcp[p] = s.tcp[p]
    BY <1>5, <1>6
  <2>2. PICK i \in Handles : i = s.tcp[p].handle
    BY <1>4, <2>1, StackFacts
  <2>3. PICK x : x = PairAt(s, p) /\ Stream(x, conn[s.tcp[p].owner])
    BY <1>4, <2>1 DEF InOrder, Streams
  <2>4. x.t = s.tcp[p] /\ x.s = s.sockets[i]
    BY <2>2, <2>3 DEF PairAt
  <2>5. CASE i # h
    BY <1>5, <2>1, <2>2, <2>3, <2>5 DEF PairAt
  <2>6. CASE i = h
    <3>1. PairAt(u, p) = [t |-> x.t, s |-> [x.s EXCEPT !.st = "closed"]]
      BY <1>5, <2>1, <2>2, <2>4, <2>6 DEF PairAt
    <3>2. Stream([t |-> x.t, s |-> [x.s EXCEPT !.st = "closed"]], conn[s.tcp[p].owner])
      BY <2>3, PacketStream
    <3> QED
      BY <2>1, <3>1, <3>2
  <2> QED
    BY <2>5, <2>6
<1>7. Streams(u, conn) /\ \A k \in Kinds, q \in Ports :
                            u[k][q] # Nil => s[k][q] # Nil /\ u[k][q].owner = s[k][q].owner
  BY <1>5, <1>6 DEF Streams, Kinds
<1>8. Owners(u, e, conn, scene.kind) /\ OneEach(u)
  BY <1>4, <1>7, OwnersKept DEF InOrder
<1>9. InOrder(u, e, conn', scene.kind)
  BY <1>7, <1>8 DEF InOrder
<1>10. \A c \in Conns : Calm(conn[c], conn'[c])
  BY CalmSame
<1> QED
  <2>1. stack'[e] = u /\ (\A d \in Endpoints \ {e} : stack'[d] = stack[d]) /\ UNCHANGED scene
    BY <1>3 DEF IInv
  <2> QED
    BY <1>9, <1>10, <2>1, OneStackOrder

LEMMA TimePassesOrder == ASSUME IInv, CInv, OInv, NEW e \in Endpoints, TimePasses(e) PROVE OInv'
  BY TasksAgeOrder, TimeWaitOrder DEF TimePasses

LEMMA OpenOrder ==
  ASSUME IInv, CInv, OInv, NEW e \in Endpoints, NEW kind \in Kinds, NEW c \in Conns, NEW p \in Ports,
         Vacant(e, kind, p), stack' = [stack EXCEPT ![e] = Open(@, kind, c, p)], UNCHANGED scene,
         conn[c].st # "open", conn'[c].st = "open", conn'[c].ep = e,
         \A d \in Conns : conn[d].st = "open" => conn'[d] = conn[d],
         kind = "tcp" => scene.kind[c] # "udp", kind = "udp" => scene.kind[c] \in {"udp", "dns"},
         conn'[c].next \in Nat, Chunks(conn'[c].chan, 0, conn'[c].next)
  PROVE  OInv'
<1>1. StackOK(stack[e]) /\ InOrder(stack[e], e, conn, scene.kind)
  BY DEF IInv, OInv
<1>2. stack[e][kind][p] = Nil /\ HasSlot(stack[e])
  BY DEF Vacant
<1>3. InOrder(Open(stack[e], kind, c, p), e, conn', scene.kind)
  BY <1>1, <1>2, OpenInOrder
<1>4. stack'[e] = Open(stack[e], kind, c, p) /\ \A d \in Endpoints \ {e} : stack'[d] = stack[d]
  BY DEF IInv
<1>5. \A d \in Conns : conn[d].st = "open" /\ conn[d].ep # e => Calm(conn[d], conn'[d])
  BY DEF Calm
<1> QED
  BY <1>3, <1>4, <1>5, OneStackOrder

LEMMA LookupOrder ==
  ASSUME IInv, CInv, OInv, NEW c \in Conns, Lookup(c), conn' # Failed(c) PROVE OInv'
<1>1. conn[c].st = "got" /\ UNCHANGED scene /\ scene.kind[c] = "tcpname"
  BY DEF Lookup
<1>2. PICK d \in Conns, kind \in {"udp", "tcp"}, p \in Ports :
        /\ scene.kind[d] = "dns" /\ conn[d].st = "idle"
        /\ Vacant(conn[c].ep, kind, p)
        /\ stack' = [stack EXCEPT ![conn[c].ep] = Open(@, kind, d, p)]
        /\ conn' = [conn EXCEPT ![c].st = "looking", ![d].st = "open", ![d].ep = conn[c].ep,
                                ![d].chan = << << 1 >> >>, ![d].next = 1]
  BY DEF Lookup
<1>3. PICK e \in Endpoints : e = conn[c].ep
  BY <1>1 DEF CInv, ConnOK, Attaching
<1>4. c # d
  BY <1>1, <1>2
<1>5. ConnOK(conn[d]) /\ DOMAIN conn = Conns
  BY DEF CInv
<1>6. conn'[d] = [conn[d] EXCEPT !.st = "open", !.ep = e, !.chan = << << 1 >> >>, !.next = 1]
  BY <1>2, <1>3, <1>4, <1>5
<1>7. conn'[d].st = "open" /\ conn'[d].ep = e /\ conn'[d].chan = << << 1 >> >> /\ conn'[d].next = 1
  BY <1>5, <1>6 DEF ConnOK, Fields
<1>8. Chunks(<< << 1 >> >>, 0, 1)
  <2>1. Chunks(<<>>, 0, 0) /\ 0 \in Nat /\ 1 \in Nat /\ 0 < 1
    BY NoChunks
  <2>2. Chunks(Append(<<>>, Run(0, 1)), 0, 1)
    BY <2>1, ChunksAppend
  <2>3. Run(0, 1) = <<1>>
    BY DEF Run
  <2> QED
    BY <2>2, <2>3
<1>9. \A f \in Conns : conn[f].st = "open" => conn'[f] = conn[f]
  BY <1>1, <1>2, <1>5
<1>10. kind \in Kinds /\ conn[d].st # "open" /\ scene.kind[d] # "udp" /\ scene.kind[d] \in {"udp", "dns"}
  BY <1>2 DEF Kinds
<1>11. Vacant(e, kind, p) /\ stack' = [stack EXCEPT ![e] = Open(@, kind, d, p)]
  BY <1>2, <1>3
<1>12. conn'[d].next \in Nat /\ Chunks(conn'[d].chan, 0, conn'[d].next)
  BY <1>7, <1>8
<1> QED
  BY <1>1, <1>7, <1>9, <1>10, <1>11, <1>12, OpenOrder

LEMMA OpenConnOrder ==
  ASSUME IInv, CInv, OInv, NEW c \in Conns, OpenConn(c), conn' # Failed(c) PROVE OInv'
<1>1. conn[c].st \in {"got", "resolved"} /\ UNCHANGED scene
  BY DEF OpenConn
<1>2. PICK k : k = StackKind(c)
  OBVIOUS
<1>3. /\ Vacant(conn[c].ep, k, PortOf[c])
      /\ stack' = [stack EXCEPT ![conn[c].ep] = Open(@, k, c, PortOf[c])]
      /\ conn' = [conn EXCEPT ![c].st = "open"]
  BY <1>2 DEF OpenConn, SetSt
<1>4. PICK e \in Endpoints : e = conn[c].ep
  BY <1>1 DEF CInv, ConnOK, Attaching
<1>5. ConnOK(conn[c]) /\ DOMAIN conn = Conns /\ conn[c].st # "open"
  BY <1>1 DEF CInv
<1>6. conn'[c] = [conn[c] EXCEPT !.st = "open"]
  BY <1>3, <1>5
<1>7. conn'[c].st = "open" /\ conn'[c].ep = e /\ conn'[c].chan = <<>> /\ conn'[c].next = 0
  BY <1>4, <1>5, <1>6 DEF ConnOK, Fields
<1>8. \A f \in Conns : conn[f].st = "open" => conn'[f] = conn[f]
  BY <1>3, <1>5
<1>9. k \in Kinds /\ PortOf[c] \in Ports
  BY <1>2, WGAssumption DEF StackKind, Kinds
<1>10. (k = "tcp" => scene.kind[c] # "udp") /\ (k = "udp" => scene.kind[c] \in {"udp", "dns"})
  BY <1>2 DEF StackKind
<1>11. Vacant(e, k, PortOf[c]) /\ stack' = [stack EXCEPT ![e] = Open(@, k, c, PortOf[c])]
  BY <1>3, <1>4
<1>12. conn'[c].next \in Nat /\ Chunks(conn'[c].chan, 0, conn'[c].next)
  BY <1>7, NoChunks
<1> QED
  BY <1>1, <1>5, <1>7, <1>8, <1>9, <1>10, <1>11, <1>12, OpenOrder

\* The client sends a chunk, the forwarder takes one to the task, and it ends.
LEMMA StreamSend ==
  ASSUME NEW x, NEW k, NEW l, Stream(x, k), ~k.closed, NEW n \in Nat, n > 0,
         l.next = k.next + n, l.chan = Append(k.chan, Run(k.next, k.next + n))
  PROVE  Stream(x, l)
<1>1. PICK m \in 0 .. k.next : Flow(x, m) /\ Chunks(k.chan, m, k.next)
  BY DEF Stream
<1>2. k.next \in Nat /\ m \in Nat /\ k.next + n \in Nat /\ k.next < k.next + n /\ m \in 0 .. k.next + n
  BY DEF Stream
<1>3. Chunks(l.chan, m, l.next)
  BY <1>1, <1>2, ChunksAppend
<1>4. ~x.t.eof /\ x.s.st \notin FinSent /\ Pair(x)
  BY DEF Stream
<1> QED
  BY <1>1, <1>2, <1>3, <1>4 DEF Stream

LEMMA StreamForward ==
  ASSUME NEW x, NEW y, NEW k, NEW l, Stream(x, k), k.chan # <<>>, Pair(y),
         y.t.rx = Append(x.t.rx, Head(k.chan)), y.t.remain = x.t.remain, y.t.eof = x.t.eof,
         y.s = x.s, l.next = k.next, l.chan = Tail(k.chan)
  PROVE  Stream(y, l)
<1>1. PICK m \in 0 .. k.next : Flow(x, m) /\ Chunks(k.chan, m, k.next)
  BY DEF Stream
<1>2. k.next \in Nat /\ m \in Nat
  BY DEF Stream
<1>3. PICK j \in 0 .. k.next : m < j /\ Head(k.chan) = Run(m, j) /\ Chunks(Tail(k.chan), j, k.next)
  BY <1>1, <1>2, ChunksTail
<1>4. PICK n \in 0 .. m, a \in 0 .. m :
        x.s.out = Run(0, n) /\ Rest(x.t.remain, n, a) /\ Chunks(x.t.rx, a, m)
  BY <1>1 DEF Flow
<1>5. j \in Nat /\ a \in Nat /\ n \in 0 .. j /\ a \in 0 .. j
  BY <1>2, <1>3
<1>6. Chunks(y.t.rx, a, j)
  BY <1>2, <1>3, <1>4, <1>5, ChunksAppend
<1>7. Flow(y, j)
  BY <1>4, <1>5, <1>6 DEF Flow
<1>8. ~y.t.eof /\ y.s.st \notin FinSent
  BY DEF Stream
<1> QED
  BY <1>2, <1>3, <1>7, <1>8 DEF Stream

LEMMA StreamEnd ==
  ASSUME NEW x, NEW y, NEW k, Stream(x, k), k.closed, k.chan = <<>>, Pair(y),
         y.t.rx = x.t.rx, y.t.remain = x.t.remain, y.t.eof = TRUE, y.s = x.s
  PROVE  Stream(y, k)
<1>1. \A m : Flow(x, m) => Flow(y, m)
  BY DEF Flow
<1> QED
  BY <1>1 DEF Stream

\* What ForTask does to a stack.
LEMMA ForTaskFacts ==
  ASSUME IInv, NEW e \in Endpoints, NEW c, NEW f \in {"rx", "eof"}, NEW v,
         stack' = ForTask(e, c, f, v)
  PROVE  /\ \A d \in Endpoints \ {e} : stack'[d] = stack[d]
         /\ stack'[e].sockets = stack[e].sockets
         /\ \A k \in Kinds, p \in Ports :
              stack'[e][k][p] = IF stack[e][k][p] # Nil /\ stack[e][k][p].owner = c
                                THEN [stack[e][k][p] EXCEPT ![f] = v] ELSE stack[e][k][p]
<1> DEFINE Upd(t) == IF t # Nil /\ t.owner = c THEN [t EXCEPT ![f] = v] ELSE t
<1>1. PICK s, u : /\ s = stack[e]
                  /\ u = [s EXCEPT !.tcp = [p \in Ports |-> Upd(s.tcp[p])],
                                   !.udp = [p \in Ports |-> Upd(s.udp[p])]]
  OBVIOUS
<1>2. \A d \in Endpoints : stack'[d] = IF d = e THEN u ELSE stack[d]
  BY <1>1 DEF ForTask, IInv
<1>3. StackOK(s)
  BY <1>1 DEF IInv
<1>4. u.sockets = s.sockets /\ \A k \in Kinds, p \in Ports : u[k][p] = Upd(s[k][p])
  BY <1>1, <1>3 DEF StackOK, Shape, Kinds
<1>5. stack'[e] = u /\ \A d \in Endpoints \ {e} : stack'[d] = stack[d]
  BY <1>2
<1> HIDE DEF Upd
<1>6. stack'[e].sockets = stack[e].sockets
  BY <1>1, <1>4, <1>5
<1>7. \A k \in Kinds, p \in Ports : stack'[e][k][p] = Upd(stack[e][k][p])
  BY <1>1, <1>4, <1>5
<1> QED
  BY <1>5, <1>6, <1>7 DEF Upd

\* The owners stay, and the streams are what remains to be shown.
LEMMA ForTaskOrder ==
  ASSUME IInv, OInv, NEW e \in Endpoints, NEW c \in Conns, NEW f \in {"rx", "eof"}, NEW v,
         stack' = ForTask(e, c, f, v), UNCHANGED scene, conn[c].ep = e,
         \A d \in Conns : d # c => conn'[d] = conn[d], conn'[c].st = conn[c].st, conn'[c].ep = conn[c].ep,
         \A p \in Ports : stack[e].tcp[p] # Nil /\ stack[e].tcp[p].owner = c =>
           Stream([t |-> [stack[e].tcp[p] EXCEPT ![f] = v],
                   s |-> stack[e].sockets[stack[e].tcp[p].handle]], conn'[c])
  PROVE  OInv'
<1>1. PICK s, u : s = stack[e] /\ u = stack'[e]
  OBVIOUS
<1>2. /\ u.sockets = s.sockets
      /\ \A k \in Kinds, p \in Ports :
           u[k][p] = IF s[k][p] # Nil /\ s[k][p].owner = c THEN [s[k][p] EXCEPT ![f] = v] ELSE s[k][p]
  BY <1>1, ForTaskFacts
<1>3. StackOK(s) /\ InOrder(s, e, conn, scene.kind)
  BY <1>1 DEF IInv, OInv
<1>4. \A k \in Kinds, p \in Ports : u[k][p] # Nil => s[k][p] # Nil /\ u[k][p].owner = s[k][p].owner
  <2> SUFFICES ASSUME NEW k \in Kinds, NEW p \in Ports, u[k][p] # Nil
               PROVE  s[k][p] # Nil /\ u[k][p].owner = s[k][p].owner
    OBVIOUS
  <2>1. CASE s[k][p] # Nil /\ s[k][p].owner = c
    <3>1. IsTask(s[k][p])
      BY <1>3, <2>1 DEF StackOK, TasksOK
    <3> QED
      BY <1>2, <2>1, <3>1 DEF IsTask
  <2>2. CASE ~(s[k][p] # Nil /\ s[k][p].owner = c)
    BY <1>2, <2>2
  <2> QED
    BY <2>1, <2>2
<1>5. Owners(u, e, conn', scene.kind) /\ OneEach(u)
  BY <1>3, <1>4, OwnersKept DEF InOrder
<1>6. ASSUME NEW p \in Ports, u.tcp[p] # Nil PROVE Stream(PairAt(u, p), conn'[u.tcp[p].owner])
  <2>1. s.tcp[p] # Nil /\ u.tcp[p].owner = s.tcp[p].owner /\ "tcp" \in Kinds
    BY <1>4, <1>6 DEF Kinds
  <2>2. CASE s.tcp[p].owner = c
    <3>1. u.tcp[p] = [s.tcp[p] EXCEPT ![f] = v]
      BY <1>2, <2>1, <2>2
    <3>2. u.tcp[p].handle = s.tcp[p].handle
      BY <1>3, <2>1, <3>1, StackFacts DEF IsTask
    <3>3. PairAt(u, p) = [t |-> [s.tcp[p] EXCEPT ![f] = v], s |-> s.sockets[s.tcp[p].handle]]
      BY <1>2, <3>1, <3>2 DEF PairAt
    <3> QED
      BY <1>1, <2>1, <2>2, <3>3
  <2>3. CASE s.tcp[p].owner # c
    <3>1. u.tcp[p] = s.tcp[p]
      BY <1>2, <2>1, <2>3
    <3>2. PairAt(u, p) = PairAt(s, p)
      BY <1>2, <3>1 DEF PairAt
    <3>3. s.tcp[p].owner \in Conns
      BY <1>3, <2>1 DEF InOrder, Owners
    <3>4. Stream(PairAt(s, p), conn[s.tcp[p].owner])
      BY <1>3, <2>1 DEF InOrder, Streams
    <3> QED
      BY <2>1, <2>3, <3>2, <3>3, <3>4
  <2> QED
    BY <2>2, <2>3
<1>7. InOrder(u, e, conn', scene.kind)
  BY <1>5, <1>6 DEF InOrder, Streams
<1>8. \A d \in Endpoints \ {e} : stack'[d] = stack[d]
  BY ForTaskFacts
<1>9. \A d \in Conns : conn[d].st = "open" /\ conn[d].ep # e => Calm(conn[d], conn'[d])
  BY DEF Calm
<1> QED
  BY <1>1, <1>7, <1>8, <1>9, OneStackOrder

LEMMA SendOrder == ASSUME IInv, CInv, OInv, NEW c \in Conns, Send(c) PROVE OInv'
<1> DEFINE Chunk(n, bad) == IF bad THEN <<0>> ELSE [i \in 1 .. n |-> conn[c].next + i]
<1>1. PICK n \in 1 .. (scene.bytes - conn[c].next), bad \in BOOLEAN :
        /\ bad => scene.kind[c] = "udp"
        /\ conn' = [conn EXCEPT ![c].next = @ + n, ![c].chan = Append(@, Chunk(n, bad))]
  BY DEF Send
<1>2. conn[c].st = "open" /\ ~conn[c].closed /\ UNCHANGED <<stack, scene>>
  BY DEF Send
<1>3. ConnOK(conn[c]) /\ DOMAIN conn = Conns /\ scene.bytes \in Nat
  BY WGAssumption DEF CInv
<1>4. PICK e \in Endpoints : e = conn[c].ep
  BY <1>2, <1>3 DEF ConnOK
<1> HIDE DEF Chunk
<1>5. PICK l : l = [conn[c] EXCEPT !.next = conn[c].next + n,
                                   !.chan = Append(conn[c].chan, Chunk(n, bad))]
  OBVIOUS
<1>6. conn'[c] = l /\ \A d \in Conns : d # c => conn'[d] = conn[d]
  BY <1>1, <1>3, <1>5
<1>7. /\ l.st = "open" /\ l.ep = e /\ l.next = conn[c].next + n
      /\ l.chan = Append(conn[c].chan, Chunk(n, bad))
  BY <1>2, <1>3, <1>4, <1>5 DEF ConnOK, Fields
<1>8. InOrder(stack[e], e, conn, scene.kind)
  BY DEF OInv
<1>9. Owners(stack[e], e, conn', scene.kind) /\ OneEach(stack[e])
  <2>1. \A d \in Conns : conn[d].st = "open" /\ conn[d].ep = e => conn'[d].st = "open" /\ conn'[d].ep = e
    BY <1>6, <1>7
  <2> QED
    BY <1>8, <2>1, OwnersKept DEF InOrder
<1>10. ASSUME NEW p \in Ports, stack[e].tcp[p] # Nil
       PROVE  Stream(PairAt(stack[e], p), conn'[stack[e].tcp[p].owner])
  <2>1. PICK d \in Conns : d = stack[e].tcp[p].owner /\ scene.kind[d] # "udp"
    BY <1>8, <1>10 DEF InOrder, Owners, Kinds
  <2>2. Stream(PairAt(stack[e], p), conn[d])
    BY <1>8, <1>10, <2>1 DEF InOrder, Streams
  <2>3. CASE d # c
    BY <1>6, <2>1, <2>2, <2>3
  <2>4. CASE d = c
    <3>1. conn[c].next \in Nat
      BY <2>2, <2>4 DEF Stream
    <3>2. n \in Nat /\ n > 0 /\ (conn[c].next + n) - conn[c].next = n
      BY <1>1, <1>3, <3>1
    <3>3. Chunk(n, bad) = Run(conn[c].next, conn[c].next + n)
      BY <1>1, <2>1, <2>4, <3>2 DEF Chunk, Run
    <3>4. Stream(PairAt(stack[e], p), l)
      BY <1>2, <1>7, <2>2, <2>4, <3>2, <3>3, StreamSend
    <3> QED
      BY <1>6, <2>1, <2>4, <3>4
  <2> QED
    BY <2>3, <2>4
<1>11. InOrder(stack[e], e, conn', scene.kind)
  BY <1>9, <1>10 DEF InOrder, Streams
<1>12. \A d \in Conns : conn[d].st = "open" /\ conn[d].ep # e => Calm(conn[d], conn'[d])
  BY <1>4, <1>6 DEF Calm
<1> QED
  BY <1>2, <1>11, <1>12, OneStackOrder

LEMMA ForwardOrder == ASSUME IInv, CInv, OInv, NEW c \in Conns, Forward(c) PROVE OInv'
<1>1. /\ conn[c].st = "open" /\ conn[c].chan # <<>> /\ UNCHANGED scene
      /\ conn' = [conn EXCEPT ![c].chan = Tail(@)]
  BY DEF Forward
<1>2. ConnOK(conn[c]) /\ DOMAIN conn = Conns
  BY DEF CInv
<1>3. PICK e \in Endpoints : e = conn[c].ep
  BY <1>1, <1>2 DEF ConnOK
<1>4. PICK l : l = [conn[c] EXCEPT !.chan = Tail(conn[c].chan)]
  OBVIOUS
<1>5. conn'[c] = l /\ \A d \in Conns : d # c => conn'[d] = conn[d]
  BY <1>1, <1>2, <1>4
<1>6. /\ l.st = "open" /\ l.ep = e /\ l.next = conn[c].next /\ l.closed = conn[c].closed
      /\ l.chan = Tail(conn[c].chan)
  BY <1>1, <1>2, <1>3, <1>4 DEF ConnOK, Fields
<1>7. InOrder(stack[e], e, conn, scene.kind) /\ StackOK(stack[e])
  BY DEF OInv, IInv
<1>8. PICK dropped, rx :
        /\ dropped \in BOOLEAN /\ (dropped => scene.kind[c] = "udp")
        /\ rx = Append((CHOOSE t \in TaskOf(stack[e], c) : TRUE).rx, Head(conn[c].chan))
        /\ stack' = IF dropped \/ TaskOf(stack[e], c) = {} THEN stack ELSE ForTask(e, c, "rx", rx)
  BY <1>3 DEF Forward
<1>9. \A p \in Ports : stack[e].tcp[p] # Nil => stack[e].tcp[p] \in Tasks(stack[e])
  BY DEF Tasks
<1>10. CASE dropped \/ TaskOf(stack[e], c) = {}
  <2>1. stack' = stack
    BY <1>8, <1>10
  <2>2. ASSUME NEW p \in Ports, stack[e].tcp[p] # Nil, stack[e].tcp[p].owner = c PROVE FALSE
    <3>1. scene.kind[c] # "udp"
      BY <1>7, <2>2 DEF InOrder, Owners, Kinds
    <3>2. stack[e].tcp[p] \in TaskOf(stack[e], c)
      BY <1>9, <2>2 DEF TaskOf
    <3> QED
      BY <1>8, <1>10, <3>1, <3>2
  <2>3. Owners(stack[e], e, conn', scene.kind) /\ OneEach(stack[e])
    <3>1. \A d \in Conns : conn[d].st = "open" /\ conn[d].ep = e => conn'[d].st = "open" /\ conn'[d].ep = e
      BY <1>5, <1>6
    <3> QED
      BY <1>7, <3>1, OwnersKept DEF InOrder
  <2>4. ASSUME NEW p \in Ports, stack[e].tcp[p] # Nil
        PROVE  Stream(PairAt(stack[e], p), conn'[stack[e].tcp[p].owner])
    <3>1. PICK d \in Conns : d = stack[e].tcp[p].owner /\ d # c
      BY <1>7, <2>2, <2>4 DEF InOrder, Owners, Kinds
    <3>2. Stream(PairAt(stack[e], p), conn[d])
      BY <1>7, <2>4, <3>1 DEF InOrder, Streams
    <3> QED
      BY <1>5, <3>1, <3>2
  <2>5. InOrder(stack[e], e, conn', scene.kind)
    BY <2>3, <2>4 DEF InOrder, Streams
  <2>6. \A d \in Conns : conn[d].st = "open" /\ conn[d].ep # e => Calm(conn[d], conn'[d])
    BY <1>3, <1>5 DEF Calm
  <2> QED
    BY <1>1, <2>1, <2>5, <2>6, OneStackOrder
<1>11. CASE ~(dropped \/ TaskOf(stack[e], c) = {})
  <2>1. stack' = ForTask(e, c, "rx", rx)
    BY <1>8, <1>11
  <2>2. ASSUME NEW p \in Ports, stack[e].tcp[p] # Nil, stack[e].tcp[p].owner = c
        PROVE  Stream([t |-> [stack[e].tcp[p] EXCEPT !["rx"] = rx],
                       s |-> stack[e].sockets[stack[e].tcp[p].handle]], conn'[c])
    <3>1. ASSUME NEW t \in TaskOf(stack[e], c) PROVE t = stack[e].tcp[p]
      <4>1. PICK k \in Kinds, q \in Ports : t = stack[e][k][q] /\ t # Nil /\ t.owner = c
        BY <3>1 DEF TaskOf, Tasks, Kinds
      <4>2. k = "tcp" /\ q = p
        BY <1>7, <2>2, <4>1 DEF InOrder, OneEach, Kinds
      <4> QED
        BY <4>1, <4>2
    <3>2. rx = Append(stack[e].tcp[p].rx, Head(conn[c].chan))
      BY <1>8, <1>11, <3>1
    <3>3. PICK x, y : x = PairAt(stack[e], p) /\ y = [t |-> [x.t EXCEPT !["rx"] = rx], s |-> x.s]
      OBVIOUS
    <3>4. x.t = stack[e].tcp[p] /\ x.s = stack[e].sockets[stack[e].tcp[p].handle]
      BY <3>3 DEF PairAt
    <3>5. Stream(x, conn[c])
      BY <1>7, <2>2, <3>3 DEF InOrder, Streams
    <3>6. Pair(x)
      BY <3>5 DEF Stream
    <3>7. /\ y.t.rx = Append(x.t.rx, Head(conn[c].chan)) /\ y.t.remain = x.t.remain
          /\ y.t.eof = x.t.eof /\ y.s = x.s /\ Pair(y)
      BY <3>2, <3>3, <3>4, <3>6 DEF Pair
    <3>8. Stream(y, l)
      BY <1>1, <1>6, <3>5, <3>7, StreamForward
    <3> QED
      BY <1>5, <3>3, <3>4, <3>8
  <2>3. conn'[c].st = conn[c].st /\ conn'[c].ep = conn[c].ep /\ conn[c].ep = e
    BY <1>1, <1>3, <1>5, <1>6
  <2> QED
    BY <1>1, <1>5, <2>1, <2>2, <2>3, ForTaskOrder
<1> QED
  BY <1>10, <1>11

LEMMA ForwarderEndsOrder == ASSUME IInv, CInv, OInv, NEW c \in Conns, ForwarderEnds(c) PROVE OInv'
<1>1. /\ conn[c].st = "open" /\ conn[c].closed /\ conn[c].chan = <<>> /\ UNCHANGED <<conn, scene>>
      /\ stack' = ForTask(conn[c].ep, c, "eof", TRUE)
  BY DEF ForwarderEnds
<1>2. PICK e \in Endpoints : e = conn[c].ep
  BY <1>1 DEF CInv, ConnOK
<1>3. InOrder(stack[e], e, conn, scene.kind)
  BY DEF OInv
<1>4. ASSUME NEW p \in Ports, stack[e].tcp[p] # Nil, stack[e].tcp[p].owner = c
      PROVE  Stream([t |-> [stack[e].tcp[p] EXCEPT !["eof"] = TRUE],
                     s |-> stack[e].sockets[stack[e].tcp[p].handle]], conn'[c])
  <2>1. PICK x, y : x = PairAt(stack[e], p) /\ y = [t |-> [x.t EXCEPT !["eof"] = TRUE], s |-> x.s]
    OBVIOUS
  <2>2. x.t = stack[e].tcp[p] /\ x.s = stack[e].sockets[stack[e].tcp[p].handle]
    BY <2>1 DEF PairAt
  <2>3. Stream(x, conn[c])
    BY <1>3, <1>4, <2>1 DEF InOrder, Streams
  <2>4. Pair(x)
    BY <2>3 DEF Stream
  <2>5. y.t.rx = x.t.rx /\ y.t.remain = x.t.remain /\ y.t.eof = TRUE /\ y.s = x.s /\ Pair(y)
    BY <2>1, <2>4 DEF Pair
  <2>6. Stream(y, conn[c])
    BY <1>1, <2>3, <2>5, StreamEnd
  <2> QED
    BY <1>1, <2>1, <2>2, <2>6
<1> QED
  BY <1>1, <1>2, <1>4, ForTaskOrder

\* A step of a task that sends nothing, and of a connection on its way.
LEMMA FailedOrder ==
  ASSUME CInv, OInv, NEW c \in Conns, conn' = Failed(c), conn[c].st # "open", UNCHANGED <<stack, scene>>
  PROVE  OInv'
<1>1. PICK r : r = [conn[c] EXCEPT !.st = "failed", !.closed = TRUE]
  OBVIOUS
<1>2. conn' = [conn EXCEPT ![c] = r]
  BY <1>1 DEF Failed
<1>3. Calm(conn[c], r)
  BY <1>1, CalmFacts DEF CInv
<1> QED
  BY <1>2, <1>3, CalmSet, CalmStep

LEMMA TaskletOrder == ASSUME IInv, CInv, OInv, NEW e \in Endpoints, Tasklets(e) PROVE OInv'
<1>1. CASE Drive(e)
  BY <1>1, DriveOrder
<1>2. CASE TimePasses(e)
  BY <1>2, TimePassesOrder
<1>3. CASE WgIn(e)
  <2>1. PICK c, v : conn' = [conn EXCEPT ![c].data = v] /\ UNCHANGED <<stack, scene>>
    BY <1>3 DEF WgIn
  <2>2. ASSUME NEW f \in Conns PROVE Calm(conn[f], conn'[f])
    <3>1. PICK r : r = conn[f] /\ ConnOK(r)
      BY DEF CInv
    <3>2. conn'[f] = r \/ conn'[f] = [r EXCEPT !.data = v]
      BY <2>1, <3>1 DEF CInv
    <3>3. Calm(r, r) /\ Calm(r, [r EXCEPT !.data = v])
      BY <3>1, CalmFacts
    <3> QED
      BY <3>1, <3>2, <3>3
  <2> QED
    BY <2>1, <2>2, CalmStep
<1>4. CASE WgOutFails(e) \/ WgInFails(e) \/ WgTick(e) \/ TimeoutInactive(e)
  <2>1. UNCHANGED <<stack, conn, scene>>
    BY <1>4 DEF WgOutFails, WgInFails, WgTick, TimeoutInactive, Stops
  <2> QED
    BY <2>1, CalmSame, CalmStep
<1>5. CASE Kill(e) \/ DriveFirst(e) \/ DriveEnd(e)
  <2>1. UNCHANGED <<stack, conn, scene>>
    BY <1>5 DEF Kill, DriveFirst, DriveEnd
  <2> QED
    BY <2>1, CalmSame, CalmStep
<1> QED
  BY <1>1, <1>2, <1>3, <1>4, <1>5 DEF Tasklets

LEMMA LookupEndsOrder == ASSUME CInv, OInv, NEW c \in Conns, LookupEnds(c) PROVE OInv'
<1>1. conn[c].st = "looking" /\ UNCHANGED <<stack, scene>>
  BY DEF LookupEnds
<1>2. PICK d \in Conns : \/ conn' = [conn EXCEPT ![c].st = "resolved", ![d].closed = TRUE]
                         \/ conn' = [Failed(c) EXCEPT ![d].closed = TRUE]
  BY DEF LookupEnds
<1>3. ConnOK(conn[c]) /\ DOMAIN conn = Conns /\ conn[c].st # "open"
  BY <1>1 DEF CInv
<1>4. PICK a : ConnOK(a) /\ Calm(conn[c], a) /\ conn' = [[conn EXCEPT ![c] = a] EXCEPT ![d].closed = TRUE]
  <2>1. CASE conn' = [conn EXCEPT ![c].st = "resolved", ![d].closed = TRUE]
    <3>1. ConnOK([conn[c] EXCEPT !.st = "resolved"]) /\ Calm(conn[c], [conn[c] EXCEPT !.st = "resolved"])
      BY <1>1, <1>3, RecFacts, CalmFacts DEF Attaching
    <3> QED
      BY <2>1, <3>1
  <2>2. CASE conn' = [Failed(c) EXCEPT ![d].closed = TRUE]
    <3>1. "failed" \notin Attaching \cup {"open"}
      BY DEF Attaching
    <3>2. /\ ConnOK([conn[c] EXCEPT !.st = "failed", !.closed = TRUE])
          /\ Calm(conn[c], [conn[c] EXCEPT !.st = "failed", !.closed = TRUE])
      BY <1>3, <3>1, RecFacts, CalmFacts
    <3> QED
      BY <2>2, <3>2 DEF Failed
  <2> QED
    BY <1>2, <2>1, <2>2
<1>5. PICK g : g = [conn EXCEPT ![c] = a]
  OBVIOUS
<1>6. DOMAIN g = Conns /\ \A f \in Conns : g[f] = IF f = c THEN a ELSE conn[f]
  BY <1>3, <1>5
<1>7. conn' = [g EXCEPT ![d] = [g[d] EXCEPT !.closed = TRUE]]
  BY <1>4, <1>5
<1>8. ASSUME NEW f \in Conns PROVE Calm(conn[f], conn'[f])
  <2>1. PICK k : k = g[f] /\ ConnOK(k) /\ Calm(conn[f], k)
    BY <1>4, <1>6, CalmFacts DEF CInv
  <2>2. conn'[f] = k \/ conn'[f] = [k EXCEPT !.closed = TRUE]
    BY <1>6, <1>7, <2>1
  <2>3. Calm(k, [k EXCEPT !.closed = TRUE])
    BY <2>1, CalmFacts
  <2> QED
    BY <2>1, <2>2, <2>3, CalmTransitive
<1> QED
  BY <1>1, <1>8, CalmStep

LEMMA ConnectionOrder == ASSUME IInv, CInv, OInv, NEW c \in Conns, Connection(c) PROVE OInv'
<1>1. ConnOK(conn[c]) /\ DOMAIN conn = Conns
  BY DEF CInv
<1>2. ASSUME NEW r, conn' = [conn EXCEPT ![c] = r], Calm(conn[c], r), UNCHANGED <<stack, scene>> PROVE OInv'
  BY <1>2, CalmSet, CalmStep
<1>3. CASE Spawn(c) \/ StartMaking(c)
  <2>1. PICK v : conn' = [conn EXCEPT ![c].st = v] /\ UNCHANGED <<stack, scene>> /\ conn[c].st # "open"
    BY <1>3 DEF Spawn, StartMaking, SetSt
  <2>2. conn' = [conn EXCEPT ![c] = [conn[c] EXCEPT !.st = v]]
    BY <2>1
  <2>3. Calm(conn[c], [conn[c] EXCEPT !.st = v])
    BY <1>1, <2>1, CalmFacts
  <2> QED
    BY <1>2, <2>1, <2>2, <2>3
<1>4. ASSUME NEW e, conn' = [conn EXCEPT ![c].st = "got", ![c].ep = e], conn[c].st # "open",
             UNCHANGED <<stack, scene>>
      PROVE  OInv'
  <2>1. conn' = [conn EXCEPT ![c] = [conn[c] EXCEPT !.st = "got", !.ep = e]]
    BY <1>4
  <2>2. Calm(conn[c], [conn[c] EXCEPT !.st = "got", !.ep = e])
    BY <1>1, <1>4, CalmFacts
  <2> QED
    BY <1>2, <1>4, <2>1, <2>2
<1>5. CASE TakeCached(c)
  <2>1. /\ conn' = [conn EXCEPT ![c].st = "got", ![c].ep = active_conn]
        /\ conn[c].st # "open" /\ UNCHANGED <<stack, scene>>
    BY <1>5 DEF TakeCached
  <2> QED
    BY <1>4, <2>1
<1>6. CASE RemoveInactive(c)
  <2>1. UNCHANGED <<stack, conn, scene>>
    BY <1>6 DEF RemoveInactive
  <2> QED
    BY <2>1, CalmSame, CalmStep
<1>7. CASE Make(c)
  <2>1. conn[c].st # "open" /\ UNCHANGED <<stack, scene>>
    BY <1>7 DEF Make
  <2>2. (\E e : conn' = [conn EXCEPT ![c].st = "got", ![c].ep = e]) \/ conn' = Failed(c)
    BY <1>7 DEF Make
  <2> QED
    BY <1>4, <2>1, <2>2, FailedOrder
<1>8. CASE AttachTimeout(c)
  <2>1. conn[c].st # "open" /\ conn' = Failed(c) /\ UNCHANGED <<stack, scene>>
    BY <1>8 DEF AttachTimeout, Attaching
  <2> QED
    BY <2>1, FailedOrder
<1>9. CASE Lookup(c)
  <2>1. CASE conn' = Failed(c)
    <3>1. conn[c].st = "got" /\ UNCHANGED scene /\ scene.kind[c] = "tcpname"
      BY <1>9 DEF Lookup
    <3>2. conn'[c].st = "failed"
      BY <1>1, <2>1 DEF Failed, ConnOK, Fields
    <3>3. ASSUME NEW d \in Conns, scene.kind[d] = "dns",
                 conn' = [conn EXCEPT ![c].st = "looking", ![d].st = "open", ![d].ep = conn[c].ep,
                                      ![d].chan = << << 1 >> >>, ![d].next = 1]
          PROVE  FALSE
      <4>1. c # d
        BY <3>1, <3>3
      <4>2. conn'[c] = [conn[c] EXCEPT !.st = "looking"]
        BY <1>1, <3>3, <4>1
      <4>3. conn'[c].st = "looking"
        BY <1>1, <4>2 DEF ConnOK, Fields
      <4> QED
        BY <3>2, <4>3
    <3>4. UNCHANGED stack
      BY <1>9, <3>3 DEF Lookup
    <3> QED
      BY <2>1, <3>1, <3>4, FailedOrder
  <2> QED
    BY <1>9, <2>1, LookupOrder
<1>10. CASE OpenConn(c)
  <2>1. CASE conn' = Failed(c)
    <3>1. conn[c].st # "open" /\ UNCHANGED scene
      BY <1>10 DEF OpenConn
    <3>2. conn'[c].st = "failed"
      BY <1>1, <2>1 DEF Failed, ConnOK, Fields
    <3>3. ~SetSt(c, "open")
      BY <1>1, <3>2 DEF SetSt, ConnOK, Fields
    <3>4. UNCHANGED stack
      BY <1>10, <3>3 DEF OpenConn
    <3> QED
      BY <2>1, <3>1, <3>4, FailedOrder
  <2> QED
    BY <1>10, <2>1, OpenConnOrder
<1>11. CASE ClientCloses(c)
  <2>1. conn' = [conn EXCEPT ![c] = [conn[c] EXCEPT !.closed = TRUE]] /\ UNCHANGED <<stack, scene>>
    BY <1>11 DEF ClientCloses
  <2>2. Calm(conn[c], [conn[c] EXCEPT !.closed = TRUE])
    BY <1>1, CalmFacts
  <2> QED
    BY <1>2, <2>1, <2>2
<1> QED
  BY <1>3, <1>5, <1>6, <1>7, <1>8, <1>9, <1>10, <1>11, LookupEndsOrder, SendOrder, ForwardOrder,
     ForwarderEndsOrder DEF Connection

LEMMA StepO == IInv /\ CInv /\ OInv /\ [Next]_vars => OInv'
<1> SUFFICES ASSUME IInv, CInv, OInv, [Next]_vars PROVE OInv'
  OBVIOUS
<1>1. CASE UNCHANGED vars
  <2>1. UNCHANGED <<stack, conn, scene>>
    BY <1>1 DEF vars
  <2> QED
    BY <2>1, CalmSame, CalmStep
<1> QED
  BY <1>1, TaskletOrder, ConnectionOrder DEF Next

\* In every behaviour, for any connections, ports and slots and however the
\* writes of a client, the forwarder, rounds of smol_drive and the reuse of
\* ports alternate: the bytes a client has sent are in its socket, with its task
\* or in its channel, each once and in order, and the task belongs to it alone.
THEOREM StreamsInOrder == Spec => [](CInv /\ OInv)
<1>1. Init => IInv /\ CInv /\ OInv
  BY InitInv, InitC, InitO
<1>2. IInv /\ CInv /\ OInv /\ [Next]_vars => (IInv /\ CInv /\ OInv)'
  BY StepInv, StepC, StepO
<1> QED
  BY <1>1, <1>2, PTL DEF Spec

\* The bytes that a client sends reach its socket once and in order, and the
\* socket is closed only after all of them (TcpConnTask::try_send): StreamIntact.
THEOREM BytesReachSocket == Spec => []StreamIntact
<1>1. ASSUME IInv, CInv, OInv, NEW c \in Conns, conn[c].st = "open",
             scene.kind[c] \in {"tcp", "tcpname"}, NEW s \in SocketOf(c)
      PROVE  /\ s.out = [i \in 1 .. Len(s.out) |-> i]
             /\ s.st \in FinSent => Len(s.out) = conn[c].next
  <2>1. PICK e \in Endpoints : e = conn[c].ep
    BY <1>1 DEF CInv, ConnOK
  <2>2. PICK h \in Handles : s = stack[e].sockets[h] /\ s # Nil /\ s.owner = c
    BY <1>1, <2>1 DEF SocketOf
  <2>3. StackOK(stack[e]) /\ InOrder(stack[e], e, conn, scene.kind)
    BY <1>1 DEF IInv, OInv
  <2>4. PICK k \in Kinds, p \in Ports : stack[e][k][p] # Nil /\ stack[e][k][p].handle = h
    BY <2>2, <2>3 DEF StackOK, SocketsOK
  <2>5. stack[e][k][p].owner = c
    BY <2>2, <2>3, <2>4 DEF StackOK, TasksOK
  <2>6. k = "tcp"
    BY <1>1, <2>3, <2>4, <2>5 DEF InOrder, Owners, Kinds
  <2>7. PICK x : x = PairAt(stack[e], p) /\ x.s = s /\ Stream(x, conn[c])
    BY <2>2, <2>3, <2>4, <2>5, <2>6 DEF InOrder, Streams, PairAt
  <2>8. PICK m \in 0 .. conn[c].next : conn[c].next \in Nat /\ Flow(x, m) /\ Chunks(conn[c].chan, m, conn[c].next)
    BY <2>7 DEF Stream
  <2>9. PICK n, a \in 0 .. m : /\ s.out = Run(0, n) /\ Rest(x.t.remain, n, a)
                               /\ Chunks(x.t.rx, a, m)
    BY <2>7, <2>8 DEF Flow
  <2>10. n \in Nat /\ a \in Nat /\ m \in Nat
    BY <2>8, <2>9
  <2>11. Len(s.out) = n /\ s.out = [i \in 1 .. Len(s.out) |-> i]
    <3>1. s.out = [i \in 1 .. n |-> i]
      BY <2>9, <2>10 DEF Run
    <3>2. Len(s.out) = n
      BY <2>10, <3>1
    <3> QED
      BY <3>1, <3>2
  <2>12. ASSUME s.st \in FinSent PROVE n = conn[c].next
    <3>1. x.t.eof /\ x.t.rx = <<>> /\ x.t.remain = Nil /\ conn[c].chan = <<>>
      BY <2>7, <2>12 DEF Stream, FinSent
    <3>2. n = a
      BY <2>9, <3>1 DEF Rest
    <3>3. a = m
      BY <2>9, <2>10, <3>1, ChunksOfNothing
    <3>4. m = conn[c].next
      BY <2>8, <2>10, <3>1, ChunksOfNothing
    <3> QED
      BY <3>2, <3>3, <3>4
  <2> QED
    BY <2>11, <2>12
<1>2. IInv /\ CInv /\ OInv => StreamIntact
  BY <1>1 DEF StreamIntact
<1> QED
  BY <1>2, InvariantHolds, StreamsInOrder, PTL
===============================================================================
