--------------------------- MODULE UdpSessionProofs ---------------------------
(***************************************************************************)
(* Proofs about UdpSession for any sources, ports shared between them,     *)
(* rules, channel capacity and number of sessions.  A probe that was       *)
(* cleared is never set again, and only a fresh one is set: so a session   *)
(* whose probe is set is the one its source is mapped to and its port's    *)
(* record points at.                                                       *)
(***************************************************************************)
EXTENDS UdpSession, FiniteSetTheorems, TLAPS

LoopAt == {"test", "recv", "send"}
Record == [cell : Cells, old : BOOLEAN]
Packet == [at : {"lookup", "ask", "send", "submit"}, src : Srcs, dst : Dests]
Session == [phase : {"new", "up", "hole", "shut", "broken", "aborted", "down"},
            src : Srcs, cell : Cells, chan : Seq(Dests),
            loop : LoopAt, done : BOOLEAN]

TypeOK == /\ rec \in [Ports -> Record \cup {None}]
          /\ probe \in [Cells -> BOOLEAN]
          /\ entry \in [Srcs -> Sessions \cup {None}]
          /\ permit \in [Srcs -> [Dests -> {"yes", "no", "unknown"}]]
          /\ main \in Packet \cup {Idle}
          /\ sess \in [Sessions -> Session \cup {Free}]
          /\ leaked \subseteq Dests

\* An entry of the mapping refers to a session of its source, which stays while
\* the packet loop works with it.
EntryInv == /\ \A s \in Srcs : entry[s] # None =>
                 Phase(entry[s]) # "free" /\ sess[entry[s]].src = s
            /\ main.at \in {"ask", "send", "submit"} => entry[main.src] # None

\* A session whose probe is set is mapped, and its probe is its port's.
AliveInv == \A i \in Sessions : Phase(i) # "free" /\ Alive(i) =>
               /\ entry[sess[i].src] = i
               /\ rec[Port[sess[i].src]] # None
               /\ rec[Port[sess[i].src]].cell = Cell(i)

\* What is in a channel, or about to be sent, was permitted; the packet that
\* creates a session is looked at by the dispatcher before its tasks exist.
Good(d) == Policy[d] # "reject"
PermitInv == /\ \A s \in Srcs, d \in Dests : permit[s][d] = "yes" => Good(d)
             /\ main.at = "send" => Good(main.dst)
SubmitInv ==
  /\ main.at = "submit" => /\ Phase(entry[main.src]) = "new"
                           /\ sess[entry[main.src]].chan = <<main.dst>>
  /\ \A i \in Sessions : Phase(i) = "new" =>
       main.at = "submit" /\ entry[main.src] = i
ChanInv == \A i \in Sessions : Phase(i) \notin {"free", "new"} =>
              \A n \in 1 .. Len(sess[i].chan) : Good(sess[i].chan[n])

IInv == /\ TypeOK /\ EntryInv /\ AliveInv /\ PermitInv /\ SubmitInv /\ ChanInv
        /\ RejectedNeverRelayed

-------------------------------------------------------------------------------
(* Probes, sessions and their types.                                         *)

LEMMA CellsAreNumbers ==
  /\ Cardinality(Sessions) \in Nat /\ Cardinality(Ports) \in Nat
  /\ Cells \in SUBSET Nat
  /\ IsFiniteSet(Cells)
  /\ Cardinality(Cells) = Cardinality(Sessions) + Cardinality(Ports) + 1
<1>1. PICK n, m : n = Cardinality(Sessions) /\ m = Cardinality(Ports)
  OBVIOUS
<1>2. n \in Nat /\ m \in Nat
  BY <1>1, USAssumption, FS_CardinalityType
<1>3. n + m + 1 \in Int /\ 1 \in Int /\ ~(1 > n + m + 1) /\ n + m + 1 - 1 + 1 = n + m + 1
  BY <1>2
<1>4. /\ IsFiniteSet(1 .. n + m + 1)
      /\ Cardinality(1 .. n + m + 1) = n + m + 1
  BY <1>3, FS_Interval
<1> QED
  BY <1>1, <1>2, <1>4 DEF Cells

LEMMA NoneIsNoRecord ==
  ASSUME NEW r \in Record PROVE r # None
<1>1. r \in [cell : Nat, old : BOOLEAN]
  BY CellsAreNumbers DEF Record
<1> QED
  BY <1>1, USAssumption

LEMMA PortsAndPolicies ==
  /\ \A s \in Srcs : Port[s] \in Ports
  /\ \A d \in Dests : Policy[d] \in {"proxy", "reject", "blackhole"}
  BY USAssumption DEF Ports, Dests, Range

\* A session is free, or has all the fields of one.
LEMMA SessionType ==
  ASSUME TypeOK, NEW i \in Sessions
  PROVE  /\ Free.phase = "free" /\ Free \notin Session
         /\ sess[i] = Free <=> Phase(i) = "free"
         /\ Phase(i) # "free" => sess[i] \in Session
<1>1. Free.phase = "free"
  BY DEF Free
<1>2. \A r \in Session : r.phase # "free"
  BY DEF Session
<1>3. sess[i] = Free \/ sess[i] \in Session
  BY DEF TypeOK
<1> QED
  BY <1>1, <1>2, <1>3 DEF Phase

LEMMA MainType ==
  ASSUME TypeOK
  PROVE  main.at # "idle" => main \in Packet /\ main.src \in Srcs /\ main.dst \in Dests
  BY DEF TypeOK, Packet, Idle

\* The Arcs that records and sessions hold are fewer than the cells.
LEMMA FreeCellIsFree ==
  ASSUME TypeOK PROVE FreeCell \in Cells /\ ~InUse(FreeCell)
<1> DEFINE P == {p \in Ports : rec[p] # None}
           S == {i \in Sessions : Phase(i) # "free"}
           f == [p \in P |-> rec[p].cell]
           g == [i \in S |-> sess[i].cell]
           KP == {k \in Cells : \E p \in P : f[p] = k}
           KS == {k \in Cells : \E i \in S : g[i] = k}
<1>1. /\ IsFiniteSet(P) /\ Cardinality(P) <= Cardinality(Ports)
      /\ IsFiniteSet(S) /\ Cardinality(S) <= Cardinality(Sessions)
  <2>1. P \in SUBSET Ports /\ S \in SUBSET Sessions
    OBVIOUS
  <2> HIDE DEF P, S
  <2> QED
    BY <2>1, USAssumption, FS_Subset
<1>2. f \in Surjection(P, KP)
  <2>1. \A p \in P : f[p] \in KP
    BY DEF TypeOK, Record
  <2>2. f \in [P -> KP]
    BY <2>1
  <2>3. \A k \in KP : \E p \in P : f[p] = k
    OBVIOUS
  <2> QED
    BY <2>2, <2>3 DEF Surjection
<1>3. g \in Surjection(S, KS)
  <2>1. \A i \in S : g[i] \in KS
    BY SessionType DEF Session
  <2>2. g \in [S -> KS]
    BY <2>1
  <2>3. \A k \in KS : \E i \in S : g[i] = k
    OBVIOUS
  <2> QED
    BY <2>2, <2>3 DEF Surjection
<1>4. ASSUME NEW k \in Cells, InUse(k) PROVE k \in KP \cup KS
  <2>1. CASE \E p \in Ports : rec[p] # None /\ rec[p].cell = k
    BY <2>1
  <2>2. CASE \E i \in Sessions : Phase(i) # "free" /\ sess[i].cell = k
    BY <2>2
  <2> QED
    BY <1>4, <2>1, <2>2 DEF InUse, Phase
<1> HIDE DEF P, S, f, g, KP, KS
<1>5. /\ IsFiniteSet(KP) /\ Cardinality(KP) <= Cardinality(P)
      /\ IsFiniteSet(KS) /\ Cardinality(KS) <= Cardinality(S)
  BY <1>1, <1>2, <1>3, FS_Surjection
<1>6. /\ IsFiniteSet(KP \cup KS)
      /\ Cardinality(KP \cup KS)
           = Cardinality(KP) + Cardinality(KS) - Cardinality(KP \cap KS)
  BY <1>5, FS_Union
<1>7. IsFiniteSet(KP \cap KS)
  <2>1. KP \cap KS \in SUBSET KP
    OBVIOUS
  <2> QED
    BY <1>5, <2>1, FS_Subset
<1>8. Cardinality(KP \cup KS) < Cardinality(Cells)
  <2>1. PICK x, y, z, u, v : /\ x = Cardinality(KP) /\ y = Cardinality(KS)
                             /\ z = Cardinality(KP \cap KS)
                             /\ u = Cardinality(P) /\ v = Cardinality(S)
    OBVIOUS
  <2>2. x \in Nat /\ y \in Nat /\ z \in Nat /\ u \in Nat /\ v \in Nat
    BY <1>1, <1>5, <1>7, <2>1, FS_CardinalityType
  <2>3. PICK n, m : n = Cardinality(Sessions) /\ m = Cardinality(Ports)
    OBVIOUS
  <2>4. n \in Nat /\ m \in Nat /\ x <= u /\ y <= v /\ u <= m /\ v <= n
    BY <1>1, <1>5, <2>1, <2>3, CellsAreNumbers
  <2>5. x + y - z < n + m + 1
    BY <2>2, <2>4
  <2> QED
    BY <1>6, <2>1, <2>3, <2>5, CellsAreNumbers
<1>9. \E k \in Cells : ~InUse(k)
  <2> SUFFICES ASSUME \A k \in Cells : InUse(k) PROVE FALSE
    OBVIOUS
  <2>1. Cells \in SUBSET (KP \cup KS)
    BY <1>4
  <2>2. Cardinality(Cells) <= Cardinality(KP \cup KS)
    BY <1>6, <2>1, FS_Subset
  <2>3. Cardinality(Cells) \in Nat /\ Cardinality(KP \cup KS) \in Nat
    BY <1>6, CellsAreNumbers, FS_CardinalityType
  <2> QED
    BY <1>8, <2>2, <2>3
<1> QED
  BY <1>9 DEF FreeCell

LEMMA InitInv == Init => IInv
<1> SUFFICES ASSUME Init PROVE IInv
  OBVIOUS
<1>1. TypeOK
  BY DEF Init, TypeOK, NoPermits
<1>2. \A i \in Sessions : Phase(i) = "free"
  BY DEF Init, Phase, Free
<1>3. main.at = "idle"
  BY DEF Init, Idle
<1>4. EntryInv /\ AliveInv /\ SubmitInv /\ ChanInv
  BY <1>2, <1>3 DEF Init, EntryInv, AliveInv, SubmitInv, ChanInv
<1>5. PermitInv
  BY <1>3 DEF Init, PermitInv, NoPermits
<1> QED
  BY <1>1, <1>4, <1>5 DEF IInv, Init, RejectedNeverRelayed

-------------------------------------------------------------------------------
(* Steps that touch one session which is in use.                             *)

TaskStep(i) ==
  /\ Phase(i) \notin {"free", "new"}
  /\ UNCHANGED <<rec, entry, permit, leaked>>
  /\ main' = main \/ (main' = Idle /\ main.at # "submit")
  /\ probe' \in [Cells -> BOOLEAN] /\ \A k \in Cells : probe'[k] => probe[k]
  /\ sess' \in [Sessions -> Session \cup {Free}]
  /\ \A j \in Sessions : j # i => sess'[j] = sess[j]
  /\ \/ sess'[i] = Free /\ ~Mapped(i)
     \/ /\ sess'[i].phase \notin {"free", "new"}
        /\ sess'[i].src = sess[i].src /\ sess'[i].cell = sess[i].cell
        /\ \A n \in 1 .. Len(sess'[i].chan) : Good(sess'[i].chan[n])

LEMMA TaskStepInv ==
  ASSUME IInv, NEW i \in Sessions, TaskStep(i) PROVE IInv'
<1>1. /\ UNCHANGED <<rec, entry, permit, leaked>>
      /\ main' = main \/ (main' = Idle /\ main.at # "submit" /\ main'.at = "idle")
      /\ Phase(i) \notin {"free", "new"}
      /\ \A j \in Sessions : j # i => sess'[j] = sess[j]
  BY DEF TaskStep, Idle
<1>2. TypeOK'
  BY <1>1 DEF IInv, TypeOK, TaskStep
<1>3. \A j \in Sessions : /\ Phase(j)' = "new" <=> Phase(j) = "new"
                          /\ Phase(j) = "new" => j # i
                          /\ Phase(j) = "free" => Phase(j)' = "free"
                          /\ Phase(j)' # "free" =>
                               /\ sess'[j].src = sess[j].src
                               /\ sess'[j].cell = sess[j].cell
                               /\ Phase(j) # "free"
  BY <1>1, SessionType DEF IInv, TaskStep, Phase
<1>4. EntryInv'
  <2>1. ASSUME NEW s \in Srcs, entry[s] # None
        PROVE  Phase(entry[s])' # "free" /\ sess'[entry[s]].src = s
    <3>1. entry[s] \in Sessions /\ Phase(entry[s]) # "free" /\ sess[entry[s]].src = s
      BY <2>1 DEF IInv, TypeOK, EntryInv
    <3>2. CASE entry[s] = i
      BY <3>1, <3>2 DEF TaskStep, Mapped, Phase
    <3>3. CASE entry[s] # i
      BY <1>1, <3>1, <3>3 DEF Phase
    <3> QED
      BY <3>2, <3>3
  <2> QED
    BY <1>1, <2>1 DEF IInv, EntryInv, Phase
<1>5. AliveInv'
  <2> SUFFICES ASSUME NEW j \in Sessions, Phase(j)' # "free", Alive(j)'
               PROVE  /\ entry[sess'[j].src] = j
                      /\ rec[Port[sess'[j].src]] # None
                      /\ rec[Port[sess'[j].src]].cell = sess'[j].cell
    BY <1>1 DEF AliveInv, Cell
  <2>1. sess'[j].src = sess[j].src /\ sess'[j].cell = sess[j].cell /\ Phase(j) # "free"
    BY <1>3
  <2>2. sess[j].cell \in Cells
    BY <2>1, SessionType DEF IInv, Session
  <2>3. Alive(j)
    BY <2>1, <2>2 DEF Alive, Cell, TaskStep
  <2> QED
    BY <2>1, <2>3 DEF IInv, AliveInv, Cell
<1>6. PermitInv'
  BY <1>1 DEF IInv, PermitInv
<1>7. SubmitInv'
  <2>1. ASSUME main.at = "submit"
        PROVE  Phase(entry[main.src])' = "new" /\ sess'[entry[main.src]].chan = <<main.dst>>
    <3>1. entry[main.src] \in Sessions /\ Phase(entry[main.src]) = "new"
      BY <2>1, MainType DEF IInv, TypeOK, EntryInv, SubmitInv
    <3> QED
      BY <1>1, <1>3, <2>1, <3>1 DEF IInv, SubmitInv, Phase
  <2> QED
    BY <1>1, <1>3, <2>1 DEF IInv, SubmitInv
<1>8. ChanInv'
  <2> SUFFICES ASSUME NEW j \in Sessions, Phase(j)' \notin {"free", "new"},
                      NEW n \in 1 .. Len(sess'[j].chan)
               PROVE  Good(sess'[j].chan[n])
    BY DEF ChanInv, Good
  <2>1. CASE j = i
    BY <2>1, SessionType DEF IInv, TaskStep, Phase
  <2>2. CASE j # i
    BY <1>1, <1>3, <2>2 DEF IInv, ChanInv
  <2> QED
    BY <2>1, <2>2
<1> QED
  BY <1>1, <1>2, <1>4, <1>5, <1>6, <1>7, <1>8 DEF IInv, RejectedNeverRelayed

ProbeKept == /\ UNCHANGED <<rec, entry, permit, main, leaked>>
             /\ probe' \in [Cells -> BOOLEAN] /\ \A k \in Cells : probe'[k] => probe[k]

LEMMA EndsAsStep ==
  ASSUME IInv, NEW i \in Sessions, Phase(i) \notin {"free", "new"}, ProbeKept,
         NEW ph \in {"down", "shut"}, NEW fin \in BOOLEAN, EndsAs(i, ph, fin)
  PROVE  IInv'
<1>1. sess[i] \in Session /\ Free \notin Session
  BY SessionType DEF IInv
<1>2. PICK b \in BOOLEAN : b = (sess[i].done \/ fin)
  OBVIOUS
<1>3. PICK r : r = [sess[i] EXCEPT !.phase = ph, !.chan = <<>>, !.loop = "test",
                                   !.done = b]
  OBVIOUS
<1>5. <<>> \in Seq(Dests) /\ Len(<<>>) = 0
  OBVIOUS
<1>6. r \in Session /\ r.phase = ph /\ r.src = sess[i].src /\ r.cell = sess[i].cell
      /\ r.chan = <<>>
  BY <1>1, <1>3, <1>5 DEF Session, LoopAt
<1>7. sess' = [sess EXCEPT ![i] = IF Mapped(i) THEN r ELSE Free]
  <2>1. CASE ~Mapped(i)
    BY <2>1 DEF EndsAs
  <2>2. CASE Mapped(i)
    <3>1. sess' = [sess EXCEPT ![i] = [sess[i] EXCEPT !.phase = ph, !.chan = <<>>,
                                         !.loop = "test", !.done = sess[i].done \/ fin]]
      BY <2>2 DEF EndsAs
    <3> QED
      BY <1>2, <1>3, <2>2, <3>1
  <2> QED
    BY <2>1, <2>2
<1>8. /\ sess' \in [Sessions -> Session \cup {Free}]
      /\ \A j \in Sessions : j # i => sess'[j] = sess[j]
      /\ sess'[i] = IF Mapped(i) THEN r ELSE Free
  BY <1>6, <1>7 DEF IInv, TypeOK
<1>9. TaskStep(i)
  BY <1>5, <1>6, <1>8 DEF TaskStep, ProbeKept
<1> QED
  BY <1>9, TaskStepInv

LEMMA EndsInv ==
  ASSUME IInv, NEW i \in Sessions,
         \/ HoleDrops(i) \/ SeesDead(i) \/ SendFails(i)
         \/ SeesClosed(i) \/ AbortLands(i) \/ StopConn(i)
  PROVE  IInv'
<1>1. Phase(i) \notin {"free", "new"}
  BY DEF HoleDrops, SeesDead, SendFails, SeesClosed, AbortLands, StopConn, Live
<1>2. ProbeKept
  <2>1. CASE SendFails(i)
    <3>1. probe' = [probe EXCEPT ![Cell(i)] = FALSE]
      BY <2>1 DEF SendFails
    <3>2. Cell(i) \in Cells
      BY <1>1, SessionType DEF IInv, Session, Cell
    <3>3. probe' \in [Cells -> BOOLEAN] /\ \A k \in Cells : probe'[k] => probe[k]
      BY <3>1, <3>2, Zenon DEF IInv, TypeOK
    <3> QED
      BY <2>1, <3>3 DEF SendFails, ProbeKept
  <2>2. CASE UNCHANGED probe
    BY <2>2 DEF ProbeKept, IInv, TypeOK, HoleDrops, SeesDead, SendFails, SeesClosed,
                AbortLands, StopConn
  <2> QED
    BY <2>1, <2>2 DEF HoleDrops, SeesDead, SeesClosed, AbortLands, StopConn
<1>3. \E ph \in {"down", "shut"}, fin \in BOOLEAN : EndsAs(i, ph, fin)
  BY DEF HoleDrops, SeesDead, SendFails, SeesClosed, AbortLands, StopConn, Ends
<1> QED
  BY <1>1, <1>2, <1>3, EndsAsStep

\* A step that keeps the session and its place in the mapping.
LEMMA KeepsStep ==
  ASSUME IInv, NEW i \in Sessions, Phase(i) \notin {"free", "new"},
         UNCHANGED <<rec, probe, entry, permit, leaked>>,
         main' = main \/ (main' = Idle /\ main.at # "submit"),
         NEW r \in Session, sess' = [sess EXCEPT ![i] = r], r.phase # "new",
         r.src = sess[i].src, r.cell = sess[i].cell,
         \A n \in 1 .. Len(r.chan) : Good(r.chan[n])
  PROVE  IInv'
<1>1. /\ sess' \in [Sessions -> Session \cup {Free}] /\ sess'[i] = r
      /\ \A j \in Sessions : j # i => sess'[j] = sess[j]
  BY DEF IInv, TypeOK
<1>2. r.phase # "free"
  BY DEF Session
<1>3. probe' \in [Cells -> BOOLEAN]
  BY DEF IInv, TypeOK
<1>4. TaskStep(i)
  BY <1>1, <1>2, <1>3 DEF TaskStep
<1> QED
  BY <1>4, TaskStepInv

LEMMA PollInv ==
  ASSUME IInv, NEW i \in Sessions,
         Poll(i) \/ HandOver(i) \/ OutboundFails(i) \/ OutboundEnds(i)
  PROVE  IInv'
<1>1. Phase(i) \notin {"free", "new"}
  BY DEF Poll, HandOver, OutboundFails, OutboundEnds, Live
<1>2. sess[i] \in Session
  BY <1>1, SessionType DEF IInv
<1>3. \E ph \in {"up", "broken", "aborted"}, b \in LoopAt :
        sess' = [sess EXCEPT ![i] = [sess[i] EXCEPT !.phase = ph, !.loop = b]]
  <2>1. CASE Poll(i) \/ HandOver(i)
    <3>1. PICK b \in LoopAt : sess' = [sess EXCEPT ![i] = [sess[i] EXCEPT !.loop = b]]
      BY <2>1 DEF Poll, HandOver, LoopAt
    <3>2. [sess[i] EXCEPT !.loop = b]
            = [sess[i] EXCEPT !.phase = Phase(i), !.loop = b]
      BY <1>2 DEF Session, Phase
    <3>3. Phase(i) \in {"up", "broken", "aborted"}
      BY <2>1 DEF Poll, HandOver, Live
    <3> QED
      BY <3>1, <3>2, <3>3
  <2>2. ASSUME NEW ph \in {"broken", "aborted"}, SetPhase(i, ph)
        PROVE  \E b \in LoopAt :
                 sess' = [sess EXCEPT ![i] = [sess[i] EXCEPT !.phase = ph, !.loop = b]]
    <3>1. sess[i].loop \in LoopAt
      BY <1>2 DEF Session
    <3>2. [sess[i] EXCEPT !.phase = ph]
            = [sess[i] EXCEPT !.phase = ph, !.loop = sess[i].loop]
      BY <1>2 DEF Session
    <3> QED
      BY <2>2, <3>1, <3>2 DEF SetPhase
  <2> QED
    BY <2>1, <2>2 DEF OutboundFails, OutboundEnds
<1>4. PICK ph \in {"up", "broken", "aborted"}, b \in LoopAt :
        sess' = [sess EXCEPT ![i] = [sess[i] EXCEPT !.phase = ph, !.loop = b]]
  BY <1>3
<1>5. PICK r : r = [sess[i] EXCEPT !.phase = ph, !.loop = b]
  OBVIOUS
<1>6. /\ r \in Session /\ r.phase # "new" /\ r.src = sess[i].src
      /\ r.cell = sess[i].cell /\ r.chan = sess[i].chan
  BY <1>2, <1>5 DEF Session
<1>7. \A n \in 1 .. Len(r.chan) : Good(r.chan[n])
  BY <1>1, <1>6 DEF IInv, ChanInv
<1>8. UNCHANGED <<rec, probe, entry, permit, main, leaked>>
  BY DEF Poll, HandOver, OutboundFails, OutboundEnds
<1> QED
  BY <1>1, <1>4, <1>5, <1>6, <1>7, <1>8, KeepsStep

LEMMA TakeInv ==
  ASSUME IInv, NEW i \in Sessions, Take(i) PROVE IInv'
<1>1. Live(i) /\ Phase(i) \notin {"free", "new"} /\ sess[i] \in Session /\ sess[i].chan # <<>>
  BY SessionType DEF IInv, Take, Live
<1>2. PICK q \in Seq(Dests) : q = sess[i].chan
  BY <1>1 DEF Session
<1>3. /\ Len(q) > 0 /\ Head(q) = q[1] /\ Tail(q) \in Seq(Dests)
      /\ Len(Tail(q)) = Len(q) - 1
      /\ \A n \in 1 .. Len(Tail(q)) : Tail(q)[n] = q[n + 1] /\ n + 1 \in 1 .. Len(q)
  BY <1>1, <1>2
<1>4. \A n \in 1 .. Len(q) : Good(q[n])
  BY <1>1, <1>2 DEF IInv, ChanInv
<1>5. UNCHANGED leaked
  <2>1. Good(Head(q))
    BY <1>3, <1>4
  <2> QED
    BY <1>2, <2>1 DEF Take, Rejected, Good
<1>6. PICK r : r = [sess[i] EXCEPT !.chan = Tail(q), !.loop = "send"]
  OBVIOUS
<1>7. /\ r \in Session /\ r.phase # "new" /\ r.src = sess[i].src
      /\ r.cell = sess[i].cell /\ r.chan = Tail(q)
  BY <1>1, <1>3, <1>6 DEF Session, Phase, LoopAt
<1>8. sess' = [sess EXCEPT ![i] = r]
  <2>1. sess' = [sess EXCEPT ![i].chan = Tail(q), ![i].loop = "send"]
    BY <1>2 DEF Take
  <2> QED
    BY <1>6, <2>1 DEF IInv, TypeOK
<1>9. \A n \in 1 .. Len(r.chan) : Good(r.chan[n])
  BY <1>3, <1>4, <1>7
<1> QED
  BY <1>1, <1>5, <1>7, <1>8, <1>9, KeepsStep DEF Take

-------------------------------------------------------------------------------
(* SessionManager: Expire and Flush.                                         *)

LEMMA RecordStep ==
  ASSUME IInv, UNCHANGED <<entry, permit, main, sess, leaked>>,
         rec' \in [Ports -> Record \cup {None}], probe' \in [Cells -> BOOLEAN],
         \A i \in Sessions : Phase(i) # "free" /\ probe'[Cell(i)] =>
            Alive(i) /\ rec'[Port[sess[i].src]] # None
              /\ rec'[Port[sess[i].src]].cell = Cell(i)
  PROVE  IInv'
<1>1. TypeOK'
  BY DEF IInv, TypeOK
<1>2. EntryInv' /\ SubmitInv' /\ ChanInv'
  BY DEF IInv, EntryInv, SubmitInv, ChanInv, Phase
<1>3. PermitInv'
  BY DEF IInv, PermitInv
<1>4. AliveInv'
  BY DEF IInv, AliveInv, Alive, Phase, Cell
<1> QED
  BY <1>1, <1>2, <1>3, <1>4 DEF IInv, RejectedNeverRelayed

LEMMA ExpireInv ==
  ASSUME IInv, NEW p \in Ports, Expire(p) PROVE IInv'
<1>1. rec[p] \in Record /\ rec[p] # None
  BY DEF IInv, TypeOK, Expire
<1>2. PICK r : r = [rec[p] EXCEPT !.old = TRUE]
  OBVIOUS
<1>3. r \in Record /\ r.cell = rec[p].cell
  BY <1>1, <1>2 DEF Record
<1>4. r # None
  BY <1>3, NoneIsNoRecord
<1>5. rec' = [rec EXCEPT ![p] = r]
  BY <1>2 DEF Expire
<1>6. /\ rec' \in [Ports -> Record \cup {None}] /\ rec'[p] = r
      /\ \A q \in Ports : q # p => rec'[q] = rec[q]
  BY <1>3, <1>5 DEF IInv, TypeOK
<1>7. \A q \in Ports : rec[q] # None => rec'[q] # None /\ rec'[q].cell = rec[q].cell
  BY <1>3, <1>4, <1>6
<1>8. UNCHANGED <<probe, entry, permit, main, sess, leaked>>
  BY DEF Expire
<1>9. \A i \in Sessions : Phase(i) # "free" /\ probe'[Cell(i)] =>
         Alive(i) /\ rec'[Port[sess[i].src]] # None
           /\ rec'[Port[sess[i].src]].cell = Cell(i)
  <2> SUFFICES ASSUME NEW i \in Sessions, Phase(i) # "free", probe'[Cell(i)]
               PROVE  Alive(i) /\ rec'[Port[sess[i].src]] # None
                        /\ rec'[Port[sess[i].src]].cell = Cell(i)
    OBVIOUS
  <2>1. Alive(i)
    BY <1>8 DEF Alive
  <2>2. Port[sess[i].src] \in Ports
    BY SessionType, PortsAndPolicies DEF IInv, Session
  <2> QED
    BY <1>7, <2>1, <2>2 DEF IInv, AliveInv
<1>10. probe' \in [Cells -> BOOLEAN]
  BY <1>8 DEF IInv, TypeOK
<1> QED
  BY <1>6, <1>8, <1>9, <1>10, RecordStep

LEMMA FlushInv ==
  ASSUME IInv, Flush PROVE IInv'
<1>1. rec' \in [Ports -> Record \cup {None}]
  BY DEF Flush, IInv, TypeOK
<1>2. \A k \in Cells : probe'[k] <=> probe[k] /\ ~Invalidated(k)
  BY Zenon DEF Flush
<1>3. probe' \in [Cells -> BOOLEAN]
  BY Zenon DEF Flush
<1>4. ASSUME NEW i \in Sessions, Phase(i) # "free", probe'[Cell(i)]
      PROVE  Alive(i) /\ rec'[Port[sess[i].src]] # None
               /\ rec'[Port[sess[i].src]].cell = Cell(i)
  <2>1. Cell(i) \in Cells /\ Port[sess[i].src] \in Ports
    BY <1>4, SessionType, PortsAndPolicies DEF IInv, Session, Cell
  <2>2. Alive(i) /\ ~Invalidated(Cell(i))
    BY <1>2, <1>4, <2>1 DEF Alive
  <2>3. PICK p \in Ports : p = Port[sess[i].src]
    BY <2>1
  <2>4. rec[p] # None /\ rec[p].cell = Cell(i)
    BY <1>4, <2>2, <2>3 DEF IInv, AliveInv
  <2>5. ~rec[p].old
    BY <2>2, <2>4 DEF Invalidated
  <2>6. rec'[p] = rec[p]
    BY <2>5 DEF Flush
  <2> QED
    BY <2>2, <2>3, <2>4, <2>6
<1> QED
  BY <1>1, <1>3, <1>4, RecordStep DEF Flush

-------------------------------------------------------------------------------
(* TunUdpInbound: the packet loop.                                           *)

\* A step of the loop that touches no session.
LEMMA LoopStep ==
  ASSUME IInv, UNCHANGED <<rec, probe, entry, sess, leaked>>, main.at # "submit",
         permit' \in [Srcs -> [Dests -> {"yes", "no", "unknown"}]],
         main' \in Packet \cup {Idle}, main'.at # "submit",
         main'.at \in {"ask", "send"} => entry[main'.src] # None,
         \A s \in Srcs, d \in Dests : permit'[s][d] = "yes" => Good(d),
         main'.at = "send" => Good(main'.dst)
  PROVE  IInv'
<1>1. TypeOK'
  BY DEF IInv, TypeOK
<1>2. EntryInv' /\ ChanInv'
  BY DEF IInv, EntryInv, ChanInv, Phase
<1>3. PermitInv'
  BY DEF IInv, PermitInv, Good
<1>4. AliveInv'
  BY DEF IInv, AliveInv, Alive, Phase, Cell
<1>5. SubmitInv'
  BY DEF IInv, SubmitInv, Phase
<1> QED
  BY <1>1, <1>2, <1>3, <1>4, <1>5 DEF IInv, RejectedNeverRelayed

LEMMA RecvInv ==
  ASSUME IInv, NEW s \in Srcs, NEW d \in Dests, Recv(s, d) PROVE IInv'
<1>1. main' \in Packet /\ main'.at = "lookup"
  BY DEF Recv, Packet
<1>2. main.at = "idle"
  BY DEF Recv, Idle
<1>3. /\ permit' \in [Srcs -> [Dests -> {"yes", "no", "unknown"}]]
      /\ \A t \in Srcs, e \in Dests : permit'[t][e] = "yes" => Good(e)
  BY DEF Recv, IInv, TypeOK, PermitInv
<1> QED
  BY <1>1, <1>2, <1>3, LoopStep DEF Recv

LEMMA UseEntryInv ==
  ASSUME IInv, UseEntry PROVE IInv'
<1>1. main.at = "lookup" /\ main \in Packet /\ main.src \in Srcs /\ main.dst \in Dests
  BY MainType DEF UseEntry, IInv
<1>2. entry[main.src] # None /\ UNCHANGED <<rec, probe, entry, permit, sess, leaked>>
  BY DEF UseEntry
<1>3. permit[main.src][main.dst] \in {"yes", "no", "unknown"}
  BY <1>1 DEF IInv, TypeOK
<1>4. \/ permit[main.src][main.dst] = "unknown" /\ main' = [main EXCEPT !.at = "ask"]
      \/ permit[main.src][main.dst] = "yes" /\ main' = [main EXCEPT !.at = "send"]
      \/ main' = Idle
  BY <1>3 DEF UseEntry
<1>5. \/ main' \in Packet /\ main'.at = "ask" /\ main'.src = main.src
      \/ main' \in Packet /\ main'.at = "send" /\ main'.src = main.src
           /\ main'.dst = main.dst /\ permit[main.src][main.dst] = "yes"
      \/ main' = Idle
  BY <1>1, <1>4 DEF Packet
<1>6. Idle.at = "idle"
  BY DEF Idle
<1>7. permit[main.src][main.dst] = "yes" => Good(main.dst)
  BY <1>1 DEF IInv, PermitInv
<1>8. /\ permit' \in [Srcs -> [Dests -> {"yes", "no", "unknown"}]]
      /\ \A t \in Srcs, e \in Dests : permit'[t][e] = "yes" => Good(e)
  BY <1>2 DEF IInv, TypeOK, PermitInv
<1> QED
  BY <1>1, <1>2, <1>5, <1>6, <1>7, <1>8, LoopStep

LEMMA AskInv ==
  ASSUME IInv, Ask PROVE IInv'
<1>1. /\ main.at = "ask" /\ main \in Packet /\ main.src \in Srcs /\ main.dst \in Dests
      /\ entry[main.src] # None
  BY MainType DEF Ask, IInv, EntryInv
<1>2. PICK s \in Srcs, d \in Dests : s = main.src /\ d = main.dst
  BY <1>1
<1>3. PICK a \in {"yes", "no"} : a = IF Permits(d) THEN "yes" ELSE "no"
  OBVIOUS
<1>4. a = "yes" => Good(d)
  BY <1>3 DEF Permits, Good
<1>5. permit' = [permit EXCEPT ![s][d] = a]
  BY <1>2, <1>3 DEF Ask
<1>6. /\ permit' \in [Srcs -> [Dests -> {"yes", "no", "unknown"}]]
      /\ \A t \in Srcs, e \in Dests :
           permit'[t][e] = permit[t][e] \/ (e = d /\ permit'[t][e] = a)
  BY <1>5 DEF IInv, TypeOK
<1>7. \A t \in Srcs, e \in Dests : permit'[t][e] = "yes" => Good(e)
  BY <1>4, <1>6 DEF IInv, PermitInv
<1>8. \/ a = "yes" /\ main' = [main EXCEPT !.at = "send"]
      \/ main' = Idle
  BY <1>2, <1>3 DEF Ask
<1>9. \/ a = "yes" /\ main' \in Packet /\ main'.at = "send" /\ main'.src = s /\ main'.dst = d
      \/ main' = Idle
  BY <1>1, <1>2, <1>8 DEF Packet
<1>10. Idle.at = "idle"
  BY DEF Idle
<1>11. UNCHANGED <<rec, probe, entry, sess, leaked>>
  BY DEF Ask
<1> QED
  BY <1>1, <1>2, <1>4, <1>6, <1>7, <1>9, <1>10, <1>11, LoopStep

LEMMA SendInv ==
  ASSUME IInv, Send PROVE IInv'
<1>1. /\ main.at = "send" /\ main.src \in Srcs /\ main.dst \in Dests
      /\ Good(main.dst) /\ main' = Idle /\ Idle.at = "idle"
      /\ UNCHANGED <<rec, probe, entry, permit, leaked>>
  BY MainType DEF Send, IInv, PermitInv, Idle
<1>2. PICK i \in Sessions : i = entry[main.src]
  BY <1>1 DEF IInv, TypeOK, EntryInv
<1>3. CASE sess' = sess
  <2>1. /\ permit' \in [Srcs -> [Dests -> {"yes", "no", "unknown"}]]
        /\ \A t \in Srcs, e \in Dests : permit'[t][e] = "yes" => Good(e)
    BY <1>1 DEF IInv, TypeOK, PermitInv
  <2> QED
    BY <1>1, <1>3, <2>1, LoopStep
<1>4. CASE Receiving(i) /\ sess' = [sess EXCEPT ![i].chan = Append(@, main.dst)]
  <2>1. Phase(i) \notin {"free", "new"}
    BY <1>4 DEF Receiving
  <2>2. sess[i] \in Session
    BY <2>1, SessionType DEF IInv
  <2>3. PICK q \in Seq(Dests) : q = sess[i].chan
    BY <2>2 DEF Session
  <2>4. PICK d \in Dests : d = main.dst
    BY <1>1
  <2>5. /\ Append(q, d) \in Seq(Dests)
        /\ \A n \in 1 .. Len(Append(q, d)) :
             \/ n \in 1 .. Len(q) /\ Append(q, d)[n] = q[n]
             \/ Append(q, d)[n] = d
    OBVIOUS
  <2>6. PICK r : r = [sess[i] EXCEPT !.chan = Append(q, d)]
    OBVIOUS
  <2>7. /\ r \in Session /\ r.phase # "new" /\ r.src = sess[i].src
        /\ r.cell = sess[i].cell /\ r.chan = Append(q, d)
    BY <2>1, <2>2, <2>5, <2>6 DEF Session, Phase
  <2>8. sess' = [sess EXCEPT ![i] = r]
    BY <1>4, <2>3, <2>4, <2>6
  <2>9. \A n \in 1 .. Len(q) : Good(q[n])
    BY <2>1, <2>3 DEF IInv, ChanInv
  <2>10. \A n \in 1 .. Len(r.chan) : Good(r.chan[n])
    BY <1>1, <2>4, <2>5, <2>7, <2>9
  <2> QED
    BY <1>1, <2>1, <2>7, <2>8, <2>10, KeepsStep
<1> QED
  BY <1>2, <1>3, <1>4 DEF Send

LEMMA RemoveEntryInv ==
  ASSUME IInv, RemoveEntry PROVE IInv'
<1>1. main.at = "lookup" /\ main.src \in Srcs
  BY MainType DEF RemoveEntry, IInv
<1>2. PICK s \in Srcs, i \in Sessions : s = main.src /\ i = entry[s]
  BY <1>1 DEF RemoveEntry, IInv, TypeOK
<1>3. i # None /\ Phase(i) # "free" /\ sess[i].src = s /\ ~Alive(i)
  BY <1>2, USAssumption DEF RemoveEntry, EntryDead, IInv, EntryInv
<1>4. /\ entry' = [entry EXCEPT ![s] = None] /\ permit' = [permit EXCEPT ![s] = NoPermits]
      /\ UNCHANGED <<rec, probe, main, leaked>>
      /\ sess' \in {sess, [sess EXCEPT ![i] = Free]}
  BY <1>2 DEF RemoveEntry, IInv, TypeOK
<1>5. TypeOK'
  BY <1>4 DEF IInv, TypeOK, NoPermits
<1>6. /\ \A t \in Srcs : t # s => entry'[t] = entry[t]
      /\ entry'[s] = None
      /\ \A j \in Sessions : j # i => sess'[j] = sess[j]
      /\ sess'[i] = sess[i] \/ sess'[i] = Free
  BY <1>4 DEF IInv, TypeOK
<1>7. \A j \in Sessions : Phase(j)' # "free" => sess'[j] = sess[j] /\ Phase(j) # "free"
  BY <1>3, <1>6, SessionType DEF IInv, Phase
<1>8. EntryInv'
  <2>1. ASSUME NEW t \in Srcs, entry'[t] # None
        PROVE  sess'[entry'[t]].phase # "free" /\ sess'[entry'[t]].src = t
    <3>1. t # s /\ entry'[t] = entry[t]
      BY <1>6, <2>1
    <3>2. entry[t] \in Sessions /\ Phase(entry[t]) # "free" /\ sess[entry[t]].src = t
      BY <2>1, <3>1 DEF IInv, TypeOK, EntryInv
    <3>3. entry[t] # i
      BY <1>3, <3>1, <3>2
    <3> QED
      BY <1>6, <3>1, <3>2, <3>3 DEF Phase
  <2> QED
    BY <1>1, <1>4, <2>1 DEF EntryInv, Phase
<1>9. AliveInv'
  <2> SUFFICES ASSUME NEW j \in Sessions, Phase(j)' # "free", Alive(j)'
               PROVE  /\ entry'[sess'[j].src] = j
                      /\ rec'[Port[sess'[j].src]] # None
                      /\ rec'[Port[sess'[j].src]].cell = sess'[j].cell
    BY DEF AliveInv, Cell
  <2>1. sess'[j] = sess[j] /\ Phase(j) # "free"
    BY <1>7
  <2>2. Alive(j)
    BY <1>4, <2>1 DEF Alive, Cell
  <2>3. j # i /\ sess[j].src \in Srcs
    BY <1>3, <2>1, <2>2, SessionType DEF IInv, Session
  <2>4. entry[sess[j].src] = j
    BY <2>1, <2>2 DEF IInv, AliveInv
  <2>5. sess[j].src # s
    BY <1>2, <2>3, <2>4
  <2> QED
    BY <1>4, <1>6, <2>1, <2>2, <2>3, <2>4, <2>5 DEF IInv, AliveInv, Cell
<1>10. PermitInv'
  <2>1. \A t \in Srcs, e \in Dests : permit'[t][e] \in {permit[t][e], "unknown"}
    BY <1>4 DEF IInv, TypeOK, NoPermits
  <2> QED
    BY <1>1, <1>4, <2>1 DEF IInv, PermitInv
<1>11. SubmitInv'
  <2>1. \A j \in Sessions : Phase(j)' # "new"
    BY <1>1, <1>7 DEF IInv, SubmitInv, Phase
  <2> QED
    BY <1>1, <1>4, <2>1 DEF SubmitInv
<1>12. ChanInv'
  BY <1>7 DEF IInv, ChanInv, Phase
<1> QED
  BY <1>4, <1>5, <1>8, <1>9, <1>10, <1>11, <1>12 DEF IInv, RejectedNeverRelayed

\* get_udp_probe returns the probe of the port's record, making one if needed.
Probed(p, k) ==
  /\ rec' \in [Ports -> Record \cup {None}] /\ probe' \in [Cells -> BOOLEAN]
  /\ k \in Cells /\ rec'[p] # None /\ rec'[p].cell = k
  /\ \A q \in Ports : rec[q] # None => rec'[q] = rec[q]
  /\ \A j \in Cells : InUse(j) => probe'[j] = probe[j]

LEMMA GetUdpProbeFacts ==
  ASSUME TypeOK, NEW p \in Ports, GetUdpProbe(p) PROVE Probed(p, ProbeCell(p))
<1>1. CASE rec[p] # None
  BY <1>1 DEF TypeOK, Record, Probed, ProbeCell, GetUdpProbe
<1>2. CASE rec[p] = None
  <2>1. PICK k : k = FreeCell
    OBVIOUS
  <2>2. k \in Cells /\ ~InUse(k)
    BY <2>1, FreeCellIsFree
  <2>3. PICK r : r = [cell |-> k, old |-> FALSE]
    OBVIOUS
  <2>4. r \in Record /\ r.cell = k
    BY <2>2, <2>3 DEF Record
  <2>5. r # None
    BY <2>4, NoneIsNoRecord
  <2>6. rec' = [rec EXCEPT ![p] = r] /\ probe' = [probe EXCEPT ![k] = TRUE]
    BY <1>2, <2>1, <2>3 DEF GetUdpProbe
  <2>7. /\ rec' \in [Ports -> Record \cup {None}] /\ rec'[p] = r
        /\ \A q \in Ports : q # p => rec'[q] = rec[q]
    BY <2>4, <2>6 DEF TypeOK
  <2>8. /\ probe' \in [Cells -> BOOLEAN]
        /\ \A j \in Cells : j # k => probe'[j] = probe[j]
    BY <2>2, <2>6 DEF TypeOK
  <2>9. ProbeCell(p) = k
    BY <1>2, <2>1 DEF ProbeCell
  <2> QED
    BY <1>2, <2>2, <2>4, <2>5, <2>7, <2>8, <2>9 DEF Probed
<1> QED
  BY <1>1, <1>2

LEMMA CreateInv ==
  ASSUME IInv, Create PROVE IInv'
<1>1. /\ main.at = "lookup" /\ main \in Packet /\ main.src \in Srcs /\ main.dst \in Dests
      /\ entry[main.src] = None
  BY MainType DEF Create, IInv
<1>2. PICK s \in Srcs, d \in Dests : s = main.src /\ d = main.dst
  BY <1>1
<1>3. PICK i \in Sessions : i = (CHOOSE j \in Sessions : Phase(j) = "free") /\ Phase(i) = "free"
  BY DEF Create
<1>4. PICK p \in Ports : p = Port[s]
  BY PortsAndPolicies
<1>5. PICK k : k = ProbeCell(p)
  OBVIOUS
<1>6. Probed(p, k)
  BY <1>2, <1>4, <1>5, GetUdpProbeFacts DEF Create, IInv
<1>7. PICK r : r = [phase |-> "new", src |-> s, cell |-> k, chan |-> <<d>>,
                    loop |-> "test", done |-> FALSE]
  OBVIOUS
<1>8. /\ r \in Session /\ r.phase = "new" /\ r.src = s /\ r.cell = k /\ r.chan = <<d>>
  <2>1. <<d>> \in Seq(Dests) /\ k \in Cells
    BY <1>6 DEF Probed
  <2> QED
    BY <1>7, <2>1 DEF Session, LoopAt
<1>9. /\ sess' = [sess EXCEPT ![i] = r] /\ entry' = [entry EXCEPT ![s] = i]
      /\ main' = [main EXCEPT !.at = "submit"] /\ UNCHANGED <<permit, leaked>>
  BY <1>2, <1>3, <1>4, <1>5, <1>7 DEF Create
<1>10. main' \in Packet /\ main'.at = "submit" /\ main'.src = s /\ main'.dst = d
  BY <1>1, <1>2, <1>9 DEF Packet
<1>11. /\ sess'[i] = r /\ entry'[s] = i
       /\ \A j \in Sessions : j # i => sess'[j] = sess[j]
       /\ \A t \in Srcs : t # s => entry'[t] = entry[t]
       /\ sess' \in [Sessions -> Session \cup {Free}]
       /\ entry' \in [Srcs -> Sessions \cup {None}]
  BY <1>8, <1>9 DEF IInv, TypeOK
<1>12. TypeOK'
  BY <1>6, <1>9, <1>10, <1>11 DEF IInv, TypeOK, Probed
<1>13. EntryInv'
  <2>1. ASSUME NEW t \in Srcs, entry'[t] # None
        PROVE  sess'[entry'[t]].phase # "free" /\ sess'[entry'[t]].src = t
    <3>1. CASE t = s
      BY <1>8, <1>11, <3>1
    <3>2. CASE t # s
      <4>1. /\ entry'[t] = entry[t] /\ entry[t] \in Sessions
            /\ Phase(entry[t]) # "free" /\ sess[entry[t]].src = t
        BY <1>11, <2>1, <3>2 DEF IInv, TypeOK, EntryInv
      <4>2. entry[t] # i
        BY <1>3, <4>1
      <4> QED
        BY <1>11, <4>1, <4>2 DEF Phase
    <3> QED
      BY <3>1, <3>2
  <2>2. i # None
    BY USAssumption
  <2> QED
    BY <1>10, <1>11, <2>1, <2>2 DEF EntryInv, Phase
<1>14. AliveInv'
  <2> SUFFICES ASSUME NEW j \in Sessions, sess'[j].phase # "free", probe'[sess'[j].cell]
               PROVE  /\ entry'[sess'[j].src] = j
                      /\ rec'[Port[sess'[j].src]] # None
                      /\ rec'[Port[sess'[j].src]].cell = sess'[j].cell
    BY DEF AliveInv, Cell, Alive, Phase
  <2>1. CASE j = i
    BY <1>4, <1>6, <1>8, <1>11, <2>1 DEF Probed
  <2>2. CASE j # i
    <3>1. sess'[j] = sess[j] /\ Phase(j) # "free"
      BY <1>11, <2>2 DEF Phase
    <3>2. sess[j].cell \in Cells /\ sess[j].src \in Srcs /\ InUse(sess[j].cell)
      BY <3>1, SessionType DEF IInv, Session, InUse, Phase
    <3>3. Alive(j)
      BY <1>6, <3>1, <3>2 DEF Probed, Alive, Cell
    <3>4. /\ entry[sess[j].src] = j /\ rec[Port[sess[j].src]] # None
          /\ rec[Port[sess[j].src]].cell = sess[j].cell
      BY <3>1, <3>3 DEF IInv, AliveInv, Cell
    <3>5. sess[j].src # s
      BY <1>1, <1>2, <3>4, USAssumption
    <3>6. rec'[Port[sess[j].src]] = rec[Port[sess[j].src]]
      BY <1>6, <3>2, <3>4, PortsAndPolicies DEF Probed
    <3> QED
      BY <1>11, <3>1, <3>2, <3>4, <3>5, <3>6
  <2> QED
    BY <2>1, <2>2
<1>15. PermitInv'
  BY <1>9, <1>10 DEF IInv, PermitInv
<1>16. SubmitInv'
  <2>1. \A j \in Sessions : j # i => sess'[j].phase # "new"
    BY <1>1, <1>11 DEF IInv, SubmitInv, Phase
  <2> QED
    BY <1>8, <1>10, <1>11, <2>1 DEF SubmitInv, Phase
<1>17. ChanInv'
  <2> SUFFICES ASSUME NEW j \in Sessions, sess'[j].phase \notin {"free", "new"}
               PROVE  \A n \in 1 .. Len(sess'[j].chan) : Good(sess'[j].chan[n])
    BY DEF ChanInv, Phase, Good
  <2>1. sess'[j] = sess[j]
    BY <1>8, <1>11
  <2> QED
    BY <2>1 DEF IInv, ChanInv, Phase
<1> QED
  BY <1>9, <1>12, <1>13, <1>14, <1>15, <1>16, <1>17 DEF IInv, RejectedNeverRelayed

LEMMA SubmitStepInv ==
  ASSUME IInv, Submit PROVE IInv'
<1>1. main.at = "submit" /\ main.src \in Srcs /\ main.dst \in Dests
  BY MainType DEF Submit, IInv
<1>2. PICK s \in Srcs, d \in Dests : s = main.src /\ d = main.dst
  BY <1>1
<1>3. PICK i \in Sessions : i = entry[s]
  BY <1>1, <1>2 DEF IInv, TypeOK, EntryInv
<1>4. Phase(i) = "new" /\ sess[i] \in Session /\ sess[i].chan = <<d>> /\ Cell(i) \in Cells
  <2>1. Phase(i) = "new" /\ sess[i].chan = <<d>>
    BY <1>1, <1>2, <1>3 DEF IInv, SubmitInv
  <2>2. sess[i] \in Session
    BY <2>1, SessionType DEF IInv
  <2> QED
    BY <2>1, <2>2 DEF Session, Cell
<1>5. PICK ph \in {"up", "hole", "shut"} :
        ph = SubmitPhase(d) /\ (ph # "shut" => Good(d))
  BY PortsAndPolicies DEF SubmitPhase, Good
<1>6. PICK q \in Seq(Dests) : q = IF ph = "shut" THEN <<>> ELSE <<d>>
  <2>1. <<>> \in Seq(Dests) /\ <<d>> \in Seq(Dests)
    OBVIOUS
  <2> QED
    BY <2>1, Zenon
<1>7. \A n \in 1 .. Len(q) : Good(q[n])
  BY <1>5, <1>6
<1>8. PICK r : r = [sess[i] EXCEPT !.phase = ph, !.chan = q]
  OBVIOUS
<1>9. /\ r \in Session /\ r.phase = ph /\ r.src = sess[i].src
      /\ r.cell = sess[i].cell /\ r.chan = q
  BY <1>4, <1>8 DEF Session
<1>10. sess' = [sess EXCEPT ![i] = r]
  <2>1. sess' = [sess EXCEPT ![i].phase = ph, ![i].chan = q]
    BY <1>2, <1>3, <1>4, <1>5, <1>6 DEF Submit, IInv, TypeOK, Session
  <2> QED
    BY <1>8, <2>1 DEF IInv, TypeOK
<1>11. /\ sess'[i] = r /\ \A j \in Sessions : j # i => sess'[j] = sess[j]
       /\ sess' \in [Sessions -> Session \cup {Free}]
  BY <1>9, <1>10 DEF IInv, TypeOK
<1>12. probe' \in [Cells -> BOOLEAN] /\ \A k \in Cells : probe'[k] => probe[k]
  <2>1. probe' = [probe EXCEPT ![Cell(i)] = probe[Cell(i)] /\ Policy[d] # "reject"]
    BY <1>2, <1>3, Zenon DEF Submit
  <2> QED
    BY <1>4, <2>1, Zenon DEF IInv, TypeOK
<1>13. main' = Idle /\ main'.at = "idle" /\ UNCHANGED <<rec, entry, permit, leaked>>
  BY DEF Submit, Idle
<1>14. TypeOK'
  BY <1>11, <1>12, <1>13 DEF IInv, TypeOK
<1>15. \A j \in Sessions : /\ sess'[j].phase # "free" <=> Phase(j) # "free"
                           /\ Phase(j) # "free" => /\ sess'[j].src = sess[j].src
                                                  /\ sess'[j].cell = sess[j].cell
  BY <1>4, <1>9, <1>11 DEF Phase
<1>16. EntryInv'
  <2>1. \A t \in Srcs : entry[t] # None =>
          entry[t] \in Sessions /\ Phase(entry[t]) # "free" /\ sess[entry[t]].src = t
    BY DEF IInv, TypeOK, EntryInv
  <2> QED
    BY <1>13, <1>15, <2>1 DEF EntryInv, Phase
<1>17. AliveInv'
  <2> SUFFICES ASSUME NEW j \in Sessions, sess'[j].phase # "free", probe'[sess'[j].cell]
               PROVE  /\ entry[sess'[j].src] = j
                      /\ rec[Port[sess'[j].src]] # None
                      /\ rec[Port[sess'[j].src]].cell = sess'[j].cell
    BY <1>13 DEF AliveInv, Cell, Alive, Phase
  <2>1. Phase(j) # "free" /\ sess'[j].src = sess[j].src /\ sess'[j].cell = sess[j].cell
    BY <1>15
  <2>2. sess[j].cell \in Cells
    BY <2>1, SessionType DEF IInv, Session
  <2>3. Alive(j)
    BY <1>12, <2>1, <2>2 DEF Alive, Cell
  <2> QED
    BY <2>1, <2>3 DEF IInv, AliveInv, Cell
<1>18. PermitInv'
  BY <1>13 DEF IInv, PermitInv
<1>19. SubmitInv'
  <2>1. \A j \in Sessions : sess'[j].phase # "new"
    BY <1>2, <1>3, <1>9, <1>11 DEF IInv, SubmitInv, Phase
  <2> QED
    BY <1>13, <2>1 DEF SubmitInv, Phase
<1>20. ChanInv'
  <2> SUFFICES ASSUME NEW j \in Sessions, sess'[j].phase \notin {"free", "new"}
               PROVE  \A n \in 1 .. Len(sess'[j].chan) : Good(sess'[j].chan[n])
    BY DEF ChanInv, Phase, Good
  <2>1. CASE j = i
    BY <1>7, <1>9, <1>11, <2>1
  <2>2. CASE j # i
    BY <1>11, <2>2 DEF IInv, ChanInv, Phase
  <2> QED
    BY <2>1, <2>2
<1> QED
  BY <1>13, <1>14, <1>16, <1>17, <1>18, <1>19, <1>20 DEF IInv, RejectedNeverRelayed

-------------------------------------------------------------------------------

LEMMA StepInv == IInv /\ [Next]_vars => IInv'
<1> SUFFICES ASSUME IInv, [Next]_vars PROVE IInv'
  OBVIOUS
<1>1. CASE Flush
  BY <1>1, FlushInv
<1>2. ASSUME NEW p \in Ports, Expire(p) PROVE IInv'
  BY <1>2, ExpireInv
<1>3. ASSUME NEW s \in Srcs, NEW d \in Dests, Recv(s, d) PROVE IInv'
  BY <1>3, RecvInv
<1>4. CASE RemoveEntry
  BY <1>4, RemoveEntryInv
<1>5. CASE UseEntry
  BY <1>5, UseEntryInv
<1>6. CASE Ask
  BY <1>6, AskInv
<1>7. CASE Send
  BY <1>7, SendInv
<1>8. CASE Create
  BY <1>8, CreateInv
<1>9. CASE Submit
  BY <1>9, SubmitStepInv
<1>10. ASSUME NEW i \in Sessions,
              \/ HoleDrops(i) \/ SeesDead(i) \/ SendFails(i)
              \/ SeesClosed(i) \/ AbortLands(i) \/ StopConn(i)
       PROVE  IInv'
  BY <1>10, EndsInv
<1>11. ASSUME NEW i \in Sessions,
              Poll(i) \/ HandOver(i) \/ OutboundFails(i) \/ OutboundEnds(i)
       PROVE  IInv'
  BY <1>11, PollInv
<1>12. ASSUME NEW i \in Sessions, Take(i) PROVE IInv'
  BY <1>12, TakeInv
<1>13. CASE UNCHANGED vars
  <2>1. UNCHANGED <<rec, probe, entry, permit, main, sess, leaked>>
    BY <1>13 DEF vars
  <2>2. TypeOK'
    BY <2>1 DEF IInv, TypeOK
  <2>3. EntryInv' /\ AliveInv' /\ PermitInv' /\ SubmitInv' /\ ChanInv'
    BY <2>1 DEF IInv, EntryInv, AliveInv, PermitInv, SubmitInv, ChanInv, Phase,
                Alive, Cell
  <2> QED
    BY <2>1, <2>2, <2>3 DEF IInv, RejectedNeverRelayed
<1> QED
  BY <1>1, <1>2, <1>3, <1>4, <1>5, <1>6, <1>7, <1>8, <1>9, <1>10, <1>11, <1>12,
     <1>13 DEF Next

\* The invariant holds in every state the packet loop, SessionManager and the
\* adapters' tasks can reach, whichever sources share a port.
THEOREM InvariantHolds == Spec => []IInv
  BY InitInv, StepInv, PTL DEF Spec

\* RejectedNeverRelayed: no cached remote_permit, retry of send_payload or
\* channel left from an earlier session sends a payload to a rejected address.
THEOREM NothingLeaks == Spec => []RejectedNeverRelayed
<1>1. IInv => RejectedNeverRelayed
  BY DEF IInv
<1> QED
  BY <1>1, InvariantHolds, PTL

\* LiveSessionIsMapped: a running session whose probe is set is the one that
\* TunUdpInbound's mapping has for its source.
THEOREM OneLiveSessionPerSource == Spec => []LiveSessionIsMapped
<1>1. IInv => LiveSessionIsMapped
  BY DEF IInv, AliveInv, LiveSessionIsMapped, Live
<1> QED
  BY <1>1, InvariantHolds, PTL

\* LiveProbeIsRecorded: the probe of a session is its port's record's or cleared,
\* so that SessionManager::flush can end every session that is alive.
THEOREM FlushReachesEverySession == Spec => []LiveProbeIsRecorded
<1>1. IInv => LiveProbeIsRecorded
  BY DEF IInv, AliveInv, LiveProbeIsRecorded
<1> QED
  BY <1>1, InvariantHolds, PTL
===============================================================================
