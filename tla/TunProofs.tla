------------------------------- MODULE TunProofs -------------------------------
(***************************************************************************)
(* Proofs about what the TUN device keeps for its clients: the fake        *)
(* addresses of DnsTable and the TCP sessions of TcpSession.               *)
(*                                                                         *)
(* DnsTable, for any number of domains and addresses, any low mark above   *)
(* zero and any stale time.  The argument: every flush is one Retain, a    *)
(* Retain keeps two consistent maps and a free list consistent, and when   *)
(* no address is free flush_older evicts at least one record.              *)
(*                                                                         *)
(* TcpSession, for any number of connections, client ports and             *)
(* destinations.  The record of a port and the guards of a connection are  *)
(* tied together only by the counter they share, so the invariant follows  *)
(* the counters: which port each belongs to, what an untouched one holds,  *)
(* and what it holds while one connection alone counts on it.              *)
(***************************************************************************)
EXTENDS DnsTable, TcpSession, FiniteSetTheorems, TLAPS

-------------------------------------------------------------------------------
(* DnsTable *)

TableType == [dn    : [Domains -> Ips \cup {NoEntry}],
              ip    : [Ips -> Domains \cup {NoEntry}],
              avail : SUBSET Ips]

Good(t) == t \in TableType /\ Consistent(t)

IndInv == TableTypeOK /\ TablesAgree /\ PopNeverFails

-------------------------------------------------------------------------------

\* The two retain()s of a flush keep the maps and the free list consistent.
LEMMA RetainGood ==
  ASSUME NEW t, Good(t), NEW K \in SUBSET Domains
  PROVE  Good(Retain(t, K))
<1> DEFINE r == Retain(t, K)
<1>1. r \in TableType
  BY DTAssumption DEF Good, TableType, Retain
<1>2. \A d \in Domains : r.dn[d] # NoEntry => r.ip[r.dn[d]] = d
  BY DTAssumption DEF Good, TableType, Retain, Consistent
<1>3. \A i \in Ips : r.ip[i] # NoEntry => r.dn[r.ip[i]] = i
  BY DTAssumption DEF Good, TableType, Retain, Consistent
<1>4. \A i \in Ips : r.ip[i] = NoEntry <=> i \in r.avail
  BY DTAssumption DEF Good, TableType, Retain, Consistent
<1> QED BY <1>1, <1>2, <1>3, <1>4 DEF Good, Consistent

\* An address becomes free when its record is not retained.
LEMMA RetainFrees ==
  ASSUME NEW t, Good(t), NEW K \in SUBSET Domains,
         NEW i \in Ips, t.ip[i] # NoEntry, t.ip[i] \notin K
  PROVE  i \in Retain(t, K).avail
BY DEF Retain

LEMMA FlushExpirationGood ==
  ASSUME NEW t, Good(t) PROVE Good(FlushExpiration(t))
<1>1. {d \in Domains : now - last[d] > StaleTime} \in SUBSET Domains
  OBVIOUS
<1> QED BY <1>1, RetainGood DEF FlushExpiration

LEMMA FlushOlderGood ==
  ASSUME NEW t, Good(t), NEW m PROVE Good(FlushOlder(t, m))
<1>1. KeptByFlushOlder(m) \in SUBSET Domains
  BY DEF KeptByFlushOlder
<1> QED BY <1>1, RetainGood DEF FlushOlder

\* "remove at least 1 entry": with a record in the table, flush_older evicts
\* one, whatever part of the map it sampled.
LEMMA FlushOlderFrees ==
  ASSUME TableTypeOK, NEW t, Good(t), NEW m \in MinTimestamps(t),
         NEW j \in Ips, t.ip[j] # NoEntry
  PROVE  FlushOlder(t, m).avail # {}
<1>1. PICK S \in SUBSET Entries(t) : IsMinTs(t, S, m)
  BY DEF MinTimestamps
<1>2. m \in Nat
  BY DEF MinTimestamps, TableTypeOK
<1>3. PICK i \in Ips : t.ip[i] # NoEntry /\ ~(last[t.ip[i]] > m)
  <2>1. CASE m = now
    <3>1. t.ip[j] \in Domains
      BY DEF Good, TableType
    <3>2. last[t.ip[j]] <= now /\ last[t.ip[j]] \in Nat /\ now \in Nat
      BY <3>1 DEF TableTypeOK
    <3> QED BY <2>1, <3>2
  <2>2. CASE \E i \in S : m = last[t.ip[i]]
    <3>1. PICK i \in S : m = last[t.ip[i]]
      BY <2>2
    <3>2. i \in Ips /\ t.ip[i] # NoEntry
      BY <1>1 DEF Entries
    <3> QED BY <3>1, <3>2, <1>2
  <2> QED BY <1>1, <2>1, <2>2 DEF IsMinTs
<1>4. t.ip[i] \notin KeptByFlushOlder(m)
  BY <1>3 DEF KeptByFlushOlder
<1>5. KeptByFlushOlder(m) \in SUBSET Domains
  BY DEF KeptByFlushOlder
<1> QED BY <1>3, <1>4, <1>5, RetainFrees DEF FlushOlder

\* A table without a free address is low, as the low mark is not zero.
LEMMA EmptyIsLow == ASSUME NEW t, t.avail = {} PROVE IsLow(t)
<1>1. Cardinality({}) = 0
  BY FS_EmptySet
<1> QED BY <1>1, DTAssumption DEF IsLow

\* What query_by_domain_name looks the name up in is consistent and has a
\* free address.
LEMMA TrimmedGood ==
  ASSUME IndInv, NEW u \in Trimmed(tab)
  PROVE  Good(u) /\ u.avail # {}
<1> DEFINE e == FlushExpiration(tab)
<1>1. Good(tab)
  BY DEF IndInv, TableTypeOK, TablesAgree, Good, TableType
<1>2. Good(e)
  BY <1>1, FlushExpirationGood
<1>3. CASE ~IsLow(tab)
  <2>1. u = tab
    BY <1>3 DEF Trimmed
  <2> QED BY <1>1, <1>3, <2>1, EmptyIsLow
<1>4. CASE IsLow(tab) /\ ~IsLow(e)
  <2>1. u = e
    BY <1>4 DEF Trimmed
  <2> QED BY <1>2, <1>4, <2>1, EmptyIsLow
<1>5. CASE IsLow(tab) /\ IsLow(e)
  <2>1. PICK m \in MinTimestamps(e) : u = FlushOlder(e, m)
    BY <1>5 DEF Trimmed
  <2>2. Good(u)
    BY <1>2, <2>1, FlushOlderGood
  <2>3. u.avail # {}
    <3>1. CASE e.avail # {}
      BY <2>1, <3>1 DEF FlushOlder, Retain
    <3>2. CASE e.avail = {}
      <4>1. PICK j \in Ips : TRUE
        BY DTAssumption
      <4>2. e.ip[j] # NoEntry
        BY <1>2, <3>2 DEF Good, Consistent
      <4> HIDE DEF e
      <4> QED BY <1>2, <2>1, <4>2, FlushOlderFrees DEF IndInv
    <3> QED BY <3>1, <3>2
  <2> QED BY <2>2, <2>3
<1> QED BY <1>3, <1>4, <1>5

\* Handing out a free address keeps the tables consistent.
LEMMA InsertGood ==
  ASSUME NEW u, Good(u), NEW d \in Domains, u.dn[d] = NoEntry, NEW i \in u.avail
  PROVE  Good(Insert(u, d, i))
<1> DEFINE r == Insert(u, d, i)
<1>0. i \in Ips /\ u.ip[i] = NoEntry
  BY DEF Good, TableType, Consistent
<1>1. r \in TableType
  BY <1>0 DEF Good, TableType, Insert
<1>2. \A x \in Domains : r.dn[x] # NoEntry => r.ip[r.dn[x]] = x
  BY <1>0, DTAssumption DEF Good, TableType, Insert, Consistent
<1>3. \A x \in Ips : r.ip[x] # NoEntry => r.dn[r.ip[x]] = x
  BY <1>0, DTAssumption DEF Good, TableType, Insert, Consistent
<1>4. \A x \in Ips : r.ip[x] = NoEntry <=> x \in r.avail
  BY <1>0, DTAssumption DEF Good, TableType, Insert, Consistent
<1> QED BY <1>1, <1>2, <1>3, <1>4 DEF Good, Consistent

-------------------------------------------------------------------------------

\* The empty tables satisfy the invariant.
LEMMA InitIndInv == TableInit => IndInv
<1> SUFFICES ASSUME TableInit PROVE IndInv
  OBVIOUS
<1>1. tab \in [dn : [Domains -> Ips \cup {NoEntry}],
               ip : [Ips -> Domains \cup {NoEntry}],
               avail : SUBSET Ips]
  BY DEF TableInit
<1>2. /\ last \in [Domains -> Nat] /\ now \in Nat
      /\ \A d \in Domains : last[d] <= now
  BY DEF TableInit
<1>3. TablesAgree
  BY DTAssumption DEF TableInit, TablesAgree, Consistent
<1>4. panicked \in BOOLEAN /\ PopNeverFails
  BY DEF TableInit, PopNeverFails
<1> QED BY <1>1, <1>2, <1>3, <1>4 DEF IndInv, TableTypeOK

\* Every operation preserves it.
LEMMA NextIndInv == IndInv /\ [TableNext]_tableVars => IndInv'
<1> SUFFICES ASSUME IndInv, [TableNext]_tableVars PROVE IndInv'
  OBVIOUS
<1>1. ASSUME NEW d \in Domains, QueryByDomainName(d) PROVE IndInv'
  <2>1. PICK u \in Trimmed(tab) : Hit(u, d) \/ Miss(u, d)
    BY <1>1 DEF QueryByDomainName
  <2>2. Good(u) /\ u.avail # {}
    BY <2>1, TrimmedGood
  <2>3. now' = now /\ now \in Nat
    BY <1>1 DEF QueryByDomainName, IndInv, TableTypeOK
  <2>4. last' = [last EXCEPT ![d] = now] /\ panicked' = panicked
    BY <2>1, <2>2 DEF Hit, Miss, Touch
  <2>5. Good(tab)'
    <3>1. CASE Hit(u, d)
      BY <2>2, <3>1 DEF Hit, Good, TableType, Consistent
    <3>2. CASE Miss(u, d)
      <4>1. PICK i \in u.avail : u.dn[d] = NoEntry /\ tab' = Insert(u, d, i)
        BY <2>2, <3>2 DEF Miss
      <4>2. Good(Insert(u, d, i))
        BY <2>2, <4>1, InsertGood
      <4> QED BY <4>1, <4>2 DEF Good, TableType, Consistent
    <3> QED BY <2>1, <3>1, <3>2
  <2>6. /\ last' \in [Domains -> Nat]
        /\ \A x \in Domains : last'[x] <= now'
    BY <2>3, <2>4 DEF IndInv, TableTypeOK
  <2> QED
    BY <2>3, <2>4, <2>5, <2>6
       DEF IndInv, TableTypeOK, TablesAgree, PopNeverFails, Good, TableType
<1>2. ASSUME NEW i \in Ips, QueryByIp(i) PROVE IndInv'
  <2>1. tab.ip[i] \in Domains
    BY <1>2 DEF QueryByIp, IndInv, TableTypeOK
  <2>2. UNCHANGED <<tab, now, panicked>> /\ last' = [last EXCEPT ![tab.ip[i]] = now]
    BY <1>2 DEF QueryByIp, Touch
  <2>3. /\ last' \in [Domains -> Nat]
        /\ \A x \in Domains : last'[x] <= now'
    BY <2>1, <2>2 DEF IndInv, TableTypeOK
  <2> QED BY <2>2, <2>3 DEF IndInv, TableTypeOK, TablesAgree, Consistent, PopNeverFails
<1>3. ASSUME Tick PROVE IndInv'
  BY <1>3 DEF Tick, IndInv, TableTypeOK, TablesAgree, Consistent, PopNeverFails
<1>4. CASE UNCHANGED tableVars
  BY <1>4 DEF tableVars, IndInv, TableTypeOK, TablesAgree, Consistent, PopNeverFails
<1> QED BY <1>1, <1>2, <1>3, <1>4 DEF TableNext

LEMMA SpecIndInv == TableSpec => []IndInv
BY InitIndInv, NextIndInv, PTL DEF TableSpec

\* The tables, the timestamps and the clock stay in their ranges.
THEOREM TableTypeCorrect == TableSpec => []TableTypeOK
<1>1. IndInv => TableTypeOK
  BY DEF IndInv
<1> QED BY <1>1, SpecIndInv, PTL

\* Name to address and address to name stay inverse and no address is lost
\* or shared, for every size of the pool.
THEOREM FakeIpsAreABijection == TableSpec => []TablesAgree
<1>1. IndInv => TablesAgree
  BY DEF IndInv
<1> QED BY <1>1, SpecIndInv, PTL

\* pop().unwrap() in query_by_domain_name never panics.
THEOREM PoolNeverExhausted == TableSpec => []PopNeverFails
<1>1. IndInv => PopNeverFails
  BY DEF IndInv
<1> QED BY <1>1, SpecIndInv, PTL

-------------------------------------------------------------------------------
(* TcpSession *)

Record == [dst : Dests, cell : Cells]
HalfStates == {"none", "spawned", "lost", "open", "subbed", "gone"}

TypeOK == /\ records \in [Ports -> Record \cup {None}]
          /\ cell \in [Cells -> 0 .. 255]
          /\ st \in [Conns -> {"free", "syn", "lookup", "err", "live", "stray",
                               "hole", "dead"}]
          /\ client \in [Conns -> {"none", "open", "closed"}]
          /\ port \in [Conns -> Ports \cup {None}]
          /\ dst \in [Conns -> Dests \cup {None}]
          /\ target \in [Conns -> Dests \cup {None}]
          /\ own \in [Conns -> Cells \cup {0}]
          /\ outer \in [Conns -> HalfStates] /\ inner \in [Conns -> HalfStates]
          /\ done \in [Conns -> BOOLEAN] /\ cancelled \in [Conns -> BOOLEAN]
          /\ api \in [Conns -> {"no", "called", "marked"}]

\* What a connection has at each point of its life.
OpenedOf(c) ==
  /\ st[c] = "free" => client[c] = "none" /\ port[c] = None
  /\ st[c] # "free" => client[c] # "none" /\ port[c] \in Ports /\ dst[c] \in Dests
  /\ st[c] \in {"free", "syn"} => own[c] = 0 /\ target[c] = None
  /\ st[c] \in {"lookup", "err", "live", "stray", "hole"} => own[c] \in Cells
HalvesOf(c) ==
  /\ st[c] \in {"free", "syn", "lookup", "hole", "dead"} => outer[c] = "none"
  /\ st[c] = "live" => outer[c] # "none"
  /\ outer[c] \in {"none", "spawned", "lost"} => inner[c] = "none"
  /\ outer[c] = "none" => ~done[c]
  /\ outer[c] \in {"open", "subbed", "gone"} =>
       inner[c] \in {"open", "subbed", "gone"}
  /\ api[c] # "no" => st[c] = "live" /\ cancelled[c]

\* A counter belongs to one port: that of its record, and of the connections
\* whose guards hold it.
CellInv ==
  /\ \A p \in Ports : records[p] # None => \E c \in Conns : port[c] = p
  /\ \A p, q \in Ports : records[p] # None /\ records[q] # None
                           /\ records[p].cell = records[q].cell => p = q
  /\ \A c \in Conns, p \in Ports :
       own[c] # 0 /\ records[p] # None /\ records[p].cell = own[c] => p = port[c]
  /\ \A c, d \in Conns : own[c] # 0 /\ own[c] = own[d] => port[c] = port[d]

\* A counter no guard holds yet is as register_tcp_session made it.
Unheld(k) == \A d \in Conns : own[d] # k
FreshInv == \A p \in Ports : records[p] # None /\ Unheld(records[p].cell) =>
                               cell[records[p].cell] = 2

\* A connection that alone holds its counter finds there the guards that have
\* not been dropped, or are still to be made.
Past(h) == h \in {"subbed", "gone"}
Left(c) == IF Past(outer[c]) THEN IF Past(inner[c]) THEN 0 ELSE 1
           ELSE IF Past(inner[c]) THEN 1 ELSE 2
CountOf(c) == st[c] \in {"lookup", "live"} /\ Alone(c) => cell[own[c]] = Left(c)

\* The guards mark the context when both are past; the API at any point.
EndedOf(c) == Past(outer[c]) /\ Past(inner[c])
DoneOf(c) == st[c] = "live" /\ Alone(c) =>
               /\ BothGone(c) => done[c]
               /\ done[c] => EndedOf(c) \/ api[c] = "marked"

\* The record of a port that only one connection ever used is that one's.
Served(c) == st[c] = "lookup" \/ (st[c] = "live" /\ Serving(c))
SoleOf(c) ==
  OnlyOneOnPort(c) /\ st[c] # "free" =>
    /\ records[port[c]] # None => records[port[c]].dst = dst[c]
    /\ Served(c) => records[port[c]] # None /\ records[port[c]].cell = own[c]

\* Unless connections share a port, the record of a port that an open client
\* uses is that client's.
PortInv ==
  PortReuse # "shared" =>
    /\ \A c, d \in Conns : client[c] = "open" /\ client[d] = "open"
                             /\ port[c] = port[d] => c = d
    /\ \A c \in Conns : client[c] = "open" =>
         /\ records[port[c]] # None => records[port[c]].dst = dst[c]
         /\ target[c] # None => target[c] = dst[c]

ConnInv == \A c \in Conns : /\ OpenedOf(c) /\ HalvesOf(c) /\ CountOf(c)
                           /\ DoneOf(c) /\ SoleOf(c)

IInv == TypeOK /\ ConnInv /\ CellInv /\ FreshInv /\ PortInv

-------------------------------------------------------------------------------
(* Counters.                                                                 *)

LEMMA CellsAreNumbers ==
  /\ Cardinality(Conns) \in Nat /\ Cardinality(Ports) \in Nat
  /\ Cells \in SUBSET Nat /\ 0 \notin Cells
  /\ IsFiniteSet(Cells)
  /\ Cardinality(Cells) = Cardinality(Conns) + Cardinality(Ports) + 1
<1>1. PICK n, m : n = Cardinality(Conns) /\ m = Cardinality(Ports)
  OBVIOUS
<1>2. n \in Nat /\ m \in Nat
  BY <1>1, TSAssumption, FS_CardinalityType
<1>3. n + m + 1 \in Int /\ 1 \in Int /\ ~(1 > n + m + 1) /\ n + m + 1 - 1 + 1 = n + m + 1
  BY <1>2
<1>4. /\ IsFiniteSet(1 .. n + m + 1)
      /\ Cardinality(1 .. n + m + 1) = n + m + 1
  BY <1>3, FS_Interval
<1> QED
  BY <1>1, <1>2, <1>4 DEF Cells

LEMMA NoneIsNoRecord ==
  ASSUME NEW r \in Record PROVE r # None
<1>1. r \in [dst : Dests, cell : Nat]
  BY CellsAreNumbers DEF Record
<1> QED
  BY <1>1, TSAssumption

\* The Arcs that records and guards hold are fewer than the cells.
LEMMA FreeCellIsFree ==
  ASSUME TypeOK PROVE FreeCell \in Cells /\ ~InUse(FreeCell)
<1> DEFINE P == {p \in Ports : records[p] # None}
           C == {c \in Conns : own[c] # 0}
           f == [p \in P |-> records[p].cell]
           g == [c \in C |-> own[c]]
           KP == {k \in Cells : \E p \in P : f[p] = k}
           KC == {k \in Cells : \E c \in C : g[c] = k}
<1>1. /\ IsFiniteSet(P) /\ Cardinality(P) <= Cardinality(Ports)
      /\ IsFiniteSet(C) /\ Cardinality(C) <= Cardinality(Conns)
  <2>1. P \in SUBSET Ports /\ C \in SUBSET Conns
    OBVIOUS
  <2> HIDE DEF P, C
  <2> QED
    BY <2>1, TSAssumption, FS_Subset
<1>2. f \in Surjection(P, KP)
  <2>1. \A p \in P : f[p] \in KP
    BY DEF TypeOK, Record
  <2>2. f \in [P -> KP]
    BY <2>1
  <2>3. \A k \in KP : \E p \in P : f[p] = k
    OBVIOUS
  <2> QED
    BY <2>2, <2>3 DEF Surjection
<1>3. g \in Surjection(C, KC)
  <2>1. \A c \in C : g[c] \in KC
    BY DEF TypeOK
  <2>2. g \in [C -> KC]
    BY <2>1
  <2>3. \A k \in KC : \E c \in C : g[c] = k
    OBVIOUS
  <2> QED
    BY <2>2, <2>3 DEF Surjection
<1>4. ASSUME NEW k \in Cells, InUse(k) PROVE k \in KP \cup KC
  <2>1. CASE \E p \in Ports : records[p] # None /\ records[p].cell = k
    BY <2>1
  <2>2. CASE \E c \in Conns : own[c] = k
    BY <2>2, CellsAreNumbers
  <2> QED
    BY <1>4, <2>1, <2>2 DEF InUse
<1> HIDE DEF P, C, f, g, KP, KC
<1>5. /\ IsFiniteSet(KP) /\ Cardinality(KP) <= Cardinality(P)
      /\ IsFiniteSet(KC) /\ Cardinality(KC) <= Cardinality(C)
  BY <1>1, <1>2, <1>3, FS_Surjection
<1>6. /\ IsFiniteSet(KP \cup KC)
      /\ Cardinality(KP \cup KC)
           = Cardinality(KP) + Cardinality(KC) - Cardinality(KP \cap KC)
  BY <1>5, FS_Union
<1>7. IsFiniteSet(KP \cap KC)
  <2>1. KP \cap KC \in SUBSET KP
    OBVIOUS
  <2> QED
    BY <1>5, <2>1, FS_Subset
<1>8. Cardinality(KP \cup KC) < Cardinality(Cells)
  <2>1. PICK x, y, z, u, v : /\ x = Cardinality(KP) /\ y = Cardinality(KC)
                             /\ z = Cardinality(KP \cap KC)
                             /\ u = Cardinality(P) /\ v = Cardinality(C)
    OBVIOUS
  <2>2. x \in Nat /\ y \in Nat /\ z \in Nat /\ u \in Nat /\ v \in Nat
    BY <1>1, <1>5, <1>7, <2>1, FS_CardinalityType
  <2>3. PICK n, m : n = Cardinality(Conns) /\ m = Cardinality(Ports)
    OBVIOUS
  <2>4. n \in Nat /\ m \in Nat /\ x <= u /\ y <= v /\ u <= m /\ v <= n
    BY <1>1, <1>5, <2>1, <2>3, CellsAreNumbers
  <2>5. x + y - z < n + m + 1
    BY <2>2, <2>4
  <2> QED
    BY <1>6, <2>1, <2>3, <2>5, CellsAreNumbers
<1>9. \E k \in Cells : ~InUse(k)
  <2> SUFFICES ASSUME \A k \in Cells : InUse(k) PROVE FALSE
    OBVIOUS
  <2>1. Cells \in SUBSET (KP \cup KC)
    BY <1>4
  <2>2. Cardinality(Cells) <= Cardinality(KP \cup KC)
    BY <1>6, <2>1, FS_Subset
  <2>3. Cardinality(Cells) \in Nat /\ Cardinality(KP \cup KC) \in Nat
    BY <1>6, CellsAreNumbers, FS_CardinalityType
  <2> QED
    BY <1>8, <2>2, <2>3
<1> QED
  BY <1>9 DEF FreeCell

LEMMA U8DecType ==
  /\ \A n \in 0 .. 255 : U8Dec(n) \in 0 .. 255
  /\ U8Dec(2) = 1 /\ U8Dec(1) = 0
  BY DEF U8Dec

LEMMA InitInv == Init => IInv
<1> SUFFICES ASSUME Init PROVE IInv
  OBVIOUS
<1>1. TypeOK
  BY CellsAreNumbers DEF Init, TypeOK, HalfStates
<1>2. ConnInv
  BY DEF Init, ConnInv, OpenedOf, HalvesOf, CountOf, DoneOf, SoleOf
<1>3. CellInv /\ FreshInv
  BY DEF Init, CellInv, FreshInv
<1>4. PortInv
  BY DEF Init, PortInv
<1> QED
  BY <1>1, <1>2, <1>3, <1>4 DEF IInv

-------------------------------------------------------------------------------
(* Steps of a connection after Accept touch its own counter and halves.      *)

OwnFrame(c) ==
  /\ UNCHANGED <<records, client, port, dst, target, own>>
  /\ own[c] \in Cells
  /\ st[c] \notin {"free", "syn"} /\ st'[c] \notin {"free", "syn"}
  /\ \A k \in Cells : k # own[c] => cell'[k] = cell[k]
  /\ \A d \in Conns : d # c => /\ st'[d] = st[d] /\ done'[d] = done[d]
                              /\ cancelled'[d] = cancelled[d] /\ api'[d] = api[d]
                              /\ outer'[d] = outer[d] /\ inner'[d] = inner[d]

LEMMA OwnStep ==
  ASSUME IInv, NEW c \in Conns, TypeOK', OwnFrame(c),
         HalvesOf(c)', CountOf(c)', DoneOf(c)', Served(c)' => Served(c)
  PROVE  IInv'
<1>1. CellInv'
  BY DEF IInv, CellInv, OwnFrame
<1>2. FreshInv'
  <2> SUFFICES ASSUME NEW p \in Ports, records[p] # None, Unheld(records[p].cell)
               PROVE  cell'[records[p].cell] = 2
    BY DEF FreshInv, Unheld, OwnFrame
  <2>1. records[p].cell \in Cells /\ records[p].cell # own[c]
    BY DEF IInv, TypeOK, Record, Unheld
  <2>2. cell[records[p].cell] = 2
    BY DEF IInv, FreshInv
  <2> QED
    BY <2>1, <2>2 DEF OwnFrame
<1>3. PortInv'
  BY DEF IInv, PortInv, OwnFrame
<1>4. OpenedOf(c)' /\ SoleOf(c)'
  <2>1. OpenedOf(c)'
    BY DEF IInv, ConnInv, OpenedOf, OwnFrame
  <2>2. SoleOf(c)
    BY DEF IInv, ConnInv
  <2>3. OnlyOneOnPort(c)' <=> OnlyOneOnPort(c)
    BY DEF OnlyOneOnPort, OwnFrame
  <2>4. SoleOf(c)'
    BY <2>2, <2>3 DEF SoleOf, OwnFrame
  <2> QED
    BY <2>1, <2>4
<1>5. ASSUME NEW d \in Conns, d # c
      PROVE  OpenedOf(d)' /\ HalvesOf(d)' /\ CountOf(d)' /\ DoneOf(d)' /\ SoleOf(d)'
  <2>1. /\ st'[d] = st[d] /\ done'[d] = done[d]
        /\ cancelled'[d] = cancelled[d] /\ api'[d] = api[d]
        /\ outer'[d] = outer[d] /\ inner'[d] = inner[d]
        /\ UNCHANGED <<records, client, port, dst, target, own>>
    BY <1>5 DEF OwnFrame
  <2>2. OpenedOf(d) /\ HalvesOf(d) /\ CountOf(d) /\ DoneOf(d) /\ SoleOf(d)
    BY DEF IInv, ConnInv
  <2>3. OpenedOf(d)'
    BY <2>1, <2>2 DEF OpenedOf
  <2>4. HalvesOf(d)'
    BY <2>1, <2>2 DEF HalvesOf
  <2>5. Alone(d)' <=> Alone(d)
    BY <2>1 DEF Alone
  <2>6. DoneOf(d)'
    BY <2>1, <2>2, <2>5 DEF DoneOf, EndedOf, BothGone
  <2>7. CountOf(d)'
    <3>1. Left(d)' = Left(d)
      BY <2>1 DEF Left
    <3>2. ASSUME st[d] \in {"lookup", "live"}, Alone(d)
          PROVE  cell'[own[d]] = cell[own[d]]
      <4>1. own[d] \in Cells
        BY <2>2, <3>2 DEF OpenedOf
      <4>2. own[d] # own[c]
        BY <1>5, <3>2 DEF Alone
      <4> QED
        BY <4>1, <4>2 DEF OwnFrame
    <3> QED
      BY <2>1, <2>2, <2>5, <3>1, <3>2 DEF CountOf
  <2>8. SoleOf(d)'
    <3>1. OnlyOneOnPort(d)' <=> OnlyOneOnPort(d)
      BY <2>1 DEF OnlyOneOnPort
    <3>2. Served(d)' <=> Served(d)
      BY <2>1 DEF Served, Serving
    <3> QED
      BY <2>1, <2>2, <3>1, <3>2 DEF SoleOf
  <2> QED
    BY <2>3, <2>4, <2>6, <2>7, <2>8
<1>6. ConnInv'
  BY <1>4, <1>5 DEF ConnInv
<1> QED
  BY <1>1, <1>2, <1>3, <1>6 DEF IInv

LEMMA OwnCell ==
  ASSUME IInv, NEW c \in Conns, st[c] \notin {"free", "syn", "dead"}
  PROVE  own[c] \in Cells
  BY DEF IInv, TypeOK, ConnInv, OpenedOf

LEMMA DispatchInv ==
  ASSUME IInv, NEW c \in Conns,
         \/ DispatchOk(c) \/ DispatchReject(c)
         \/ DispatchBlackHole(c) \/ DispatchBadCert(c)
  PROVE  IInv'
<1> USE DEF DispatchOk, DispatchReject, DispatchBlackHole, DispatchBadCert,
            net, conn, halves, stop
<1>1. /\ st[c] = "lookup" /\ UNCHANGED <<records, cell, net, target, own, inner, done, cancelled, api>>
      /\ \E s \in {"live", "err", "hole"} : st' = [st EXCEPT ![c] = s]
      /\ \/ outer' = outer /\ st'[c] # "live"
         \/ outer' = [outer EXCEPT ![c] = "spawned"] /\ st'[c] # "hole"
  BY DEF IInv, TypeOK
<1> HIDE DEF DispatchOk, DispatchReject, DispatchBlackHole, DispatchBadCert
<1>2. own[c] \in Cells
  BY <1>1, OwnCell
<1>3. TypeOK'
  BY <1>1 DEF IInv, TypeOK, HalfStates
<1>4. OwnFrame(c)
  BY <1>1, <1>2 DEF IInv, TypeOK, OwnFrame
<1>5. HalvesOf(c) /\ CountOf(c) /\ DoneOf(c) /\ outer[c] = "none" /\ inner[c] = "none" /\ ~done[c]
  BY <1>1 DEF IInv, ConnInv, HalvesOf
<1>6. HalvesOf(c)'
  BY <1>1, <1>5 DEF HalvesOf, IInv, TypeOK
<1>7. Alone(c)' <=> Alone(c)
  BY <1>1 DEF Alone
<1>8. outer'[c] \in {"none", "spawned"} /\ inner'[c] = "none" /\ ~done'[c]
  BY <1>1, <1>5 DEF IInv, TypeOK
<1>9. CountOf(c)'
  BY <1>1, <1>5, <1>7, <1>8 DEF CountOf, Left, Past
<1>10. DoneOf(c)'
  BY <1>8 DEF DoneOf, EndedOf, BothGone
<1>11. Served(c)
  BY <1>1 DEF Served
<1> QED
  BY <1>3, <1>4, <1>6, <1>9, <1>10, <1>11, OwnStep

LEMMA StoreZeroInv ==
  ASSUME IInv, NEW c \in Conns, StoreZero(c) PROVE IInv'
<1> USE DEF net, conn, halves, stop
<1>1. own[c] \in Cells
  BY OwnCell DEF StoreZero
<1>2. TypeOK'
  BY <1>1 DEF IInv, TypeOK, StoreZero
<1>3. OwnFrame(c)
  BY <1>1 DEF IInv, TypeOK, OwnFrame, StoreZero
<1>4. st'[c] = (IF outer[c] = "none" THEN "dead" ELSE "stray") /\ UNCHANGED halves
  BY DEF IInv, TypeOK, StoreZero
<1>5. HalvesOf(c)
  BY DEF IInv, ConnInv
<1>6. HalvesOf(c)'
  BY <1>4, <1>5 DEF HalvesOf, StoreZero
<1>7. CountOf(c)' /\ DoneOf(c)' /\ ~Served(c)'
  BY <1>4 DEF CountOf, DoneOf, Served
<1> QED
  BY <1>2, <1>3, <1>6, <1>7, OwnStep

\* The directions of the adapter: FirstPoll, AbortBeforePoll, the drops of the
\* two guards.
LEMMA OuterState ==
  ASSUME IInv, NEW c \in Conns, outer[c] # "none" \/ inner[c] # "none"
  PROVE  /\ st[c] \notin {"free", "syn", "dead"} /\ own[c] \in Cells
         /\ st[c] # "lookup" /\ outer[c] # "none"
<1>1. HalvesOf(c) /\ outer[c] \in HalfStates
  BY DEF IInv, TypeOK, ConnInv
<1>2. outer[c] # "none"
  BY <1>1 DEF HalvesOf
<1> QED
  BY <1>1, <1>2, OwnCell DEF HalvesOf

LEMMA FirstPollInv ==
  ASSUME IInv, NEW c \in Conns, FirstPoll(c) \/ AbortBeforePoll(c) PROVE IInv'
<1> USE DEF net, conn, halves, stop
<1>1. /\ outer[c] = "spawned" /\ UNCHANGED <<records, cell, net, conn, done, cancelled, api>>
      /\ \/ /\ outer' = [outer EXCEPT ![c] = "open"]
            /\ inner' = [inner EXCEPT ![c] = "open"]
         \/ outer' = [outer EXCEPT ![c] = "lost"] /\ inner' = inner
  BY DEF FirstPoll, AbortBeforePoll
<1>2. /\ st[c] \notin {"free", "syn", "dead"} /\ own[c] \in Cells
      /\ st[c] # "lookup"
  BY <1>1, OuterState
<1>3. TypeOK'
  BY <1>1 DEF IInv, TypeOK, HalfStates
<1>4. OwnFrame(c)
  BY <1>1, <1>2 DEF IInv, TypeOK, OwnFrame
<1>5. HalvesOf(c) /\ CountOf(c) /\ DoneOf(c) /\ inner[c] = "none"
  BY <1>1 DEF IInv, ConnInv, HalvesOf
<1>6. /\ outer'[c] \in {"open", "lost"} /\ inner'[c] \in {"none", "open"}
      /\ outer'[c] = "open" <=> inner'[c] = "open"
  BY <1>1, <1>5 DEF IInv, TypeOK
<1>7. HalvesOf(c)'
  BY <1>1, <1>2, <1>5, <1>6 DEF HalvesOf
<1>8. Alone(c)' <=> Alone(c)
  BY <1>1 DEF Alone
<1>9. CountOf(c)'
  BY <1>1, <1>5, <1>6, <1>8 DEF CountOf, Left, Past
<1>10. DoneOf(c)'
  BY <1>1, <1>5, <1>6, <1>8 DEF DoneOf, EndedOf, BothGone, Past
<1>11. Served(c)' => Served(c)
  BY <1>1 DEF Served, Serving, HalfOpen
<1> QED
  BY <1>3, <1>4, <1>7, <1>9, <1>10, <1>11, OwnStep

LEMMA EndOuterInv ==
  ASSUME IInv, NEW c \in Conns, EndOuter(c) PROVE IInv'
<1> USE DEF net, conn, halves, stop, EndOuter
<1>1. /\ st[c] \notin {"free", "syn", "dead"} /\ own[c] \in Cells
      /\ st[c] # "lookup"
  BY OuterState
<1>2. /\ cell[own[c]] \in 0 .. 255 /\ cell'[own[c]] = U8Dec(cell[own[c]])
      /\ \A k \in Cells : k # own[c] => cell'[k] = cell[k]
      /\ cell' = [cell EXCEPT ![own[c]] = U8Dec(cell[own[c]])]
  BY <1>1 DEF IInv, TypeOK, Sub
<1>3. TypeOK'
  BY <1>1, <1>2, U8DecType DEF IInv, TypeOK, HalfStates
<1>4. OwnFrame(c)
  BY <1>1, <1>2 DEF IInv, TypeOK, OwnFrame
<1>5. HalvesOf(c) /\ CountOf(c) /\ DoneOf(c)
  BY DEF IInv, ConnInv
<1>6. outer'[c] = "subbed" /\ UNCHANGED <<st, own, inner, done, cancelled, api>>
  BY DEF IInv, TypeOK
<1>7. outer[c] \in HalfStates /\ inner[c] \in HalfStates
  BY DEF IInv, TypeOK
<1>8. HalvesOf(c)'
  BY <1>1, <1>5, <1>6, <1>7 DEF HalvesOf, HalfStates
<1>9. Alone(c)' <=> Alone(c)
  BY <1>6 DEF Alone
<1>10. CountOf(c)'
  BY <1>2, <1>5, <1>6, <1>9, U8DecType DEF CountOf, Left, Past
<1>11. DoneOf(c)'
  BY <1>5, <1>6, <1>9 DEF DoneOf, EndedOf, BothGone, Past
<1>12. Served(c)' => Served(c)
  BY <1>6 DEF Served, Serving, HalfOpen
<1> QED
  BY <1>3, <1>4, <1>8, <1>10, <1>11, <1>12, OwnStep

LEMMA EndInnerInv ==
  ASSUME IInv, NEW c \in Conns, EndInner(c) PROVE IInv'
<1> USE DEF net, conn, halves, stop, EndInner
<1>1. /\ st[c] \notin {"free", "syn", "dead"} /\ own[c] \in Cells
      /\ st[c] # "lookup"
  BY OuterState
<1>2. /\ cell[own[c]] \in 0 .. 255 /\ cell'[own[c]] = U8Dec(cell[own[c]])
      /\ \A k \in Cells : k # own[c] => cell'[k] = cell[k]
      /\ cell' = [cell EXCEPT ![own[c]] = U8Dec(cell[own[c]])]
  BY <1>1 DEF IInv, TypeOK, Sub
<1>3. TypeOK'
  BY <1>1, <1>2, U8DecType DEF IInv, TypeOK, HalfStates
<1>4. OwnFrame(c)
  BY <1>1, <1>2 DEF IInv, TypeOK, OwnFrame
<1>5. HalvesOf(c) /\ CountOf(c) /\ DoneOf(c)
  BY DEF IInv, ConnInv
<1>6. inner'[c] = "subbed" /\ UNCHANGED <<st, own, outer, done, cancelled, api>>
  BY DEF IInv, TypeOK
<1>7. outer[c] \in HalfStates /\ inner[c] \in HalfStates
  BY DEF IInv, TypeOK
<1>8. HalvesOf(c)'
  BY <1>1, <1>5, <1>6, <1>7 DEF HalvesOf, HalfStates
<1>9. Alone(c)' <=> Alone(c)
  BY <1>6 DEF Alone
<1>10. CountOf(c)'
  BY <1>2, <1>5, <1>6, <1>9, U8DecType DEF CountOf, Left, Past
<1>11. DoneOf(c)'
  BY <1>5, <1>6, <1>9 DEF DoneOf, EndedOf, BothGone, Past
<1>12. Served(c)' => Served(c)
  BY <1>6 DEF Served, Serving, HalfOpen
<1> QED
  BY <1>3, <1>4, <1>8, <1>10, <1>11, <1>12, OwnStep

LEMMA CheckOuterInv ==
  ASSUME IInv, NEW c \in Conns, CheckOuter(c) PROVE IInv'
<1> USE DEF net, conn, halves, stop, CheckOuter
<1>1. /\ st[c] \notin {"free", "syn", "dead"} /\ own[c] \in Cells
      /\ st[c] # "lookup" /\ outer[c] # "none"
  BY OuterState
<1>2. /\ outer'[c] = "gone" /\ UNCHANGED <<records, cell, st, own, inner, cancelled, api>>
      /\ done'[c] = (done[c] \/ cell[own[c]] = 0)
  BY DEF IInv, TypeOK, LoadsZero
<1>3. TypeOK'
  <2>1. done' \in [Conns -> BOOLEAN]
    BY Zenon DEF IInv, TypeOK, LoadsZero
  <2> QED
    BY <2>1 DEF IInv, TypeOK, HalfStates
<1>4. OwnFrame(c)
  BY <1>1, <1>2 DEF IInv, TypeOK, OwnFrame
<1>5. HalvesOf(c) /\ CountOf(c) /\ DoneOf(c)
  BY DEF IInv, ConnInv
<1>6. outer[c] \in HalfStates /\ inner[c] \in HalfStates
  BY DEF IInv, TypeOK
<1>7. HalvesOf(c)'
  BY <1>1, <1>2, <1>5, <1>6 DEF HalvesOf, HalfStates
<1>8. Alone(c)' <=> Alone(c)
  BY <1>2 DEF Alone
<1>9. CountOf(c)'
  BY <1>2, <1>5, <1>8 DEF CountOf, Left, Past
<1>10. DoneOf(c)'
  <2> SUFFICES ASSUME st[c] = "live", Alone(c)
               PROVE  /\ BothGone(c)' => done'[c]
                      /\ done'[c] => EndedOf(c)' \/ api'[c] = "marked"
    BY <1>2, <1>8 DEF DoneOf
  <2>1. BothGone(c)' => cell[own[c]] = 0
    BY <1>2, <1>5 DEF CountOf, Left, BothGone, Past
  <2>2. cell[own[c]] = 0 => EndedOf(c)'
    BY <1>2, <1>5 DEF CountOf, Left, Past, EndedOf
  <2>3. done[c] => EndedOf(c)' \/ api'[c] = "marked"
    BY <1>2, <1>5 DEF DoneOf, Past, EndedOf
  <2>4. done'[c] <=> done[c] \/ cell[own[c]] = 0
    BY <1>2, Zenon DEF IInv, TypeOK, LoadsZero
  <2> QED
    BY <2>1, <2>2, <2>3, <2>4
<1>11. Served(c)' => Served(c)
  BY <1>2 DEF Served, Serving, HalfOpen
<1> QED
  BY <1>3, <1>4, <1>7, <1>9, <1>10, <1>11, OwnStep

LEMMA CheckInnerInv ==
  ASSUME IInv, NEW c \in Conns, CheckInner(c) PROVE IInv'
<1> USE DEF net, conn, halves, stop, CheckInner
<1>1. /\ st[c] \notin {"free", "syn", "dead"} /\ own[c] \in Cells
      /\ st[c] # "lookup" /\ outer[c] # "none"
  BY OuterState
<1>2. /\ inner'[c] = "gone" /\ UNCHANGED <<records, cell, st, own, outer, cancelled, api>>
      /\ done'[c] = (done[c] \/ cell[own[c]] = 0)
  BY DEF IInv, TypeOK, LoadsZero
<1>3. TypeOK'
  <2>1. done' \in [Conns -> BOOLEAN]
    BY Zenon DEF IInv, TypeOK, LoadsZero
  <2> QED
    BY <2>1 DEF IInv, TypeOK, HalfStates
<1>4. OwnFrame(c)
  BY <1>1, <1>2 DEF IInv, TypeOK, OwnFrame
<1>5. HalvesOf(c) /\ CountOf(c) /\ DoneOf(c)
  BY DEF IInv, ConnInv
<1>6. outer[c] \in HalfStates /\ inner[c] \in HalfStates
  BY DEF IInv, TypeOK
<1>7. HalvesOf(c)'
  BY <1>1, <1>2, <1>5, <1>6 DEF HalvesOf, HalfStates
<1>8. Alone(c)' <=> Alone(c)
  BY <1>2 DEF Alone
<1>9. CountOf(c)'
  BY <1>2, <1>5, <1>8 DEF CountOf, Left, Past
<1>10. DoneOf(c)'
  <2> SUFFICES ASSUME st[c] = "live", Alone(c)
               PROVE  /\ BothGone(c)' => done'[c]
                      /\ done'[c] => EndedOf(c)' \/ api'[c] = "marked"
    BY <1>2, <1>8 DEF DoneOf
  <2>1. BothGone(c)' => cell[own[c]] = 0
    BY <1>2, <1>5 DEF CountOf, Left, BothGone, Past
  <2>2. cell[own[c]] = 0 => EndedOf(c)'
    BY <1>2, <1>5 DEF CountOf, Left, Past, EndedOf
  <2>3. done[c] => EndedOf(c)' \/ api'[c] = "marked"
    BY <1>2, <1>5 DEF DoneOf, Past, EndedOf
  <2>4. done'[c] <=> done[c] \/ cell[own[c]] = 0
    BY <1>2, Zenon DEF IInv, TypeOK, LoadsZero
  <2> QED
    BY <2>1, <2>2, <2>3, <2>4
<1>11. Served(c)' => Served(c)
  BY <1>2 DEF Served, Serving, HalfOpen
<1> QED
  BY <1>3, <1>4, <1>7, <1>9, <1>10, <1>11, OwnStep

\* cancel() by anyone, and the API's cancel() and mark_fin().
LEMMA StopInv ==
  ASSUME IInv, NEW c \in Conns, Cancel(c) \/ StopConn(c) \/ StopMarks(c)
  PROVE  IInv'
<1> USE DEF net, conn, halves, stop
<1>1. /\ UNCHANGED <<records, cell, net, conn, outer, inner>>
      /\ api' \in [Conns -> {"no", "called", "marked"}]
      /\ cancelled' \in [Conns -> BOOLEAN] /\ done' \in [Conns -> BOOLEAN]
      /\ \A d \in Conns : d # c => /\ cancelled'[d] = cancelled[d] /\ done'[d] = done[d]
                                  /\ api'[d] = api[d]
      /\ cancelled'[c] \/ api'[c] = api[c]
      /\ cancelled[c] => cancelled'[c]
      /\ done'[c] => done[c] \/ api'[c] = "marked"
      /\ done[c] => done'[c]
      /\ api[c] = "marked" => api'[c] = "marked"
  <2>1. CASE Cancel(c)
    BY <2>1 DEF Cancel, CancelTasks, IInv, TypeOK
  <2>2. CASE StopConn(c)
    BY <2>2 DEF StopConn, CancelTasks, IInv, TypeOK
  <2>3. CASE StopMarks(c)
    <3>1. api[c] # "no" /\ HalvesOf(c)
      BY <2>3 DEF StopMarks, IInv, ConnInv
    <3> QED
      BY <2>3, <3>1 DEF StopMarks, HalvesOf, IInv, TypeOK
  <2> QED
    BY <2>1, <2>2, <2>3
<1>2. st[c] = "live"
  BY DEF Cancel, StopConn, StopMarks, IInv, ConnInv, HalvesOf
<1>3. own[c] \in Cells
  BY <1>2, OwnCell
<1>4. TypeOK'
  BY <1>1 DEF IInv, TypeOK
<1>5. OwnFrame(c)
  BY <1>1, <1>2, <1>3 DEF IInv, TypeOK, OwnFrame
<1>6. HalvesOf(c) /\ CountOf(c) /\ DoneOf(c)
  BY DEF IInv, ConnInv
<1>7. HalvesOf(c)'
  BY <1>1, <1>2, <1>6 DEF HalvesOf
<1>8. Alone(c)' <=> Alone(c)
  BY <1>1 DEF Alone
<1>9. CountOf(c)'
  BY <1>1, <1>6, <1>8 DEF CountOf, Left
<1>10. DoneOf(c)'
  BY <1>1, <1>6, <1>8 DEF DoneOf, EndedOf, BothGone
<1>11. Served(c)' => Served(c)
  BY <1>1 DEF Served, Serving
<1> QED
  BY <1>4, <1>5, <1>7, <1>9, <1>10, <1>11, OwnStep

-------------------------------------------------------------------------------
(* Packets of the clients: register_tcp_session.                             *)

Registered(p, d) ==
  /\ records' \in [Ports -> Record \cup {None}] /\ cell' \in [Cells -> 0 .. 255]
  /\ \A q \in Ports : q # p => records'[q] = records[q]
  /\ records'[p] # None /\ records'[p].dst = d
  /\ \/ UNCHANGED <<records, cell>>
     \/ /\ NeedsNewRecord(p, d)
        /\ \E k \in Cells :
             /\ ~InUse(k) /\ records'[p].cell = k /\ cell'[k] = 2
             /\ \A j \in Cells : j # k => cell'[j] = cell[j]

LEMMA RegisterFacts ==
  ASSUME TypeOK, NEW p \in Ports, NEW d \in Dests, Register(p, d)
  PROVE  Registered(p, d)
<1>1. CASE ~NeedsNewRecord(p, d)
  BY <1>1 DEF Register, Registered, TypeOK, NeedsNewRecord
<1>2. CASE NeedsNewRecord(p, d)
  <2>1. PICK k : k = FreeCell
    OBVIOUS
  <2>2. k \in Cells /\ ~InUse(k)
    BY <2>1, FreeCellIsFree
  <2>3. PICK r : r = [dst |-> d, cell |-> k]
    OBVIOUS
  <2>4. r \in Record /\ r.dst = d /\ r.cell = k
    BY <2>2, <2>3 DEF Record
  <2>5. r # None
    BY <2>4, NoneIsNoRecord
  <2>6. records' = [records EXCEPT ![p] = r] /\ cell' = [cell EXCEPT ![k] = 2]
    BY <1>2, <2>1, <2>3 DEF Register
  <2>7. /\ records' \in [Ports -> Record \cup {None}] /\ records'[p] = r
        /\ \A q \in Ports : q # p => records'[q] = records[q]
    BY <2>4, <2>6 DEF TypeOK
  <2>8. /\ cell' \in [Cells -> 0 .. 255] /\ cell'[k] = 2
        /\ \A j \in Cells : j # k => cell'[j] = cell[j]
    BY <2>2, <2>6 DEF TypeOK
  <2> QED
    BY <1>2, <2>2, <2>4, <2>5, <2>7, <2>8 DEF Registered
<1> QED
  BY <1>1, <1>2

RegFrame(c, p, d) ==
  /\ UNCHANGED <<target, own, outer, inner, done, cancelled, api>>
  /\ port'[c] = p /\ dst'[c] = d /\ client'[c] \in {"open", "closed"}
  /\ \A e \in Conns : e # c => /\ st'[e] = st[e] /\ client'[e] = client[e]
                              /\ port'[e] = port[e] /\ dst'[e] = dst[e]
  /\ \/ st[c] = "free" /\ st'[c] = "syn" /\ MayUse(p, d)
     \/ client[c] = "open" /\ st'[c] = st[c] /\ port[c] = p /\ dst[c] = d

\* A counter in use keeps its value, and the ports of all but the new
\* connection stay.
LEMMA RegKeeps ==
  ASSUME IInv, NEW c \in Conns, NEW p \in Ports, NEW d \in Dests,
         Registered(p, d), RegFrame(c, p, d)
  PROVE  /\ \A e \in Conns : own[e] \in Cells => cell'[own[e]] = cell[own[e]]
         /\ \A q \in Ports : records'[q] # None =>
              \/ records'[q] = records[q]
              \/ q = p /\ records'[q].cell \in Cells /\ ~InUse(records'[q].cell)
                   /\ cell'[records'[q].cell] = 2
         /\ \A q \in Ports : records[q] # None =>
              cell'[records[q].cell] = cell[records[q].cell]
         /\ \A e \in Conns : own[e] # 0 => port'[e] = port[e]
         /\ \A e \in Conns : st[e] # "free" =>
              st'[e] = st[e] /\ port'[e] = port[e] /\ dst'[e] = dst[e]
<1>1. \A e \in Conns : OpenedOf(e)
  BY DEF IInv, ConnInv
<1>2. \A e \in Conns : own[e] \in Cells => cell'[own[e]] = cell[own[e]]
  BY DEF Registered, InUse
<1>3. \A q \in Ports : records'[q] # None =>
              \/ records'[q] = records[q]
              \/ q = p /\ records'[q].cell \in Cells /\ ~InUse(records'[q].cell)
                   /\ cell'[records'[q].cell] = 2
  BY DEF Registered
<1>4. ASSUME NEW q \in Ports, records[q] # None
      PROVE  cell'[records[q].cell] = cell[records[q].cell]
  <2>1. records[q].cell \in Cells /\ InUse(records[q].cell)
    BY <1>4 DEF IInv, TypeOK, Record, InUse
  <2> QED
    BY <2>1 DEF Registered
<1>5. ASSUME NEW e \in Conns, st[e] # "free"
      PROVE  st'[e] = st[e] /\ port'[e] = port[e] /\ dst'[e] = dst[e]
  BY <1>5 DEF RegFrame
<1>6. ASSUME NEW e \in Conns, own[e] # 0 PROVE port'[e] = port[e]
  BY <1>1, <1>5, <1>6 DEF OpenedOf
<1> QED
  BY <1>2, <1>3, <1>4, <1>5, <1>6

LEMMA RegCellInv ==
  ASSUME IInv, NEW c \in Conns, NEW p \in Ports, NEW d \in Dests,
         Registered(p, d), RegFrame(c, p, d)
  PROVE  CellInv' /\ FreshInv'
<1>1. \A q \in Ports : records'[q] # None => \E e \in Conns : port'[e] = q
  <2> SUFFICES ASSUME NEW q \in Ports, records'[q] # None
               PROVE  \E e \in Conns : port'[e] = q
    OBVIOUS
  <2>1. CASE q = p
    BY <2>1 DEF RegFrame
  <2>2. CASE q # p
    <3>1. PICK e \in Conns : port[e] = q
      BY <2>2 DEF IInv, CellInv, Registered
    <3>2. st[e] # "free"
      BY <3>1, TSAssumption DEF IInv, ConnInv, OpenedOf
    <3> QED
      BY <3>1, <3>2, RegKeeps
  <2> QED
    BY <2>1, <2>2
<1>2. ASSUME NEW a \in Ports, NEW b \in Ports, records'[a] # None,
             records'[b] # None, records'[a].cell = records'[b].cell
      PROVE  a = b
  <2>1. CASE records'[a] = records[a] /\ records'[b] = records[b]
    BY <1>2, <2>1 DEF IInv, CellInv
  <2>2. CASE ~(records'[a] = records[a] /\ records'[b] = records[b])
    <3> USE <1>2, RegKeeps
    <3>1. CASE records'[a] = records[a]
      BY <2>2, <3>1 DEF InUse
    <3>2. CASE records'[b] = records[b]
      BY <2>2, <3>2 DEF InUse
    <3> QED
      BY <3>1, <3>2
  <2> QED
    BY <2>1, <2>2
<1>3. ASSUME NEW e \in Conns, NEW q \in Ports, own[e] # 0,
             records'[q] # None, records'[q].cell = own[e]
      PROVE  q = port'[e]
  <2>1. records'[q] = records[q]
    BY <1>3, RegKeeps DEF InUse
  <2>2. q = port[e]
    BY <1>3, <2>1 DEF IInv, CellInv
  <2> QED
    BY <1>3, <2>2, RegKeeps
<1>4. ASSUME NEW e \in Conns, NEW f \in Conns, own[e] # 0, own[e] = own[f]
      PROVE  port'[e] = port'[f]
  <2>1. port[e] = port[f]
    BY <1>4 DEF IInv, CellInv
  <2> QED
    BY <1>4, <2>1, RegKeeps
<1>5. UNCHANGED own
  BY DEF RegFrame
<1>6. CellInv'
  BY <1>1, <1>2, <1>3, <1>4, <1>5 DEF CellInv
<1>7. FreshInv'
  <2> SUFFICES ASSUME NEW q \in Ports, records'[q] # None,
                      Unheld(records'[q].cell)
               PROVE  cell'[records'[q].cell] = 2
    BY <1>5 DEF FreshInv, Unheld
  <2>1. CASE records'[q] = records[q]
    <3>1. cell[records[q].cell] = 2
      BY <2>1 DEF IInv, FreshInv
    <3> QED
      BY <2>1, <3>1, RegKeeps
  <2>2. CASE records'[q] # records[q]
    BY <2>2, RegKeeps
  <2> QED
    BY <2>1, <2>2
<1> QED
  BY <1>6, <1>7

LEMMA RegPortInv ==
  ASSUME IInv, NEW c \in Conns, NEW p \in Ports, NEW d \in Dests,
         Registered(p, d), RegFrame(c, p, d)
  PROVE  PortInv'
<1> SUFFICES ASSUME PortReuse # "shared" PROVE PortInv'
  BY DEF PortInv
<1>1. \A e \in Conns : e # c /\ port[e] = p => client[e] # "open"
  <2> SUFFICES ASSUME NEW e \in Conns, e # c, port[e] = p, client[e] = "open"
               PROVE  FALSE
    OBVIOUS
  <2>1. CASE MayUse(p, d)
    BY <2>1, TSAssumption DEF MayUse
  <2>2. CASE client[c] = "open" /\ port[c] = p
    BY <2>2 DEF IInv, PortInv
  <2> QED
    BY <2>1, <2>2 DEF RegFrame
<1>2. \A e \in Conns : e # c /\ client'[e] = "open" =>
        /\ client[e] = "open" /\ port'[e] # p /\ port'[e] \in Ports
        /\ port'[e] = port[e] /\ dst'[e] = dst[e] /\ target'[e] = target[e]
        /\ records'[port[e]] = records[port[e]]
  <2> SUFFICES ASSUME NEW e \in Conns, e # c, client'[e] = "open"
               PROVE  /\ client[e] = "open" /\ port'[e] # p /\ port'[e] \in Ports
                      /\ port'[e] = port[e] /\ dst'[e] = dst[e]
                      /\ target'[e] = target[e]
                      /\ records'[port[e]] = records[port[e]]
    OBVIOUS
  <2>1. /\ client[e] = "open" /\ port'[e] = port[e] /\ dst'[e] = dst[e]
        /\ target'[e] = target[e]
    BY DEF RegFrame
  <2>2. port[e] # p
    BY <1>1, <2>1
  <2>3. port[e] \in Ports
    BY <2>1 DEF IInv, ConnInv, OpenedOf
  <2> QED
    BY <2>1, <2>2, <2>3 DEF Registered
<1>3. port'[c] = p /\ dst'[c] = d /\ records'[p].dst = d
  BY DEF RegFrame, Registered
<1>4. \A e, f \in Conns : client'[e] = "open" /\ client'[f] = "open"
                            /\ port'[e] = port'[f] => e = f
  BY <1>2, <1>3 DEF IInv, PortInv
<1>5. target'[c] # None => target'[c] = dst'[c]
  <2>1. CASE st[c] = "free"
    BY <2>1 DEF IInv, ConnInv, OpenedOf, RegFrame
  <2>2. CASE client[c] = "open" /\ dst[c] = d
    BY <1>3, <2>2 DEF IInv, PortInv, RegFrame
  <2> QED
    BY <2>1, <2>2 DEF RegFrame
<1>6. ASSUME NEW e \in Conns, client'[e] = "open"
      PROVE  /\ records'[port'[e]] # None => records'[port'[e]].dst = dst'[e]
             /\ target'[e] # None => target'[e] = dst'[e]
  <2>1. CASE e = c
    BY <1>3, <1>5, <2>1
  <2>2. CASE e # c
    BY <1>2, <1>6, <2>2 DEF IInv, PortInv
  <2> QED
    BY <2>1, <2>2
<1> QED
  BY <1>4, <1>6 DEF PortInv

LEMMA RegConnInv ==
  ASSUME IInv, NEW c \in Conns, NEW p \in Ports, NEW d \in Dests,
         Registered(p, d), RegFrame(c, p, d)
  PROVE  ConnInv'
<1>1. UNCHANGED <<target, own, outer, inner, done, cancelled, api>>
  BY DEF RegFrame
<1>2. \A e \in Conns : /\ OpenedOf(e) /\ HalvesOf(e) /\ CountOf(e)
                       /\ DoneOf(e) /\ SoleOf(e)
  BY DEF IInv, ConnInv
<1>3. \A e \in Conns : st'[e] = st[e] \/ (e = c /\ st[e] = "free" /\ st'[e] = "syn")
  BY DEF RegFrame
<1>4. \A e \in Conns : Alone(e)' <=> Alone(e)
  BY <1>1 DEF Alone
<1>5. ASSUME NEW e \in Conns PROVE OpenedOf(e)'
  <2>1. CASE e = c
    <3>1. client'[c] # "none" /\ port'[c] \in Ports /\ dst'[c] \in Dests /\ st'[c] # "free"
      BY <1>2 DEF RegFrame, OpenedOf
    <3> QED
      BY <1>1, <1>2, <1>3, <2>1, <3>1 DEF OpenedOf
  <2>2. CASE e # c
    BY <1>1, <1>2, <2>2 DEF OpenedOf, RegFrame
  <2> QED
    BY <2>1, <2>2
<1>6. ASSUME NEW e \in Conns PROVE HalvesOf(e)'
  BY <1>1, <1>2, <1>3 DEF HalvesOf
<1>7. ASSUME NEW e \in Conns PROVE CountOf(e)' /\ DoneOf(e)'
  <2>1. CASE st'[e] = "syn"
    BY <2>1 DEF CountOf, DoneOf
  <2>2. CASE st'[e] = st[e]
    <3>1. DoneOf(e)'
      BY <1>1, <1>2, <1>4, <2>2 DEF DoneOf, EndedOf, BothGone
    <3>2. Left(e)' = Left(e)
      BY <1>1 DEF Left
    <3>3. st[e] \in {"lookup", "live"} => cell'[own[e]] = cell[own[e]]
      BY <1>2, RegKeeps DEF OpenedOf
    <3>4. CountOf(e)'
      BY <1>1, <1>2, <1>4, <2>2, <3>2, <3>3 DEF CountOf
    <3> QED
      BY <3>1, <3>4
  <2> QED
    BY <1>3, <2>1, <2>2
<1>8. ASSUME NEW e \in Conns, OnlyOneOnPort(e)', st'[e] # "free" PROVE OnlyOneOnPort(e) \/ e = c
  <2> SUFFICES ASSUME e # c, NEW f \in Conns, f # e, port[f] = port[e] PROVE FALSE
    BY DEF OnlyOneOnPort
  <2>1. st[e] # "free" /\ port[e] \in Ports /\ port'[e] = port[e]
    BY <1>2, <1>3, <1>8 DEF OpenedOf, RegFrame
  <2>2. st[f] # "free"
    BY <1>2, <2>1, TSAssumption DEF OpenedOf
  <2>3. port'[f] = port[f]
    BY <2>2, RegKeeps
  <2> QED
    BY <1>8, <2>1, <2>3 DEF OnlyOneOnPort
<1>9. ASSUME NEW e \in Conns, e # c PROVE SoleOf(e)'
  <2> SUFFICES ASSUME OnlyOneOnPort(e)', st'[e] # "free"
               PROVE  /\ records'[port'[e]] # None => records'[port'[e]].dst = dst'[e]
                      /\ Served(e)' => /\ records'[port'[e]] # None
                                       /\ records'[port'[e]].cell = own'[e]
    BY DEF SoleOf
  <2>1. OnlyOneOnPort(e)
    BY <1>8, <1>9
  <2>2. /\ st[e] # "free" /\ st'[e] = st[e] /\ port'[e] = port[e] /\ dst'[e] = dst[e]
        /\ port[e] \in Ports
    BY <1>2, <1>3, <1>9 DEF OpenedOf, RegFrame
  <2>3. port[e] # p
    BY <1>9, <2>2 DEF OnlyOneOnPort, RegFrame
  <2>4. records'[port[e]] = records[port[e]]
    BY <2>2, <2>3 DEF Registered
  <2>5. Served(e)' <=> Served(e)
    BY <1>1, <2>2 DEF Served, Serving
  <2> QED
    BY <1>1, <1>2, <2>1, <2>2, <2>4, <2>5 DEF SoleOf
<1>10. SoleOf(c)'
  <2> SUFFICES ASSUME OnlyOneOnPort(c)', Served(c)'
               PROVE  records'[p] # None /\ records'[p].cell = own'[c]
    BY DEF SoleOf, RegFrame, Registered
  <2>1. st'[c] = st[c] /\ client[c] = "open" /\ port[c] = p /\ dst[c] = d
    BY DEF RegFrame, Served
  <2>2. st[c] # "free"
    BY <1>2, <2>1 DEF OpenedOf
  <2>3. \A f \in Conns : f # c => port'[f] = port[f]
    BY DEF RegFrame
  <2>4. OnlyOneOnPort(c)
    BY <2>1, <2>3 DEF OnlyOneOnPort, RegFrame
  <2>5. Served(c)
    BY <1>1, <2>1 DEF Served, Serving
  <2>6. records[p] # None /\ records[p].dst = d /\ records[p].cell = own[c]
    BY <1>2, <2>1, <2>2, <2>4, <2>5 DEF SoleOf
  <2>7. records' = records
    BY <2>6 DEF Registered, NeedsNewRecord
  <2> QED
    BY <1>1, <2>6, <2>7
<1> QED
  BY <1>5, <1>6, <1>7, <1>9, <1>10 DEF ConnInv

LEMMA OpenInv ==
  ASSUME IInv, NEW c \in Conns, NEW p \in Ports, NEW d \in Dests, Open(c, p, d)
  PROVE  IInv'
<1>1. Registered(p, d)
  BY RegisterFacts DEF IInv, Open
<1>2. RegFrame(c, p, d)
  BY DEF RegFrame, Open, IInv, TypeOK, halves, stop
<1>3. TypeOK'
  BY <1>1 DEF IInv, TypeOK, Registered, Open, halves, stop
<1> QED
  BY <1>1, <1>2, <1>3, RegCellInv, RegPortInv, RegConnInv DEF IInv

LEMMA SendsInv ==
  ASSUME IInv, NEW c \in Conns, ClientPacket(c) \/ ClientClose(c) PROVE IInv'
<1>1. /\ client[c] = "open" /\ Register(port[c], dst[c])
      /\ client' \in {client, [client EXCEPT ![c] = "closed"]}
      /\ UNCHANGED <<port, dst, st, target, own, outer, inner, done, cancelled, api>>
  BY DEF ClientPacket, ClientClose, Sends, net, conn, halves, stop
<1>2. port[c] \in Ports /\ dst[c] \in Dests
  BY <1>1 DEF IInv, ConnInv, OpenedOf
<1>3. PICK p \in Ports, d \in Dests : p = port[c] /\ d = dst[c]
  BY <1>2
<1>4. Registered(p, d)
  BY <1>1, <1>3, RegisterFacts DEF IInv
<1>5. RegFrame(c, p, d)
  BY <1>1, <1>3 DEF RegFrame, IInv, TypeOK
<1>6. TypeOK'
  BY <1>1, <1>4 DEF IInv, TypeOK, Registered
<1> QED
  BY <1>4, <1>5, <1>6, RegCellInv, RegPortInv, RegConnInv DEF IInv

-------------------------------------------------------------------------------
(* Flush and Accept.                                                         *)

\* The counter of a connection that is served, alone on its port, is not 0.
LEMMA ServedNotExpired ==
  ASSUME IInv, NEW c \in Conns, OnlyOneOnPort(c), Served(c)
  PROVE  /\ port[c] \in Ports /\ records[port[c]] # None /\ ~Expired(port[c])
<1>1. OpenedOf(c) /\ HalvesOf(c) /\ CountOf(c) /\ SoleOf(c)
  BY DEF IInv, ConnInv
<1>2. st[c] \in {"lookup", "live"}
  BY DEF Served
<1>3. port[c] \in Ports /\ own[c] \in Cells /\ own[c] # 0
  BY <1>1, <1>2, CellsAreNumbers DEF OpenedOf
<1>4. records[port[c]] # None /\ records[port[c]].cell = own[c]
  BY <1>1, <1>2 DEF SoleOf
<1>5. Alone(c)
  BY <1>3 DEF Alone, OnlyOneOnPort, IInv, CellInv
<1>6. Left(c) # 0
  BY <1>1 DEF Left, Past, Served, Serving, HalfOpen, HalvesOf
<1>7. cell[own[c]] # 0
  BY <1>1, <1>2, <1>5, <1>6 DEF CountOf
<1> QED
  BY <1>3, <1>4, <1>7 DEF Expired

LEMMA FlushInv ==
  ASSUME IInv, Flush PROVE IInv'
<1>1. UNCHANGED <<cell, client, port, dst, st, target, own, outer, inner, done, cancelled, api>>
  BY DEF Flush, net, conn, halves, stop
<1>2. \A p \in Ports : \/ records'[p] = records[p]
                       \/ records[p] # None /\ Expired(p) /\ records'[p] = None
  BY DEF Flush
<1>3. TypeOK'
  <2>1. records' \in [Ports -> Record \cup {None}]
    BY DEF Flush, IInv, TypeOK
  <2> QED
    BY <1>1, <2>1 DEF IInv, TypeOK
<1>4. \A p \in Ports : records'[p] # None => records'[p] = records[p]
  BY <1>2
<1>5. CellInv'
  BY <1>1, <1>4 DEF IInv, CellInv
<1>6. FreshInv'
  BY <1>1, <1>4 DEF IInv, FreshInv, Unheld
<1>7. \A c \in Conns : st[c] # "free" => port[c] \in Ports
  BY DEF IInv, ConnInv, OpenedOf
<1>8. PortInv'
  <2>1. \A c \in Conns : client[c] = "open" => port[c] \in Ports
    BY <1>7 DEF IInv, ConnInv, OpenedOf
  <2> QED
    BY <1>1, <1>4, <2>1 DEF IInv, PortInv
<1>9. ASSUME NEW c \in Conns PROVE SoleOf(c)'
  <2> SUFFICES ASSUME OnlyOneOnPort(c), st[c] # "free"
               PROVE  /\ records'[port[c]] # None => records'[port[c]].dst = dst[c]
                      /\ Served(c) => /\ records'[port[c]] # None
                                      /\ records'[port[c]].cell = own[c]
    BY <1>1 DEF SoleOf, OnlyOneOnPort, Served, Serving
  <2>1. SoleOf(c) /\ port[c] \in Ports
    BY <1>7 DEF IInv, ConnInv
  <2>2. Served(c) => records'[port[c]] = records[port[c]]
    BY <1>2, ServedNotExpired
  <2> QED
    BY <1>4, <2>1, <2>2 DEF SoleOf
<1>10. ASSUME NEW c \in Conns PROVE OpenedOf(c)' /\ HalvesOf(c)' /\ CountOf(c)' /\ DoneOf(c)'
  <2>1. OpenedOf(c) /\ HalvesOf(c) /\ CountOf(c) /\ DoneOf(c)
    BY DEF IInv, ConnInv
  <2>2. Alone(c)' <=> Alone(c)
    BY <1>1 DEF Alone
  <2>3. OpenedOf(c)' /\ HalvesOf(c)'
    BY <1>1, <2>1 DEF OpenedOf, HalvesOf
  <2>4. CountOf(c)' /\ DoneOf(c)'
    BY <1>1, <2>1, <2>2 DEF CountOf, DoneOf, EndedOf, Left, BothGone
  <2> QED
    BY <2>3, <2>4
<1>11. ConnInv'
  BY <1>9, <1>10 DEF ConnInv
<1> QED
  BY <1>3, <1>5, <1>6, <1>8, <1>11 DEF IInv

LEMMA AcceptInv ==
  ASSUME IInv, NEW c \in Conns, Accept(c) PROVE IInv'
<1>1. /\ st[c] = "syn"
      /\ UNCHANGED <<records, cell, client, port, dst, outer, inner, done, cancelled, api>>
  BY DEF Accept, net, halves, stop
<1>2. /\ port[c] \in Ports /\ client[c] # "none" /\ dst[c] \in Dests
      /\ own[c] = 0 /\ target[c] = None /\ outer[c] = "none"
      /\ inner[c] = "none" /\ ~done[c] /\ api[c] = "no"
  BY <1>1 DEF IInv, ConnInv, OpenedOf, HalvesOf
<1>3. PICK k \in Cells \cup {0}, t \in Dests \cup {None}, s \in {"dead", "lookup"} :
        /\ st' = [st EXCEPT ![c] = s]
        /\ own' = [own EXCEPT ![c] = k] /\ target' = [target EXCEPT ![c] = t]
        /\ k = 0 => t = None /\ s = "dead"
        /\ k # 0 => /\ records[port[c]] # None /\ k = records[port[c]].cell
                    /\ t = records[port[c]].dst /\ s = "lookup"
  <2>1. CASE records[port[c]] = None
    <3>1. st' = [st EXCEPT ![c] = "dead"] /\ own' = own /\ target' = target
      BY <2>1 DEF Accept
    <3>2. own = [own EXCEPT ![c] = 0] /\ target = [target EXCEPT ![c] = None]
      BY <1>2 DEF IInv, TypeOK
    <3> QED
      BY <3>1, <3>2
  <2>2. CASE records[port[c]] # None
    <3>1. records[port[c]].cell \in Cells /\ records[port[c]].dst \in Dests
      BY <1>2, <2>2 DEF IInv, TypeOK, Record
    <3> QED
      BY <2>2, <3>1, CellsAreNumbers DEF Accept
  <2> QED
    BY <2>1, <2>2
<1>4. /\ st'[c] = s /\ own'[c] = k /\ target'[c] = t
      /\ \A e \in Conns : e # c => st'[e] = st[e] /\ own'[e] = own[e] /\ target'[e] = target[e]
  BY <1>3 DEF IInv, TypeOK
<1>5. TypeOK'
  BY <1>1, <1>3 DEF IInv, TypeOK
<1>6. CellInv'
  <2>1. \A p \in Ports : records[p] # None => \E e \in Conns : port[e] = p
    BY DEF IInv, CellInv
  <2>2. ASSUME NEW e \in Conns, NEW p \in Ports, own'[e] # 0, records[p] # None,
               records[p].cell = own'[e]
        PROVE  p = port[e]
    <3>1. CASE e = c
      BY <1>2, <1>3, <1>4, <2>2, <3>1 DEF IInv, CellInv
    <3>2. CASE e # c
      BY <1>4, <2>2, <3>2 DEF IInv, CellInv
    <3> QED
      BY <3>1, <3>2
  <2>3. ASSUME NEW e \in Conns, NEW f \in Conns, own'[e] # 0, own'[e] = own'[f]
        PROVE  port[e] = port[f]
    <3>1. ASSUME NEW g \in Conns, g # c, own'[g] = k, k # 0 PROVE port[g] = port[c]
      BY <1>2, <1>3, <1>4, <2>2, <3>1
    <3>2. CASE e # c /\ f # c
      BY <1>4, <2>3, <3>2 DEF IInv, CellInv
    <3> QED
      BY <1>4, <2>3, <3>1, <3>2
  <2>4. \A p, q \in Ports : records[p] # None /\ records[q] # None
                           /\ records[p].cell = records[q].cell => p = q
    BY DEF IInv, CellInv
  <2> QED
    BY <1>1, <2>1, <2>2, <2>3, <2>4 DEF CellInv
<1>7. FreshInv'
  <2> SUFFICES ASSUME NEW p \in Ports, records[p] # None, Unheld(records[p].cell)'
               PROVE  cell[records[p].cell] = 2
    BY <1>1 DEF FreshInv
  <2>1. records[p].cell \in Cells /\ records[p].cell # 0
    BY CellsAreNumbers DEF IInv, TypeOK, Record
  <2>2. Unheld(records[p].cell)
    BY <1>1, <1>2, <1>4, <2>1 DEF Unheld
  <2> QED
    BY <2>2 DEF IInv, FreshInv
<1>8. PortInv'
  BY <1>1, <1>3, <1>4 DEF IInv, PortInv
<1>9. ASSUME NEW e \in Conns, e # c
      PROVE  OpenedOf(e)' /\ HalvesOf(e)' /\ CountOf(e)' /\ DoneOf(e)' /\ SoleOf(e)'
  <2>1. st'[e] = st[e] /\ own'[e] = own[e] /\ target'[e] = target[e]
    BY <1>4, <1>9
  <2>2. OpenedOf(e) /\ HalvesOf(e) /\ CountOf(e) /\ DoneOf(e) /\ SoleOf(e)
    BY DEF IInv, ConnInv
  <2>3. OpenedOf(e)' /\ HalvesOf(e)'
    BY <1>1, <2>1, <2>2 DEF OpenedOf, HalvesOf
  <2>4. ASSUME st[e] \in {"lookup", "live"}, Alone(e)' PROVE Alone(e)
    <3>1. own[e] # 0
      BY <2>2, <2>4, CellsAreNumbers DEF OpenedOf
    <3> QED
      BY <1>2, <1>4, <2>1, <2>4, <3>1 DEF Alone
  <2>5. CountOf(e)' /\ DoneOf(e)'
    BY <1>1, <2>1, <2>2, <2>4 DEF CountOf, DoneOf, EndedOf, Left, BothGone
  <2>6. SoleOf(e)'
    BY <1>1, <2>1, <2>2 DEF SoleOf, OnlyOneOnPort, Served, Serving
  <2> QED
    BY <2>3, <2>5, <2>6
<1>10. OpenedOf(c)' /\ HalvesOf(c)' /\ DoneOf(c)'
  BY <1>1, <1>2, <1>3, <1>4, CellsAreNumbers DEF OpenedOf, HalvesOf, DoneOf
<1>11. CountOf(c)'
  <2> SUFFICES ASSUME k # 0, Alone(c)' PROVE cell[k] = 2
    BY <1>1, <1>2, <1>3, <1>4 DEF CountOf, Left, Past
  <2>1. Unheld(k)
    BY <1>2, <1>4 DEF Alone, Unheld
  <2> QED
    BY <1>2, <1>3, <2>1 DEF IInv, FreshInv
<1>12. SoleOf(c)'
  <2>1. SoleOf(c)
    BY DEF IInv, ConnInv
  <2>2. OnlyOneOnPort(c)' <=> OnlyOneOnPort(c)
    BY <1>1 DEF OnlyOneOnPort
  <2> QED
    BY <1>1, <1>3, <1>4, <2>1, <2>2 DEF SoleOf, Served
<1>13. ConnInv'
  BY <1>9, <1>10, <1>11, <1>12 DEF ConnInv
<1> QED
  BY <1>5, <1>6, <1>7, <1>8, <1>13 DEF IInv

-------------------------------------------------------------------------------

LEMMA StepInv == IInv /\ [Next]_vars => IInv'
<1> SUFFICES ASSUME IInv, [Next]_vars PROVE IInv'
  OBVIOUS
<1>1. CASE Flush
  BY <1>1, FlushInv
<1>2. ASSUME NEW c \in Conns, NEW p \in Ports, NEW d \in Dests, Open(c, p, d)
      PROVE  IInv'
  BY <1>2, OpenInv
<1>3. ASSUME NEW c \in Conns, ClientPacket(c) \/ ClientClose(c) PROVE IInv'
  BY <1>3, SendsInv
<1>4. ASSUME NEW c \in Conns, Accept(c) PROVE IInv'
  BY <1>4, AcceptInv
<1>5. ASSUME NEW c \in Conns, \/ DispatchOk(c) \/ DispatchReject(c)
                              \/ DispatchBlackHole(c) \/ DispatchBadCert(c)
      PROVE  IInv'
  BY <1>5, DispatchInv
<1>6. ASSUME NEW c \in Conns, StoreZero(c) PROVE IInv'
  BY <1>6, StoreZeroInv
<1>7. ASSUME NEW c \in Conns, FirstPoll(c) \/ AbortBeforePoll(c) PROVE IInv'
  BY <1>7, FirstPollInv
<1>8. ASSUME NEW c \in Conns, EndOuter(c) \/ EndInner(c) PROVE IInv'
  BY <1>8, EndOuterInv, EndInnerInv
<1>9. ASSUME NEW c \in Conns, CheckOuter(c) \/ CheckInner(c) PROVE IInv'
  BY <1>9, CheckOuterInv, CheckInnerInv
<1>10. ASSUME NEW c \in Conns, Cancel(c) \/ StopConn(c) \/ StopMarks(c) PROVE IInv'
  BY <1>10, StopInv
<1>11. CASE UNCHANGED vars
  <2>1. UNCHANGED <<records, cell, client, port, dst, st, target, own, outer,
                    inner, done, cancelled, api>>
    BY <1>11 DEF vars, net, conn, halves, stop
  <2>2. TypeOK'
    BY <2>1 DEF IInv, TypeOK
  <2>3. CellInv' /\ FreshInv'
    BY <2>1 DEF IInv, CellInv, FreshInv, Unheld
  <2>4. PortInv'
    BY <2>1 DEF IInv, PortInv
  <2>5. ConnInv'
    BY <2>1 DEF IInv, ConnInv, OpenedOf, HalvesOf, CountOf, DoneOf, EndedOf,
                SoleOf, Alone, Left, BothGone, OnlyOneOnPort, Served, Serving
  <2> QED
    BY <2>2, <2>3, <2>4, <2>5 DEF IInv
<1> QED
  BY <1>1, <1>2, <1>3, <1>4, <1>5, <1>6, <1>7, <1>8, <1>9, <1>10, <1>11
     DEF Next

\* The invariant holds in every state SessionManager, the listener and the
\* adapters can reach, however clients reuse their ports.
THEOREM TcpInvariantHolds == Spec => []IInv
  BY InitInv, StepInv, PTL DEF Spec

\* FinishedWithBothHalves: whichever guard of TcpAdapter::run is dropped last,
\* one of the two loads reads 0 and marks the context, and none does before;
\* only ConnContext::abort, called by the API, marks it earlier, and it has
\* cancelled the adapter's task then.
THEOREM ContextFinishedOnTime == Spec => []FinishedWithBothHalves
<1>1. IInv => FinishedWithBothHalves
  BY DEF IInv, ConnInv, DoneOf, EndedOf, HalvesOf, FinishedWithBothHalves, Serving,
         HalfOpen, Past
<1> QED
  BY <1>1, TcpInvariantHolds, PTL

\* RepliesRewritten: SessionManager::flush never takes the record of a
\* connection the adapter still serves, on a port no other connection used.
THEOREM RecordOutlivesAdapter == Spec => []RepliesRewritten
<1>1. ASSUME IInv PROVE RepliesRewritten
  <2> SUFFICES ASSUME NEW c \in Conns, st[c] = "live", Serving(c), OnlyOneOnPort(c)
               PROVE  ReplyFrom(c) = dst[c]
    BY DEF RepliesRewritten
  <2>1. SoleOf(c) /\ Served(c)
    BY <1>1 DEF IInv, ConnInv, Served
  <2> QED
    BY <2>1 DEF SoleOf, ReplyFrom
<1> QED
  BY <1>1, TcpInvariantHolds, PTL

\* DispatchedToItsDest: unless a client's kernel lets two open connections
\* share a source port, TunTcpInbound dispatches every connection to the
\* destination its client asked for.
THEOREM DispatchedRight ==
  ASSUME PortReuse # "shared"
  PROVE  Spec => []DispatchedToItsDest
<1>1. IInv => DispatchedToItsDest
  BY DEF IInv, PortInv, DispatchedToItsDest
<1> QED
  BY <1>1, TcpInvariantHolds, PTL
===============================================================================
