------------------------------- MODULE DnsTable -------------------------------
(***************************************************************************)
(* DnsTable of src/boltconn/src/network/dns/dns_table.rs: the two-way map  *)
(* between domain names and the fake addresses BoltConn answers DNS        *)
(* queries with.  All operations hold one mutex, so each is one action.    *)
(* Domain names are taken without their trailing dot (the code strips it). *)
(* available_ips is a stack, but what the flushes push on it is in the     *)
(* order of a HashMap iteration; it is a set here and pop takes any.       *)
(***************************************************************************)
EXTENDS Naturals, FiniteSets

CONSTANTS Domains,          \* domain names clients ask for
          Ips,              \* the fake addresses (198.19.0.0/16 in the code)
          LowMark,          \* below this many free addresses, flush (1024)
          StaleTime,        \* stale_time (3600s)
          MaxTime,          \* bound: the clock stops here
          NoEntry           \* no entry

ASSUME DTAssumption == /\ Ips # {} /\ IsFiniteSet(Ips)
                       /\ LowMark \in Nat \ {0}
                       /\ StaleTime \in Nat /\ MaxTime \in Nat
                       /\ NoEntry \notin Ips /\ NoEntry \notin Domains

VARIABLES tab,              \* [dn, ip, avail]: dn_table, ip_table, available_ips
          last,             \* last_time of the record of a domain
          now,              \* Instant::now()
          panicked          \* available_ips.pop().unwrap() failed

tableVars == <<tab, last, now, panicked>>

TableInit == /\ tab = [dn    |-> [d \in Domains |-> NoEntry],
                       ip    |-> [i \in Ips |-> NoEntry],
                       avail |-> Ips]
             /\ last = [d \in Domains |-> 0]
             /\ now = 0
             /\ panicked = FALSE

-------------------------------------------------------------------------------

\* The two retain()s of the flushes: keep the records of the domains in K and
\* give the addresses of the others back.
RetainForgettingIps(t, K) ==
  [dn    |-> [d \in Domains |-> IF d \in K THEN t.dn[d] ELSE NoEntry],
   ip    |-> t.ip,
   avail |-> t.avail \cup {i \in Ips : t.ip[i] # NoEntry /\ t.ip[i] \notin K}]
Retain(t, K) ==
  [dn    |-> [d \in Domains |-> IF d \in K THEN t.dn[d] ELSE NoEntry],
   ip    |-> [i \in Ips |-> IF t.ip[i] \in K THEN t.ip[i] ELSE NoEntry],
   avail |-> t.avail \cup {i \in Ips : t.ip[i] # NoEntry /\ t.ip[i] \notin K}]

\* flush_expiration keeps the records whose age is above the threshold.
FlushExpiration(t) == Retain(t, {d \in Domains : now - last[d] > StaleTime})

\* flush_older: the oldest timestamp m of the first 30% of ip_table (any such
\* sample, the map is unordered; now when it is empty); keep what is newer.
Entries(t) == {i \in Ips : t.ip[i] # NoEntry}
IsSample(t, S) == Cardinality(S) = (3 * Cardinality(Entries(t))) \div 10
IsMinTs(t, S, m) == /\ m \in {now} \cup {last[t.ip[i]] : i \in S}
                    /\ \A i \in S : m <= last[t.ip[i]]
MinTimestamps(t) ==
  {m \in 0 .. now : \E S \in SUBSET Entries(t) : IsSample(t, S) /\ IsMinTs(t, S, m)}
KeptByFlushOlderInclusive(m) == {d \in Domains : last[d] >= m}
KeptByFlushOlder(m) == {d \in Domains : last[d] > m}
FlushOlder(t, m) == Retain(t, KeptByFlushOlder(m))

\* The tables in which query_by_domain_name may look the name up, after the
\* flushes it begins with.
IsLow(t) == Cardinality(t.avail) < LowMark
TrimmedWithoutFlushOlder(t) == IF IsLow(t) THEN {FlushExpiration(t)} ELSE {t}
Trimmed(t) ==
  IF ~IsLow(t) THEN {t}
  ELSE LET e == FlushExpiration(t)
       IN  IF ~IsLow(e) THEN {e} ELSE {FlushOlder(e, m) : m \in MinTimestamps(e)}

-------------------------------------------------------------------------------

\* query_by_domain_name, for an A query answered by respond_to_query.
Touch(d) == last' = [last EXCEPT ![d] = now]

Hit(u, d) == /\ u.dn[d] # NoEntry
             /\ tab' = u
             /\ Touch(d)
             /\ UNCHANGED panicked

InsertKeepingIpFree(u, d, i) == [dn    |-> [u.dn EXCEPT ![d] = i],
                                 ip    |-> [u.ip EXCEPT ![i] = d],
                                 avail |-> u.avail]
Insert(u, d, i) == [dn    |-> [u.dn EXCEPT ![d] = i],
                    ip    |-> [u.ip EXCEPT ![i] = d],
                    avail |-> u.avail \ {i}]

Miss(u, d) == /\ u.dn[d] = NoEntry
              /\ IF u.avail = {}
                 THEN panicked' = TRUE /\ UNCHANGED <<tab, last>>
                 ELSE /\ \E i \in u.avail : tab' = Insert(u, d, i)
                      /\ Touch(d)
                      /\ UNCHANGED panicked

QueryByDomainName(d) == /\ ~panicked
                        /\ \E u \in Trimmed(tab) : Hit(u, d) \/ Miss(u, d)
                        /\ UNCHANGED now

\* query_by_ip, from fake_ip_to_domain and ip_to_real_ip.
QueryByIp(i) == /\ ~panicked
                /\ tab.ip[i] # NoEntry
                /\ last[tab.ip[i]] # now
                /\ Touch(tab.ip[i])
                /\ UNCHANGED <<tab, now, panicked>>

Tick == /\ now < MaxTime
        /\ now' = now + 1
        /\ UNCHANGED <<tab, last, panicked>>

TableNext == \/ \E d \in Domains : QueryByDomainName(d)
             \/ \E i \in Ips : QueryByIp(i)
             \/ Tick

TableSpec == TableInit /\ [][TableNext]_tableVars

-------------------------------------------------------------------------------
(* Properties *)

\* The variables stay in their ranges.
TableTypeOK == /\ tab \in [dn : [Domains -> Ips \cup {NoEntry}],
                           ip : [Ips -> Domains \cup {NoEntry}],
                           avail : SUBSET Ips]
               /\ last \in [Domains -> Nat]
               /\ now \in Nat
               /\ \A d \in Domains : last[d] <= now
               /\ panicked \in BOOLEAN

\* What the two maps and the free list must agree on.
Consistent(t) ==
  /\ \A d \in Domains : t.dn[d] # NoEntry => t.ip[t.dn[d]] = d
  /\ \A i \in Ips : t.ip[i] # NoEntry => t.dn[t.ip[i]] = i
  /\ \A i \in Ips : t.ip[i] = NoEntry <=> i \in t.avail

\* The two maps are each other's inverse and every address is either free or
\* in use, never both and never lost, whatever is flushed and when: no two
\* domains share a fake address.
TablesAgree == Consistent(tab)

\* available_ips.pop().unwrap() never panics: the flushes before it always
\* leave a free address, with the "remove at least 1 entry" of flush_older.
PopNeverFails == ~panicked

\* What stale_time and flush_expiration are for: a record that was used within
\* the stale time, whose address clients may still hold, is not evicted in a
\* step that keeps a record which expired.
FreshRecord(d) == tab.dn[d] # NoEntry /\ now - last[d] <= StaleTime
ExpiredRecord(d) == tab.dn[d] # NoEntry /\ now - last[d] > StaleTime
ExpiredEvictedFirst ==
  [][\A d, e \in Domains :
        /\ FreshRecord(d) /\ tab'.dn[d] # tab.dn[d]
        /\ ExpiredRecord(e)
        => tab'.dn[e] # tab.dn[e]]_tableVars
===============================================================================
