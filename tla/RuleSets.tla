------------------------------- MODULE RuleSets -------------------------------
(***************************************************************************)
(* Single rules, rule sets and the host matcher: src/boltconn/src/         *)
(* dispatch/rule.rs, ruleset.rs and inbound.rs, common/host_matcher.rs,    *)
(* and the payloads config/mod.rs loads.  Pure operators; an optional      *)
(* value is a set of at most one element.                                  *)
(*                                                                         *)
(* A connection is a record                                                *)
(*   [net, srcip, srcport, dst, local, inbound, resolved, proc]            *)
(* whose dst is [kind: "raw" | "name", host, port]: the host is an address *)
(* or a domain name, a sequence of characters.  A rule is [t, v]: its      *)
(* prefix and its parsed content, a CIDR being the set of its addresses    *)
(* and a keyword or a regular expression the set of what it matches.       *)
(***************************************************************************)
EXTENDS Integers, Sequences, FiniteSets, SequencesExt

CONSTANTS Ports,            \* port numbers in use
          Country, Asn      \* the mmdb: address -> set of at most one code

\* ConnInfo::dst_addr: the address of the destination, when one is known.
DstAddr(info) == IF info.dst.kind = "raw" THEN {info.dst.host} ELSE info.resolved
DstName(info) == IF info.dst.kind = "name" THEN {info.dst.host} ELSE {}

\* InboundIdentity::contains and InboundInfo::contains: what the rule leaves
\* open (an empty user or port) matches everything.
IdentityContains(me, rhs) ==
  /\ me.user # {} => me.user = rhs.user
  /\ me.port # {} => me.port = rhs.port
InboundContains(me, rhs) ==
  me.kind = rhs.kind /\ (me.kind = "tun" \/ IdentityContains(me, rhs))

\* RuleImpl::DomainSuffix: the name itself or a name below it.
SuffixMatches(d, name) ==
  \/ name = d
  \/ /\ Len(name) > Len(d)
     /\ IsSuffix(d, name)
     /\ name[Len(name) - Len(d)] = "."

\* PortRule: the transports and the ports a rule is for.
PortRule(nets, ports) == [nets |-> nets, ports |-> ports]
AnyTcp == PortRule({"tcp"}, Ports)
AnyUdp == PortRule({"udp"}, Ports)
PortMatches(r, net, port) == net \in r.nets /\ port \in r.ports

-------------------------------------------------------------------------------
(* HostMatcher: a radix tree over reversed names.  get_ancestor returns the *)
(* entry with the longest key that is a prefix of the reversed name, and    *)
(* only that entry decides; of two entries with one key the later remains.  *)

Entry(type, name) == [type |-> type, key |-> Reverse(name)]
HostMatchesAnyBoundary(entries, host) ==
  \E i \in DOMAIN entries : IsPrefix(entries[i].key, Reverse(host))
HostMatches(entries, host) ==
  LET rev  == Reverse(host)
      cand == {i \in DOMAIN entries : IsPrefix(entries[i].key, rev)}
      best == CHOOSE i \in cand : \A j \in cand :
                 \/ Len(entries[i].key) > Len(entries[j].key)
                 \/ Len(entries[i].key) = Len(entries[j].key) /\ i >= j
      len  == Len(entries[best].key)
  IN  /\ cand # {}
      /\ \/ len = Len(rev)
         \/ entries[best].type = "suffix" /\ rev[len + 1] = "."

-------------------------------------------------------------------------------
(* RuleSet.                                                                 *)

\* RuleSet::matches.  The inbound and the source and local networks a set
\* was built from are not consulted.
RuleSetMatches(rs, info) ==
  \/ \E a \in DstAddr(info) : a \in rs.ip
  \/ \E n \in DstName(info) : HostMatches(rs.domain, n) \/ n \in rs.domain_keyword
  \/ <<info.net, info.dst.port>> \in rs.dst_port
  \/ <<info.net, info.srcport>> \in rs.src_port
  \/ \E p \in info.proc : \/ p.name \in rs.process_name
                          \/ p.name \in rs.process_keyword
                          \/ p.path \in rs.procpath_keyword

\* The contents of the lines of a payload with one of these prefixes.
Lines(payload, ts) == {i \in DOMAIN payload : payload[i].t \in ts}
Contents(payload, ts) == {payload[i].v : i \in Lines(payload, ts)}
PortPairs(payload, t) ==
  UNION {r.nets \X r.ports : r \in Contents(payload, {t})}
DomainEntries(payload) ==
  [i \in Lines(payload, {"DOMAIN", "DOMAIN-SUFFIX"}) |->
     Entry(IF payload[i].t = "DOMAIN" THEN "exact" ELSE "suffix", payload[i].v)]

\* RuleSetBuilder::new then build: the lines are sorted into one matcher per
\* kind.  A line that does not parse, or is of a kind a set cannot hold (the
\* database of GEOIP and ASN is never given to the builder), refuses the
\* whole set.  Payloads of the domain and ipcidr behaviours are sets of
\* DOMAIN, DOMAIN-SUFFIX and IP-CIDR lines.
SetKinds == {"INBOUND", "PROCESS-NAME", "PROCESS-KEYWORD", "PROC-PATH-KEYWORD",
             "DOMAIN", "DOMAIN-SUFFIX", "DOMAIN-KEYWORD", "LOCAL-IP-CIDR",
             "SRC-IP-CIDR", "IP-CIDR", "SRC-PORT", "DST-PORT"}
RuleSetOk(payload) == \A r \in ToSet(payload) : r.t \in SetKinds
RuleSet(payload) ==
  [ip               |-> UNION Contents(payload, {"IP-CIDR"}),
   domain           |-> DomainEntries(payload),
   domain_keyword   |-> UNION Contents(payload, {"DOMAIN-KEYWORD"}),
   dst_port         |-> PortPairs(payload, "DST-PORT"),
   src_port         |-> PortPairs(payload, "SRC-PORT"),
   process_name     |-> Contents(payload, {"PROCESS-NAME"}),
   process_keyword  |-> UNION Contents(payload, {"PROCESS-KEYWORD"}),
   procpath_keyword |-> UNION Contents(payload, {"PROC-PATH-KEYWORD"})]

-------------------------------------------------------------------------------
(* RuleImpl::matches for the rules that hold no other rule or set.           *)

LineMatches(r, info) ==
  CASE r.t = "DOMAIN"            -> r.v \in DstName(info)
    [] r.t = "DOMAIN-SUFFIX"     -> \E n \in DstName(info) : SuffixMatches(r.v, n)
    [] r.t = "DOMAIN-KEYWORD"    -> \E n \in DstName(info) : n \in r.v
    [] r.t = "LOCAL-IP-CIDR"     -> \E a \in info.local : a \in r.v
    [] r.t = "SRC-IP-CIDR"       -> info.srcip \in r.v
    [] r.t = "IP-CIDR"           -> \E a \in DstAddr(info) : a \in r.v
    [] r.t = "GEOIP"             -> \E a \in DstAddr(info) : r.v \in Country[a]
    [] r.t = "ASN"               -> \E a \in DstAddr(info) : r.v \in Asn[a]
    [] r.t = "SRC-PORT"          -> PortMatches(r.v, info.net, info.srcport)
    [] r.t = "DST-PORT"          -> PortMatches(r.v, info.net, info.dst.port)
    [] r.t = "INBOUND"           -> InboundContains(r.v, info.inbound)
    [] r.t = "PROCESS-NAME"      -> \E p \in info.proc : p.name = r.v
    [] r.t = "PROCESS-KEYWORD"   -> \E p \in info.proc : p.name \in r.v
    [] r.t = "PROC-PATH-KEYWORD" -> \E p \in info.proc : p.path \in r.v
    [] r.t = "PROC-CMD-REGEX"    -> \E p \in info.proc : p.cmdline \in r.v
    [] r.t = "ALWAYS"            -> TRUE
    [] OTHER                     -> FALSE

-------------------------------------------------------------------------------
(* LoadedConfig::load_config: the rule sets of the modules are added to      *)
(* those of the configuration, a later one in place of an earlier one.       *)

LoadedPayloads(cfg) ==
  FoldLeft(LAMBDA f, m : [n \in DOMAIN f \cup DOMAIN m.sets |->
                            IF n \in DOMAIN m.sets THEN m.sets[n] ELSE f[n]],
           cfg.sets, cfg.modules)
===============================================================================
