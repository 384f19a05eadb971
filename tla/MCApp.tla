-------------------------------- MODULE MCApp ---------------------------------
(* Instance of App for TLC, with Dispatching. *)
EXTENDS AppDispatching

MCPorts == {1, 2}
MCCountry == [a \in {"ip1", "ip2"} |-> IF a = "ip1" THEN {"CN"} ELSE {}]
MCAsn == [a \in {"ip1", "ip2"} |-> IF a = "ip2" THEN {7} ELSE {}]

\* Names: m, a.m, b.a.m and xa.m, which ends like a.m but is not below it.
NM == <<"m">>
NAM == <<"a", ".", "m">>
NBAM == <<"b", ".", "a", ".", "m">>
NXAM == <<"x", "a", ".", "m">>

Name(n, p) == [kind |-> "name", host |-> n, port |-> p]
Raw(a, p)  == [kind |-> "raw", host |-> a, port |-> p]
TunIn  == [kind |-> "tun", user |-> {}, port |-> {}]
HttpIn(u, p) == [kind |-> "http", user |-> u, port |-> p]
Curl == [name |-> "curl", path |-> "/bin/curl", cmdline |-> "curl"]
Info(net, dst, inb, proc) ==
  [net |-> net, srcip |-> "ip2", srcport |-> 2, dst |-> dst, local |-> {"ip2"},
   inbound |-> inb, resolved |-> {}, proc |-> proc]

R(t, v) == [t |-> t, v |-> v]
Rule(r, p) == [t |-> "rule", rule |-> r, proxy |-> p]
Fallback(p) == [t |-> "fallback", proxy |-> p]
Resolve == [t |-> "resolve"]
Sub(r, ls) == [t |-> "sub", rule |-> r, lines |-> ls]
Instr(r) == [t |-> "instrument", rule |-> r, valid |-> TRUE]

-------------------------------------------------------------------------------
Proxy(n, k, u) == [name |-> n, kind |-> k, udp |-> u, bad |-> {}]
Group(n, ps, prov, ch) ==
  [name |-> n, proxies |-> ps, providers |-> prov, chains |-> ch, iface |-> {"eth1"}]
P1 == Proxy("p1", "trojan", TRUE)
P2 == Proxy("p2", "http", FALSE)

Cfg(ps, provided, groups, rules, sets, mods) ==
  [readable |-> TRUE, dns |-> TRUE, mmdb |-> TRUE, intercept |-> TRUE, tun |-> FALSE,
   proxies |-> ps, provided |-> provided, groups |-> groups, rules |-> rules,
   sets |-> sets, modules |-> mods]

\* The running program: a group within a group, a chain with a group in it, a
\* rule set, a module in front.
AMSet == [s |-> <<R("DOMAIN-SUFFIX", NAM)>>]
MainRules ==
  <<Sub(R("INBOUND", TunIn),
        <<Rule(R("RULE-SET", "s"), "p1"), Resolve, Rule(R("GEOIP", "CN"), "g3"),
          Fallback("BLACKHOLE")>>),
    Instr(R("ALWAYS", 0)), Fallback("g1")>>
Module == [rules |-> <<Rule(R("AND", <<R("DST-PORT", PortRule({"udp"}, {2})),
                                       R("NOT", R("RULE-SET", "s"))>>), "g2")>>,
           sets |-> AMSet]
G2 == Group("g2", {<<"g1">>}, {}, {})
G3 == Group("g3", {}, {}, {<<"p1", "g1">>})
CfgA == [Cfg(<<P1, P2>>, <<>>, <<G2, Group("g1", {<<"p1", "DIRECT">>}, {}, {}), G3>>,
             MainRules, <<>>, <<Module>>) EXCEPT !.tun = TRUE]
CfgB == Cfg(<<P1>>, <<>>, <<Group("g1", {<<"p1">>}, {}, {}), G2, G3>>, MainRules,
            <<>>, <<Module>>)
CfgBad == [CfgA EXCEPT !.rules = <<Rule(R("ASN", 7), "nowhere"), Fallback("g1")>>]
CfgPanic == [CfgA EXCEPT !.groups = <<G2, Group("g1", {<<>>}, {}, {})>>,
                         !.rules = <<Fallback("DIRECT")>>, !.modules = <<>>]
MCRunConfigs == {CfgA, CfgB, CfgBad, CfgPanic}

MCInfos == {Info("tcp", Name(NBAM, 1), TunIn, {}), Info("tcp", Name(NM, 1), TunIn, {}),
            Info("udp", Name(NM, 2), HttpIn({"u"}, {1}), {})}
MCAnswers == {{}, {"ip1"}}
MCTempRules == {Rule(R("DOMAIN-SUFFIX", NM), "p2")}
MCInitStates ==
  {[sel |-> <<>>, temp |-> <<>>],
   [sel |-> <<>>, temp |-> <<Resolve, Rule(R("IP-CIDR", {"ip1"}), "DIRECT")>>]}

\* Beside the reload, the crash and the edit: API calls while a connection is
\* routed, API calls whose write of state.yml may fail, or changes of the TUN
\* mode.
Budget(a, t, c, f) == [reload |-> 1, api |-> a, tun |-> t, edit |-> 1, stop |-> 1,
                       conn |-> c, fault |-> f]
MCBudgets == {Budget(2, 0, 1, 0), Budget(2, 0, 0, 1), Budget(0, 3, 0, 0)}
RaceBudgets == {Budget(2, 0, 0, 0)}

-------------------------------------------------------------------------------
\* Configurations to validate: every small graph of groups, with members,
\* chains, providers and both; and rule sets of every pair of lines.
Lists == {{<<>>}, {<<"p1">>}, {<<"g1">>}, {<<"g2">>}, {<<"p1", "g3">>}, {<<"g2", "g3">>},
          {<<"nowhere">>}}
Prov(n, keep, ok) == {<<[name |-> n, keep |-> keep, filterok |-> ok]>>}
Shapes(n) == {Group(n, l, {}, {}) : l \in Lists} \cup {Group(n, {}, {}, l) : l \in Lists}
G3Shapes == {Group("g3", {<<"p1">>}, {}, {<<"p1">>}), Group("g3", {}, {}, {}),
             Group("g3", {}, Prov("v", {"q1"}, TRUE), {}),
             Group("g3", {}, Prov("v", {}, TRUE), {}),
             Group("g3", {<<"p1">>}, Prov("v", {"q1"}, FALSE), {}),
             Group("g3", {<<"q1">>}, Prov("w", {"q1"}, TRUE), {}),
             Group("g3", {<<"g1">>}, {}, {}), Group("g3", {}, {}, {<<"p1", "g2">>})}
GraphConfigs ==
  {Cfg(<<P1, p>>, [v |-> <<q>>], <<a, b, c>>, <<Fallback("DIRECT")>>, <<>>, <<>>) :
     a \in Shapes("g1"), b \in Shapes("g2"), c \in G3Shapes,
     p \in {P2}, q \in {Proxy("q1", "ssh", FALSE)}}
   \cup
  {Cfg(<<P1, p>>, [v |-> <<q>>], <<a>>, <<Fallback("DIRECT")>>, <<>>, <<>>) :
     a \in Shapes("g1"),
     p \in {P2, Proxy("g1", "socks5", TRUE), Proxy("REJECT", "http", FALSE)},
     q \in {Proxy("q1", "ssh", FALSE), Proxy("p1", "ssh", FALSE),
            [Proxy("q1", "wireguard", TRUE) EXCEPT !.bad = {"endpoint"}],
            [Proxy("q1", "trojan", TRUE) EXCEPT !.bad = {"cipher"}],
            [Proxy("q1", "shadowsocks", TRUE) EXCEPT !.bad = {"cipher"}]}}

SetLines ==
  {R("DOMAIN", NAM), R("DOMAIN", NM), R("DOMAIN-SUFFIX", NAM), R("DOMAIN-SUFFIX", NM),
   R("DOMAIN-SUFFIX", NBAM), R("DOMAIN-KEYWORD", {NXAM, NAM}), R("IP-CIDR", {"ip1"}),
   R("SRC-IP-CIDR", {"ip2"}), R("DST-PORT", AnyUdp), R("DST-PORT", PortRule({"tcp"}, {1})),
   R("SRC-PORT", PortRule({"tcp", "udp"}, {1})), R("SRC-PORT", AnyTcp),
   R("INBOUND", HttpIn({"u"}, {})), R("PROCESS-NAME", "curl"),
   R("PROCESS-KEYWORD", {"curl"}), R("PROC-PATH-KEYWORD", {"/bin/curl"}),
   R("PROC-CMD-REGEX", {"curl"}), R("OR", <<R("ALWAYS", 0), R("NEVER", 0)>>)}
SetConfigs ==
  {Cfg(<<>>, <<>>, <<>>, <<Fallback("DIRECT")>>, [s |-> <<a, b>>], <<>>) :
     a \in SetLines, b \in SetLines}
MCCheckConfigs == GraphConfigs \cup SetConfigs
MCProbes ==
  {[i EXCEPT !.resolved = r] :
     r \in {{}, {"ip1"}},
     i \in {Info(n, d, inb, p) :
              n \in {"tcp", "udp"}, p \in {{}, {Curl}},
              d \in {Name(NM, 2), Name(NAM, 1), Name(NXAM, 2), Name(NBAM, 1), Raw("ip1", 2)},
              inb \in {HttpIn({"u"}, {1}), HttpIn({}, {1})}}}
===============================================================================
