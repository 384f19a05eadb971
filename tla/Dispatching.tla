----------------------------- MODULE Dispatching ------------------------------
(***************************************************************************)
(* src/boltconn/src/dispatch/dispatching.rs, proxy.rs, temporary.rs and    *)
(* action.rs: how a loaded configuration becomes a Dispatching (proxies,   *)
(* groups in topological order, rule lists), and how a Dispatching routes  *)
(* a connection.  Pure operators; App.tla holds the state.                 *)
(*                                                                         *)
(* A proxy or a group is represented by its name, as the maps of the       *)
(* builder key them.  A builder is [st, proxies, groups, queued] with st   *)
(* one of "ok", "err" (a ConfigError was returned) and "panic".            *)
(***************************************************************************)
EXTENDS Rules

Fail(b)  == [b EXCEPT !.st = "err"]
Panic(b) == [b EXCEPT !.st = "panic"]
Known(b) == DOMAIN b.proxies \cup DOMAIN b.groups
Put(f, k, v) == [x \in DOMAIN f \cup {k} |-> IF x = k THEN v ELSE f[x]]

\* DispatchingBuilder::empty: the three built-in proxies.
EmptyBuilder ==
  [st |-> "ok", groups |-> <<>>, queued |-> {},
   proxies |-> [n \in {"DIRECT", "REJECT", "BLACKHOLE"} |-> [kind |-> n, udp |-> TRUE]]]

\* ProxyImpl::support_udp: a chain is assumed to support it.
SupportUdp(p) == CASE p.kind \in {"socks5", "shadowsocks", "trojan"} -> p.udp
                   [] p.kind \in {"http", "ssh"}                     -> FALSE
                   [] OTHER                                          -> TRUE

\* parse_proxies, the arms of its match: p.bad are the fields of the entry that
\* are missing or malformed, and each kind refuses those it depends on.
WireguardOk(p) == p.bad \cap {"local_addr", "endpoint", "private_key", "public_key",
                              "preshared_key", "dns"} = {}
SshOk(p) == p.bad \cap {"private_key", "password", "host_pubkey"} = {}
FieldsOk(p) == CASE p.kind = "shadowsocks" -> "cipher" \notin p.bad
                 [] p.kind = "wireguard"   -> WireguardOk(p)
                 [] p.kind = "ssh"         -> SshOk(p)
                 [] OTHER                  -> TRUE
ParseProxy(b, p) ==
  CASE b.st # "ok"                      -> b
    [] p.name \in Known(b) \/ ~FieldsOk(p) -> Fail(b)
    [] OTHER -> [b EXCEPT !.proxies = Put(@, p.name, [kind |-> p.kind, udp |-> p.udp])]
ParseProxies(b, ps) == FoldLeft(ParseProxy, b, ps)

-------------------------------------------------------------------------------
(* Groups.  A group of the configuration is [name, proxies, providers,      *)
(* chains, iface], each list optional.                                      *)

\* RawProxyGroupCfg::roughly_validate: either members or a chain.
RoughlyValidateAny(g) == g.proxies # {} \/ g.providers # {} \/ g.chains # {}
RoughlyValidate(g) == (g.proxies # {} \/ g.providers # {}) # (g.chains # {})

TheList(opt) == IF opt = {} THEN <<>> ELSE CHOOSE l \in opt : TRUE
GroupNamed(cfg, n) == CHOOSE g \in ToSet(cfg.groups) : g.name = n
GroupNames(cfg) == {g.name : g \in ToSet(cfg.groups)}

\* The proxies a group takes from its providers: all, or those whose name
\* passes the filter.
ProviderOk(cfg, p) == p.filterok /\ p.name \in DOMAIN cfg.provided
Provided(cfg, p) ==
  SelectSeq([i \in DOMAIN cfg.provided[p.name] |-> cfg.provided[p.name][i].name],
            LAMBDA n : n \in p.keep)
ProviderMembers(cfg, g) ==
  LET ps == TheList(g.providers)
  IN  FlattenSeq([i \in DOMAIN ps |-> Provided(cfg, ps[i])])

\* The end of parse_group: an empty group is skipped.  What is selected in a
\* new group is App!RestoreSelection.
PutGroup(b, g, members) ==
  IF members = <<>> THEN b
  ELSE [b EXCEPT !.groups = Put(@, g.name, [members |-> members, iface |-> g.iface])]

\* parse_group and parse_one_proxy: a member that is not known yet is a group
\* to parse first; the names on the way there are queued, so that a cycle is
\* found.  The group of a member may have been skipped: then unwrap panics.
RECURSIVE ParseGroup(_, _, _, _), ParseMembers(_, _, _, _)
ParseOneProxy(b, cfg, p, name) ==
  LET r == ParseGroup([b EXCEPT !.queued = @ \cup {name}], cfg,
                      GroupNamed(cfg, p), TRUE)
  IN  CASE p \in Known(b)          -> b
        [] p \notin GroupNames(cfg) -> Fail(b)
        [] r.st # "ok"             -> r
        [] p \in Known(r)          -> [r EXCEPT !.queued = @ \ {name}]
        [] OTHER                   -> Panic(r)
ParseMembers(b, cfg, ps, name) ==
  IF ps = <<>> \/ b.st # "ok" THEN b
  ELSE ParseMembers(ParseOneProxy(b, cfg, Head(ps), name), cfg, Tail(ps), name)
ParseGroup(b, cfg, g, dup_as_error) ==
  LET chain == Reverse(TheList(g.chains))
      c     == ParseMembers(b, cfg, chain, g.name)
      m     == ParseMembers(b, cfg, TheList(g.proxies), g.name)
  IN  CASE g.name \in Known(b) \cup b.queued ->
             IF dup_as_error THEN Fail(b) ELSE b
        [] ~RoughlyValidate(g)  -> Fail(b)
        [] g.chains # {}        ->
             IF c.st # "ok" THEN c
             ELSE [c EXCEPT !.proxies =
                     Put(@, g.name, [kind |-> "chain", udp |-> TRUE, hops |-> chain])]
        [] m.st # "ok"          -> m
        [] \E p \in ToSet(TheList(g.providers)) : ~ProviderOk(cfg, p) -> Fail(m)
        [] OTHER                ->
             PutGroup(m, g, TheList(g.proxies) \o ProviderMembers(cfg, g))

\* DispatchingBuilder::new.
NewBuilder(cfg) ==
  LET own == ParseProxies(EmptyBuilder, cfg.proxies)
      all == FoldLeft(LAMBDA b, n : ParseProxies(b, cfg.provided[n]), own,
                      SetToSeq(DOMAIN cfg.provided))
  IN  FoldLeft(LAMBDA b, g : IF b.st = "ok" THEN ParseGroup(b, cfg, g, FALSE)
                             ELSE b,
               all, cfg.groups)

-------------------------------------------------------------------------------
(* Rule lists.  A line is a rule with its proxy, the fallback, LocalResolve, *)
(* SubDispatch with its own list, or Instrument.                            *)

\* build_rules_loosely: FALLBACK is only understood in the last line and with
\* a known proxy; anywhere else it is a literal that does not parse.
HasFallback(b, lines) == /\ lines # <<>>
                         /\ Last(lines).t = "fallback"
                         /\ Last(lines).proxy \in Known(b)
RECURSIVE BuildRulesLoosely(_, _, _, _)
BuildRules(b, sets, mmdb, lines) ==
  BuildRulesLoosely(b, sets, mmdb, lines) /\ HasFallback(b, lines)
BuildLine(b, sets, mmdb, l) ==
  CASE l.t = "rule"       -> l.proxy \in Known(b) /\ RuleOk(sets, mmdb, l.rule)
    [] l.t = "fallback"   -> FALSE
    [] l.t = "resolve"    -> TRUE
    [] l.t = "instrument" -> RuleOk(sets, mmdb, l.rule) /\ l.valid
    [] l.t = "sub"        -> /\ RuleOk(sets, mmdb, l.rule)
                             /\ BuildRules(b, sets, mmdb, l.lines)
BuildRulesLoosely(b, sets, mmdb, lines) ==
  \A i \in DOMAIN lines :
    \/ i = Len(lines) /\ HasFallback(b, lines)
    \/ BuildLine(b, sets, mmdb, lines[i])

\* build_temporary_list: a list without a fallback.
BuildTemporaryList(b, sets, mmdb, lines) ==
  BuildRulesLoosely(b, sets, mmdb, lines) /\ ~HasFallback(b, lines)

\* LoadedConfig::apply_module: the rules of the modules are put in front.
LoadedRules(cfg) ==
  FlattenSeq([i \in DOMAIN cfg.modules |-> cfg.modules[i].rules]) \o cfg.rules
\* load_rulesets, then new and build of the builder, then the interception
\* manager: what create, reload_inner and validate_config all do with a
\* loaded configuration.  On success d is the immutable part of Dispatching.
NoDispatching(st) == [st |-> st]
Build(cfg, state) ==
  LET payloads == LoadedPayloads(cfg)
      sets     == [n \in DOMAIN payloads |-> RuleSet(payloads[n])]
      b        == NewBuilder(cfg)
      rules    == LoadedRules(cfg)
  IN  CASE \E n \in DOMAIN payloads : ~RuleSetOk(payloads[n]) -> NoDispatching("err")
        [] b.st # "ok" -> NoDispatching(b.st)
        [] ~BuildRules(b, sets, cfg.mmdb, rules) -> NoDispatching("err")
        [] ~BuildTemporaryList(b, sets, cfg.mmdb, state.temp) -> NoDispatching("err")
        [] ~cfg.intercept -> NoDispatching("err")
        [] OTHER -> [st |-> "ok", b |-> b, sets |-> sets, mmdb |-> cfg.mmdb,
                     rules |-> rules]

-------------------------------------------------------------------------------
(* Routing.                                                                 *)

\* ProxyGroup::get_proxy, get_proxy_and_interface and
\* GeneralProxy::selected_instance_name: selections are followed to a proxy;
\* the interface is that of the innermost group.
RECURSIVE Instance(_, _, _)
Instance(d, sel, x) ==
  IF x \in DOMAIN d.b.proxies THEN x ELSE Instance(d, sel, sel[x])
RECURSIVE Iface(_, _, _)
Iface(d, sel, x) == CASE x \in DOMAIN d.b.proxies      -> {}
                      [] sel[x] \in DOMAIN d.b.proxies -> d.b.groups[x].iface
                      [] OTHER                         -> Iface(d, sel, sel[x])

\* DispatchingSnippet::proxy_filtering: UDP over a proxy without it is refused.
ProxyFiltering(d, impl, info) ==
  IF info.net = "udp" /\ ~SupportUdp(d.b.proxies[impl]) THEN "REJECT" ELSE impl

\* DispatchingSnippet::matches, TemporaryList::matches and
\* SubDispatch::matches up to the next await: the proxy of the first line that
\* matches, or the lines that remain once LocalResolve has resolved the name.
\* A sub-dispatch that matches decides: its list ends with a fallback.
Hit(p) == [t |-> "hit", proxy |-> p, rest |-> <<>>]
Await(lines) == [t |-> "await", proxy |-> "-", rest |-> lines]
EndOfList == [t |-> "end", proxy |-> "-", rest |-> <<>>]
NeedsResolve(info) == info.resolved = {} /\ info.dst.kind = "name"
RECURSIVE Walk(_, _, _)
Walk(d, lines, info) ==
  IF lines = <<>> THEN EndOfList
  ELSE LET l == Head(lines) IN
    CASE l.t = "fallback" -> Hit(l.proxy)
      [] l.t = "rule" /\ Matches(d.sets, l.rule, info) -> Hit(l.proxy)
      [] l.t = "sub" /\ Matches(d.sets, l.rule, info) -> Walk(d, l.lines, info)
      [] l.t = "resolve" /\ NeedsResolve(info) -> Await(Tail(lines))
      [] OTHER -> Walk(d, Tail(lines), info)

-------------------------------------------------------------------------------
(* The outbound of a routed connection.                                     *)

\* ProxyImpl::server_addr is Some.
HasServerAddr(p) == p.kind \notin {"DIRECT", "REJECT", "BLACKHOLE", "chain"}

\* Dispatcher::build_normal_outbound: every kind has its outbound but a chain
\* (nested chains are not supported) and the two that never connect.
BuildNormalOutbound(p) == p.kind \notin {"chain", "BLACKHOLE", "REJECT"}

\* Dispatcher::create_chain: the hops, last one first, with the selections of
\* this moment; each but the last of the list is where the next one connects to.
CreateChain(d, sel, hops) ==
  LET impls == [i \in DOMAIN hops |-> d.b.proxies[Instance(d, sel, hops[i])]]
  IN  /\ \A i \in 1 .. Len(hops) - 1 : HasServerAddr(impls[i])
      /\ \A i \in DOMAIN hops : BuildNormalOutbound(impls[i])

\* submit_tcp and route_udp, the match on the proxy: a chain that cannot be
\* built is BadChain for one and Reject for the other.
OutboundFor(d, sel, impl, net) ==
  LET p == d.b.proxies[impl] IN
  CASE p.kind = "chain"     -> IF CreateChain(d, sel, p.hops) THEN "ok"
                               ELSE IF net = "tcp" THEN "badchain" ELSE "reject"
    [] p.kind = "BLACKHOLE" -> "blackhole"
    [] OTHER                -> IF BuildNormalOutbound(p) THEN "ok" ELSE "reject"

-------------------------------------------------------------------------------
(* References the properties compare with.                                  *)

\* The members and hops of a group, and the groups below it that are parsed
\* as groups (a group with the name of a proxy is ignored).
OwnNames(cfg) ==
  {"DIRECT", "REJECT", "BLACKHOLE"} \cup {p.name : p \in ToSet(cfg.proxies)}
    \cup UNION {{p.name : p \in ToSet(cfg.provided[n])} : n \in DOMAIN cfg.provided}
RealGroups(cfg) == {g \in ToSet(cfg.groups) : g.name \notin OwnNames(cfg)}
Refs(g) == ToSet(TheList(g.proxies)) \cup ToSet(TheList(g.chains))
Below(cfg, G) == {g \in RealGroups(cfg) : \E h \in G : g.name \in Refs(h)}
RECURSIVE AllBelow(_, _)
AllBelow(cfg, G) == IF Below(cfg, G) \subseteq G THEN G
                    ELSE AllBelow(cfg, G \cup Below(cfg, G))
IsEmptyGroup(cfg, g) == /\ g.chains = {} /\ TheList(g.proxies) = <<>>
                        /\ \A p \in ToSet(TheList(g.providers)) :
                             ProviderOk(cfg, p) => Provided(cfg, p) = <<>>

\* A configuration whose groups can be built: names are unique, every name in
\* a group means something, no group contains itself, and no group that is
\* left out as empty is a member of another one.
WellFormedGroups(cfg) ==
  \A g \in RealGroups(cfg) :
    /\ g.chains = {} <=> g.proxies # {} \/ g.providers # {}
    /\ Refs(g) \subseteq OwnNames(cfg) \cup {h.name : h \in RealGroups(cfg)}
    /\ \A p \in ToSet(TheList(g.providers)) : ProviderOk(cfg, p)
    /\ g \notin AllBelow(cfg, Below(cfg, {g}))
    /\ \A h \in Below(cfg, {g}) : ~IsEmptyGroup(cfg, h)

\* The proxy of the first line that matches, the connection being resolved
\* once a LocalResolve line has been passed.
RECURSIVE FirstMatch(_, _, _, _)
FirstMatch(d, lines, before, after) ==
  LET AsOf(i) == IF \E j \in 1 .. i - 1 : lines[j].t = "resolve" THEN after ELSE before
      hits == {i \in DOMAIN lines :
                 \/ lines[i].t = "fallback"
                 \/ lines[i].t \in {"rule", "sub"} /\ Matches(d.sets, lines[i].rule, AsOf(i))}
      i    == CHOOSE k \in hits : \A j \in hits : k <= j
  IN  CASE hits = {}           -> {}
        [] lines[i].t = "sub"  -> FirstMatch(d, lines[i].lines, AsOf(i), after)
        [] OTHER               -> {lines[i].proxy}
===============================================================================
