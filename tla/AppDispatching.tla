---------------------------- MODULE AppDispatching ----------------------------
(***************************************************************************)
(* App with the Dispatching of Dispatching.tla: what stands for App's      *)
(* parameters, and the properties that compare the two.                    *)
(***************************************************************************)
EXTENDS App, Dispatching

\* Dispatching::update_temporary_list, with the builder of the instance.
TempListOf(d, list) == BuildTemporaryList(d.b, d.sets, d.mmdb, list)

\* DispatchingSnippet::proxy_filtering, the proxy's get_impl.
ImplOf(d, sel, proxy, info) == ProxyFiltering(d, Instance(d, sel, proxy), info)

-------------------------------------------------------------------------------
(* Properties.                                                              *)

\* validate_config accepts a configuration (whose files load and whose rules
\* parse) exactly when names are unique and its groups are well formed; it
\* panics only where a group names one that is left out as empty, which is
\* DispatchingBuilder's recursion over the groups in topological order
\* against a definition without order.
UniqueNames(cfg) == NewBuilder([cfg EXCEPT !.groups = <<>>]).st = "ok"
AcceptedIffWellFormed ==
  phase = "checked" =>
    /\ verdict = "ok" <=> /\ \A n \in DOMAIN cfgFile.sets : RuleSetOk(cfgFile.sets[n])
                          /\ UniqueNames(cfgFile) /\ WellFormedGroups(cfgFile)
    /\ verdict = "panic" => \E g \in RealGroups(cfgFile) :
         \E h \in Below(cfgFile, {g}) : IsEmptyGroup(cfgFile, h)

\* A connection goes where the first line that matches sends it, in the
\* temporary list and the rules as they were when it arrived, although
\* reloads and changes of the list happen while it waits for a DNS answer.
DispatchedByFirstMatch ==
  conn.pc \in {"impl", "outbound"} =>
    LET d == inst[conn.inst].d
        temp(after) == FirstMatch(d, conn.temp, conn.before, after)
    IN  IF conn.stage = "temp" THEN conn.proxy \in temp(conn.info)
        ELSE /\ temp(conn.mid) = {}
             /\ conn.proxy \in FirstMatch(d, d.rules, conn.mid, conn.info)
===============================================================================
