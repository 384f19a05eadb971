--------------------------------- MODULE App ----------------------------------
(***************************************************************************)
(* The running program around a Dispatching: App of src/boltconn/src/      *)
(* app.rs (start, reload, shutdown, validate_config), the operations of    *)
(* external/controller.rs that change the selections, the temporary rules  *)
(* and the TUN mode, state.yml, TunConfigure, and the connections that are *)
(* routed meanwhile.  The reload task, the API handlers and the connection *)
(* tasks run on different threads; steps are split where another of them   *)
(* can get in between.  The process may crash at any step.                 *)
(*                                                                         *)
(* How a Dispatching is built and what it answers are parameters here, so  *)
(* that what App promises can be proved for any of them; AppDispatching    *)
(* gives them the operators of Dispatching.                                *)
(***************************************************************************)
EXTENDS RuleSets

CONSTANTS
  Built(_, _),          \* the Dispatching of a configuration and a state:
                        \* [st: "ok", b, ...], or st is "err" or "panic"
  TempListOk(_, _),     \* whether a Dispatching can build a temporary list
  WalkFrom(_, _, _),    \* its walk through lines up to the next await
  ImplFor(_, _, _, _),  \* the proxy a name stands for, with the selections
  IfaceFor(_, _, _),    \* the interface to use for it
  OutboundOf(_, _, _, _) \* what is made of it

CONSTANTS RunConfigs,     \* contents config.yml may have while the app runs
          CheckConfigs,   \* contents validate_config may be asked about
          InitStates,     \* contents state.yml may have at first
          Infos,          \* connections that arrive
          Probes,         \* connections the rule sets are compared on
          Answers,        \* what a DNS lookup of a connection may return
          TempRules,      \* lines a client may add as temporary rules
          Routes,         \* number of entries of ipv4_relay_addresses
          Budgets         \* the bounds a behaviour may run under: how many
                          \* reload, api (calls that save), tun (set_tun),
                          \* edit, stop, conn and fault (a failed write of
                          \* state.yml) there may be

IsList(s) == s \in Seq(Range(s))
ASSUME RoutesAssumption == Routes \in Nat
ASSUME StatesAssumption == \A s \in InitStates : s = [sel |-> s.sel, temp |-> s.temp]
ASSUME NamesAssumption ==
  /\ \A cfg \in CheckConfigs : \A n \in DOMAIN LoadedPayloads(cfg) :
       LET payload == LoadedPayloads(cfg)[n] IN
       /\ IsList(payload)
       /\ \A i \in Lines(payload, {"DOMAIN", "DOMAIN-SUFFIX"}) : IsList(payload[i].v)
  /\ \A i \in Probes : i.dst.kind = "name" => IsList(i.dst.host)

VARIABLES phase,    \* "down", "up", "failed" (did not start), "check", "checked"
          verdict,  \* what validate_config said
          cfgFile,  \* config.yml
          stFile,   \* state.yml: [sel, temp] or Truncated
          linked,   \* LinkedState, with the load it came from (history)
          lock,     \* the API call that holds its mutex and has to write the file
          inst,     \* every Dispatching made since the start: [d, sel, temp]
          api,      \* the instance the controller uses
          disp,     \* the instance the dispatcher uses
          filter,   \* the load the interception manager came from
          reload,   \* the reload task: [pc, cfg, st, d]
          request,  \* a reload request is in the channel
          conn,     \* the connection being routed
          tun,      \* TunConfigure and what it did to the system
          hist,     \* history: now and last, whether an API call changed the
                    \* state during the current and the last completed reload;
                    \* unsaved, whether the last flush_state failed and no
                    \* reload has replaced the state since
          budget    \* what is left of the bounds

appVars == <<phase, verdict, cfgFile, stFile, linked, lock, inst, api, disp,
             filter, reload, request, conn, tun, hist, budget>>

Truncated == [sel |-> <<>>, temp |-> <<[t |-> "truncated"]>>]
NoReload  == [pc |-> "idle"]
NoConn    == [pc |-> "none"]
NoHistory == [now |-> FALSE, last |-> FALSE, unsaved |-> FALSE]
TunOff(mounts) == [dns |-> FALSE, flag |-> FALSE, routes |-> 0, mounts |-> mounts]

Init == /\ phase \in {"down", "check"}
        /\ cfgFile \in IF phase = "down" THEN RunConfigs ELSE CheckConfigs
        /\ stFile \in InitStates
        /\ verdict = "-"
        /\ linked = [st |-> stFile, from |-> 0] /\ lock = FALSE
        /\ inst = <<>> /\ api = 0 /\ disp = 0 /\ filter = 0
        /\ reload = NoReload /\ request = FALSE /\ hist = NoHistory
        /\ conn = NoConn /\ tun = TunOff(0)
        /\ budget \in Budgets

Spend(what) == /\ \A w \in what : budget[w] > 0
               /\ budget' = [w \in DOMAIN budget |->
                               IF w \in what THEN budget[w] - 1 ELSE budget[w]]

-------------------------------------------------------------------------------
(* TunConfigure.  Adding a route that is there already fails, as "ip route   *)
(* add" does; routes are added in order and deleted all together.            *)

\* enable_dns, then enable_routing_table, which may fail at any entry; then
\* the DNS is taken back, and what was added of the routes stays.
Mount(t) == [t EXCEPT !.dns = TRUE, !.mounts = @ + 1]
Unmount(t) == [t EXCEPT !.dns = FALSE, !.mounts = @ - 1]
EnableDns(t) == IF t.dns THEN t ELSE Mount(t)
DisableDns(t) == IF t.dns THEN Unmount(t) ELSE t
AddRoutes(t, k) == [t EXCEPT !.routes = IF k > @ THEN k ELSE @]
EnableRoutesKeepsFlag(t, k) == [AddRoutes(t, k) EXCEPT !.flag = TRUE]
EnableRoutes(t, k) == IF k = Routes THEN [AddRoutes(t, k) EXCEPT !.flag = TRUE]
                      ELSE DisableDns(AddRoutes(t, k))
TunEnable(t) ==
  (IF t.dns THEN {} ELSE {t})               \* the mount may fail
    \cup IF t.flag THEN {EnableDns(t)}
         ELSE {EnableRoutes(EnableDns(t), k) :
                 k \in IF t.routes > 0 THEN {0} ELSE 0 .. Routes}
DisableRoutes(t) == IF t.flag THEN [t EXCEPT !.flag = FALSE, !.routes = 0] ELSE t
TunDisable(t) == DisableDns(DisableRoutes(t))
GetStatus(t) == t.dns /\ t.flag

\* Controller::set_tun.
SetTun == /\ phase = "up"
          /\ Spend({"tun"})
          /\ tun' \in TunEnable(tun) \cup {TunDisable(tun)}
          /\ UNCHANGED <<phase, verdict, cfgFile, stFile, linked, lock, inst, api,
                         disp, filter, reload, request, conn, hist>>

-------------------------------------------------------------------------------
(* Start, validate_config, shutdown and crash.                               *)

Loadable(cfg, st) == cfg.readable /\ st # Truncated
Outcome(cfg, st) ==
  IF ~Loadable(cfg, st) \/ ~cfg.dns THEN [st |-> "err"] ELSE Built(cfg, st)

\* The selection of a new group: the saved one when it is still a member, else
\* the first.  The temporary list is the saved one.
RestoreFirst(members, g, saved) == members[1]
RestoreSelection(members, g, saved) ==
  IF g \in DOMAIN saved /\ saved[g] \in ToSet(members) THEN saved[g] ELSE members[1]
NewInstance(d, st) ==
  [d    |-> d,
   sel  |-> [g \in DOMAIN d.b.groups |->
               RestoreSelection(d.b.groups[g].members, g, st.sel)],
   temp |-> st.temp]

\* validate_config.
ValidateConfig == /\ phase = "check"
                  /\ phase' = "checked"
                  /\ verdict' = Outcome(cfgFile, stFile).st
                  /\ UNCHANGED <<cfgFile, stFile, linked, lock, inst, api, disp, filter,
                                 reload, request, conn, tun, hist, budget>>

\* App::create: nothing is served unless all of it succeeds.  The TUN mode is
\* enabled before the rules are parsed.
Create ==
  /\ phase = "down"
  /\ LET o == Outcome(cfgFile, stFile) IN
     \/ /\ o.st = "ok"
        /\ \E t \in IF cfgFile.tun THEN TunEnable(tun) ELSE {tun} :
             /\ GetStatus(t) = cfgFile.tun
             /\ tun' = t
        /\ phase' = "up"
        /\ inst' = <<NewInstance(o, stFile)>>
        /\ api' = 1 /\ disp' = 1 /\ filter' = 1
        /\ linked' = [st |-> stFile, from |-> 1]
     \/ /\ o.st # "ok" \/ cfgFile.tun
        /\ phase' = "failed"
        /\ UNCHANGED <<tun, inst, api, disp, filter, linked>>
  /\ UNCHANGED <<verdict, cfgFile, stFile, lock, reload, request, conn, hist, budget>>

\* Everything in memory is gone; the file stays as it is.  The TUN device goes
\* with the process, and its routes with it.
Vanish(p) == /\ phase' = p
             /\ inst' = <<>> /\ api' = 0 /\ disp' = 0 /\ filter' = 0
             /\ linked' = [st |-> [sel |-> <<>>, temp |-> <<>>], from |-> 0]
             /\ lock' = FALSE /\ reload' = NoReload /\ request' = FALSE
             /\ conn' = NoConn /\ hist' = NoHistory
             /\ UNCHANGED <<verdict, cfgFile, stFile>>

\* serve_command on Ctrl-C: the select is only reached between reloads.
CtrlC == /\ phase = "up" /\ reload.pc = "idle"
         /\ Vanish("down")
         /\ tun' = TunOff(TunDisable(tun).mounts)
         /\ Spend({"stop"})
\* A crash leaves the file system mount in place.
Crash == /\ phase = "up"
         /\ Vanish("down")
         /\ tun' = TunOff(tun.mounts)
         /\ Spend({"stop"})

\* The user edits config.yml.
EditConfig == /\ phase \in {"up", "down", "failed"}
              /\ Spend({"edit"})
              /\ cfgFile' \in RunConfigs \ {cfgFile}
              /\ phase' = IF phase = "failed" THEN "down" ELSE phase
              /\ UNCHANGED <<verdict, stFile, linked, lock, inst, api, disp, filter,
                             reload, request, conn, tun, hist>>

-------------------------------------------------------------------------------
(* The API.  A call takes the mutex of LinkedState, changes the Dispatching  *)
(* it loads, then the state, then writes the file: File::create truncates it *)
(* and write_all fills it, while a reload may read it.  Either may fail: that *)
(* is logged, the mutex released and the call answered with success.         *)

SaveBegins(i, st) ==
  /\ linked' = [linked EXCEPT !.st = st]
  /\ inst' = [inst EXCEPT ![api] = i]
  /\ \/ /\ Spend({"api"})
        /\ stFile' = Truncated
        /\ lock' = TRUE
        /\ hist' = [hist EXCEPT !.now = reload.pc # "idle"]
     \/ /\ Spend({"api", "fault"})
        /\ UNCHANGED <<stFile, lock>>
        /\ hist' = [hist EXCEPT !.now = reload.pc # "idle", !.unsaved = TRUE]
  /\ UNCHANGED <<phase, verdict, cfgFile, api, disp, filter, reload, request, conn, tun>>

\* set_selection: Dispatching::set_group_selection refuses an unknown group
\* or a proxy that is not a member.
Select(sel, g, p) == [h \in DOMAIN sel \cup {g} |-> IF h = g THEN p ELSE sel[h]]
SetSelection ==
  /\ phase = "up" /\ ~lock
  /\ LET i == inst[api] IN
     \E g \in DOMAIN i.sel : \E p \in ToSet(i.d.b.groups[g].members) :
       SaveBegins([i EXCEPT !.sel = Select(@, g, p)],
                  [linked.st EXCEPT !.sel = Select(@, g, p)])

\* add_temporary_rule, delete_temporary_rule and clear_temporary_rule: the new
\* list is built by the builder of the instance before it is taken over.
UpdateTemporaryList(list) ==
  /\ TempListOk(inst[api].d, list)
  /\ SaveBegins([inst[api] EXCEPT !.temp = list], [linked.st EXCEPT !.temp = list])
AddTemporaryRule(l) == /\ phase = "up" /\ ~lock
                       /\ UpdateTemporaryList(<<l>> \o linked.st.temp)
DeleteTemporaryRule(l) ==
  /\ phase = "up" /\ ~lock
  /\ l \in ToSet(linked.st.temp)
  /\ UpdateTemporaryList(Remove(linked.st.temp, l))
ClearTemporaryRule == /\ phase = "up" /\ ~lock
                      /\ UpdateTemporaryList(<<>>)

\* flush_state: the content is written, or only a part of it, and the mutex
\* released.  A part cannot be parsed, or it ends with the selections.
WrittenPart(st) == {Truncated, [st EXCEPT !.temp = <<>>]}
FlushState ==
  /\ lock
  /\ \/ /\ stFile' = linked.st
        /\ hist' = [hist EXCEPT !.unsaved = FALSE]
        /\ UNCHANGED budget
     \/ /\ Spend({"fault"})
        /\ stFile' \in WrittenPart(linked.st)
        /\ hist' = [hist EXCEPT !.unsaved = TRUE]
  /\ lock' = FALSE
  /\ UNCHANGED <<phase, verdict, cfgFile, linked, inst, api, disp, filter,
                 reload, request, conn, tun>>

-------------------------------------------------------------------------------
(* Reload: Controller::reload puts a request in a channel of one place, and  *)
(* serve_command takes it between two reloads.                               *)

RequestReload == /\ phase = "up" /\ ~request
                 /\ Spend({"reload"})
                 /\ request' = TRUE
                 /\ UNCHANGED <<phase, verdict, cfgFile, stFile, linked, lock, inst, api,
                                disp, filter, reload, conn, tun, hist>>

Reloading(r) == /\ reload' = r
                /\ UNCHANGED <<phase, verdict, cfgFile, stFile, lock, conn, tun, budget>>

\* load_config: both files are read; the providers are then fetched.
ReloadLoad ==
  /\ phase = "up" /\ reload.pc = "idle" /\ request
  /\ request' = FALSE
  /\ Reloading(IF Loadable(cfgFile, stFile)
               THEN [pc |-> "build", cfg |-> cfgFile, st |-> stFile] ELSE NoReload)
  /\ hist' = [hist EXCEPT !.now = FALSE]
  /\ UNCHANGED <<linked, inst, api, disp, filter>>

\* Everything that can fail is done before anything is replaced; a panic ends
\* the process.
ReloadBuild ==
  /\ reload.pc = "build"
  /\ LET o == Outcome(reload.cfg, reload.st) IN
     \/ /\ o.st = "err"
        /\ Reloading(NoReload)
        /\ UNCHANGED <<linked, inst, api, disp, filter, request, hist>>
     \/ /\ o.st = "panic"
        /\ Vanish("failed") /\ tun' = TunOff(tun.mounts) /\ UNCHANGED budget
     \/ /\ o.st = "ok"
        /\ Reloading([pc |-> "state", st |-> reload.st])
        /\ inst' = Append(inst, NewInstance(o, reload.st))
        /\ UNCHANGED <<linked, api, disp, filter, request, hist>>

\* reload_inner, line by line: the state under its mutex, then the instance
\* of the API, that of the dispatcher, and the interception manager.
StoreState == /\ reload.pc = "state" /\ ~lock
              /\ linked' = [st |-> reload.st, from |-> Len(inst)]
              /\ Reloading([pc |-> "api"])
              /\ hist' = [hist EXCEPT !.unsaved = FALSE]
              /\ UNCHANGED <<inst, api, disp, filter, request>>
StoreApi == /\ reload.pc = "api"
            /\ api' = Len(inst)
            /\ Reloading([pc |-> "disp"])
            /\ UNCHANGED <<linked, inst, disp, filter, request, hist>>
StoreDispatchingForgotten == /\ reload.pc = "disp"
                             /\ Reloading([pc |-> "filter"])
                             /\ UNCHANGED <<linked, inst, api, disp, filter, request, hist>>
StoreDispatching == /\ reload.pc = "disp"
                    /\ disp' = Len(inst)
                    /\ Reloading([pc |-> "filter"])
                    /\ UNCHANGED <<linked, inst, api, filter, request, hist>>
StoreFilter == /\ reload.pc = "filter"
               /\ filter' = Len(inst)
               /\ Reloading(NoReload)
               /\ hist' = [hist EXCEPT !.now = FALSE, !.last = hist.now]
               /\ UNCHANGED <<linked, inst, api, disp, request>>

-------------------------------------------------------------------------------
(* A connection is routed: Dispatching::matches with the instance and the    *)
(* temporary list loaded at its start.                                       *)

Routing(c) == /\ conn' = c
              /\ UNCHANGED <<phase, verdict, cfgFile, stFile, linked, lock, inst, api,
                             disp, filter, reload, request, tun, hist>>

\* From the end of the temporary list the walk goes on with the rules.
Continue(c, lines, info) ==
  LET d == inst[c.inst].d
      w == WalkFrom(d, lines, info)
      e == IF w.t = "end" THEN [c EXCEPT !.stage = "rules", !.mid = info] ELSE c
      r == IF w.t = "end" THEN WalkFrom(d, d.rules, info) ELSE w
  IN  IF r.t = "hit" THEN [e EXCEPT !.pc = "impl", !.info = info, !.proxy = r.proxy]
      ELSE [e EXCEPT !.pc = "resolve", !.info = info, !.rest = r.rest]

ConnStart(info) ==
  /\ phase = "up" /\ conn.pc \in {"none", "done"}
  /\ Spend({"conn"})
  /\ LET c == [pc |-> "new", inst |-> disp, temp |-> inst[disp].temp, stage |-> "temp",
               before |-> info, mid |-> info, info |-> info, rest |-> <<>>,
               proxy |-> "-", impl |-> "-", iface |-> {}]
     IN  Routing(Continue(c, c.temp, info))

\* LocalResolve::resolve_to: the lookup answered, or not.
RestOfWalkReloaded == IF conn.stage = "temp" THEN inst[conn.inst].temp ELSE conn.rest
RestOfWalk == conn.rest
ConnResolved(ans) ==
  /\ conn.pc = "resolve" /\ UNCHANGED budget
  /\ Routing(Continue(conn, RestOfWalk, [conn.info EXCEPT !.resolved = ans]))

\* proxy_filtering: the selections are followed now.
ConnImpl ==
  /\ conn.pc = "impl" /\ UNCHANGED budget
  /\ LET d == inst[conn.inst].d
         sel == inst[conn.inst].sel
         impl == ImplFor(d, sel, conn.proxy, conn.info)
     IN  Routing([conn EXCEPT !.pc = "outbound", !.impl = impl,
                              !.iface = IF impl = "REJECT" THEN {}
                                        ELSE IfaceFor(d, sel, conn.proxy)])

\* submit_tcp or route_udp goes on: the selections of a chain's hops are read
\* only now.
ConnOutbound ==
  /\ conn.pc = "outbound" /\ UNCHANGED budget
  /\ LET i == inst[conn.inst]
     IN  Routing([pc |-> "done",
                  out |-> OutboundOf(i.d, i.sel, conn.impl, conn.info.net)])

-------------------------------------------------------------------------------
Next == \/ ValidateConfig \/ Create \/ CtrlC \/ Crash \/ EditConfig \/ SetTun
        \/ SetSelection
        \/ \E l \in TempRules : AddTemporaryRule(l) \/ DeleteTemporaryRule(l)
        \/ ClearTemporaryRule \/ FlushState
        \/ RequestReload \/ ReloadLoad \/ ReloadBuild
        \/ StoreState \/ StoreApi \/ StoreDispatching \/ StoreFilter
        \/ \E i \in Infos : ConnStart(i)
        \/ \E a \in Answers : ConnResolved(a)
        \/ ConnImpl \/ ConnOutbound

Spec == Init /\ [][Next]_appVars

-------------------------------------------------------------------------------
(* Properties.                                                              *)

\* A rule set never matches a connection that none of its lines matches, for
\* the matchers RuleSetBuilder merges the lines into (the radix tree of
\* reversed names, the ports by transport, the addresses).
RuleSetSound ==
  phase = "checked" =>
    LET payloads == LoadedPayloads(cfgFile) IN
    \A n \in DOMAIN payloads : RuleSetOk(payloads[n]) =>
      \A i \in Probes : RuleSetMatches(RuleSet(payloads[n]), i) =>
        \E r \in ToSet(payloads[n]) : LineMatches(r, i)

\* Between reloads, and unless an API call slipped into the last one, the
\* linked state and the instance the API works on agree, and so does the file
\* unless writing it failed last: a restart comes up with the selections and
\* the temporary rules that are in force.
LiveStateIsSaved ==
  phase = "up" /\ reload.pc = "idle" /\ ~lock /\ ~hist.last =>
    LET i == inst[api] IN
    /\ ~hist.unsaved => stFile = linked.st
    /\ i.temp = linked.st.temp
    /\ \A g \in DOMAIN linked.st.sel \cap DOMAIN i.sel :
         linked.st.sel[g] \in ToSet(i.d.b.groups[g].members) => i.sel[g] = linked.st.sel[g]

\* Where no write fails, the same without the exception: what the API
\* acknowledged is in force once no reload runs (src/docs/restful.md: "Set
\* proxy for specific group.").
AcknowledgedIsInForce ==
  phase = "up" /\ reload.pc = "idle" /\ ~lock =>
    /\ stFile = linked.st
    /\ \A g \in DOMAIN stFile.sel \cap DOMAIN inst[api].sel :
         stFile.sel[g] \in ToSet(inst[api].d.b.groups[g].members) =>
           inst[api].sel[g] = stFile.sel[g]

\* A reload replaces everything or nothing: once it is over, the state, the
\* API, the dispatcher and the interception come from one load, whichever
\* step of it failed.
ReloadAllOrNothing ==
  phase = "up" /\ reload.pc = "idle" =>
    /\ api = disp /\ disp = filter /\ linked.from = api

\* TunConfigure::get_status says enabled only when every route is in place
\* and the system resolver is redirected, whatever failed before.
TunStatusTruthful == GetStatus(tun) => tun.routes = Routes /\ tun.mounts > 0
===============================================================================
