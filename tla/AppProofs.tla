------------------------------- MODULE AppProofs -------------------------------
(***************************************************************************)
(* Proofs about App, for any way of building and asking a Dispatching, any *)
(* configurations, connections and temporary rules, any number of routes   *)
(* and any bounds.                                                         *)
(*                                                                         *)
(* ReloadAllOrNothing holds because the place of the reload task says      *)
(* which of the four stores are behind it (StepInv).  LiveStateIsSaved     *)
(* needs what a reload carries from the read of state.yml to its last      *)
(* store: as long as no API call came in between, the file is what was     *)
(* read, be it from a write that failed, the new instance agrees with it,  *)
(* and nobody holds the mutex (SaveInv).  TunStatusTruthful follows the    *)
(* flag, the routes and the mounts through every partial failure (TunInv). *)
(* RuleSetSound is a fact about the radix tree and the other matchers of a *)
(* rule set, for every payload; the entry get_ancestor finds is the        *)
(* payload's line.                                                         *)
(***************************************************************************)
EXTENDS App, NaturalsInduction, WellFoundedInduction, TLAPS

IsState(st) == st = [sel |-> st.sel, temp |-> st.temp]
IsInstance(i) == i = [d |-> i.d, sel |-> i.sel, temp |-> i.temp]

\* The selections and the temporary list of an instance are those of a state,
\* as far as the state names groups and members there are.
Agrees(i, st) ==
  /\ i.temp = st.temp
  /\ \A g \in DOMAIN st.sel \cap DOMAIN i.sel :
       st.sel[g] \in ToSet(i.d.b.groups[g].members) => i.sel[g] = st.sel[g]

-------------------------------------------------------------------------------
(* The inductive invariant *)

GoodTun(t) ==
  /\ t \in [dns : BOOLEAN, flag : BOOLEAN, routes : 0 .. Routes, mounts : Nat]
  /\ t.flag => t.routes = Routes
  /\ t.dns => t.mounts > 0
TunInv == GoodTun(tun)

History == [now : BOOLEAN, last : BOOLEAN, unsaved : BOOLEAN]
ShapeInv ==
  /\ phase \in {"down", "up", "failed", "check", "checked"}
  /\ phase \in {"check", "checked"} => cfgFile \in CheckConfigs
  /\ IsState(stFile) /\ IsState(linked.st)
  /\ linked = [st |-> linked.st, from |-> linked.from]
  /\ hist \in History /\ lock \in BOOLEAN
  /\ IsList(inst) /\ \A k \in DOMAIN inst : IsInstance(inst[k])
  /\ reload.pc \in {"idle", "build", "state", "api", "disp", "filter"}
  /\ reload.pc \in {"build", "state"} => IsState(reload.st)

\* Only a running program has a reload, an API call and a history.
UpInv == phase # "up" => reload.pc = "idle" /\ ~lock /\ hist = NoHistory

\* The places of the reload task after which something is stored.
Behind(pcs) == reload.pc \in {"idle", "build"} \cup pcs
Stored(x, pcs) == x = IF Behind(pcs) THEN Len(inst) ELSE Len(inst) - 1

StepInv ==
  phase = "up" =>
    /\ Len(inst) > IF Behind({}) THEN 0 ELSE 1
    /\ Stored(linked.from, {"api", "disp", "filter"})
    /\ Stored(api, {"disp", "filter"})
    /\ Stored(disp, {"filter"})
    /\ Stored(filter, {})

\* What a reload that nobody hist has in its hands.
Carried ==
  ~hist.now =>
    /\ reload.pc \in {"build", "state"} => ~lock /\ reload.st = stFile
    /\ reload.pc = "state" => Agrees(inst[Len(inst)], stFile)
    /\ reload.pc \in {"api", "disp", "filter"} =>
         ~lock /\ stFile = linked.st /\ Agrees(inst[Len(inst)], stFile)
SaveInv ==
  phase = "up" =>
    /\ lock => stFile = Truncated
    /\ Carried
    /\ Behind({}) /\ ~hist.last =>
         Agrees(inst[api], linked.st) /\ (~lock /\ ~hist.unsaved => stFile = linked.st)

CoreInv == ShapeInv /\ UpInv /\ StepInv /\ SaveInv
IInv == TunInv /\ CoreInv

-------------------------------------------------------------------------------
(* Lists: sequences over whatever is in them *)

LEMMA ListIn == ASSUME NEW A, NEW s \in Seq(A) PROVE IsList(s)
<1>1. \A i \in 1 .. Len(s) : s[i] \in Range(s)
  BY DEF Range
<1>2. Len(s) \in Nat /\ s = [i \in 1 .. Len(s) |-> s[i]]
  OBVIOUS
<1> QED
  BY <1>1, <1>2 DEF IsList

LEMMA ListFacts == ASSUME NEW s, IsList(s) PROVE Len(s) \in Nat /\ DOMAIN s = 1 .. Len(s)
<1>1. PICK R : s \in Seq(R)
  BY DEF IsList
<1> QED
  BY <1>1

LEMMA ListOf == ASSUME NEW n \in Nat, NEW s, DOMAIN s = 1 .. n, s = [i \in 1 .. n |-> s[i]]
                PROVE  IsList(s) /\ Len(s) = n
<1>1. PICK R : R = Range(s)
  OBVIOUS
<1>2. \A i \in 1 .. n : s[i] \in R
  BY <1>1 DEF Range
<1>3. s \in Seq(R) /\ Len(s) = n
  BY <1>2
<1> QED
  BY <1>1, <1>3 DEF IsList

Added(u, s, x) == /\ IsList(u) /\ Len(u) = Len(s) + 1 /\ u[Len(s) + 1] = x
                  /\ \A i \in 1 .. Len(s) : u[i] = s[i]

LEMMA ListAppend == ASSUME NEW s, IsList(s), NEW x PROVE Added(Append(s, x), s, x)
<1>1. PICK A : s \in Seq(A)
  BY DEF IsList
<1>2. PICK B : B = A \cup {x}
  OBVIOUS
<1>3. s \in Seq(B) /\ x \in B
  BY <1>1, <1>2
<1>4. PICK u : u = Append(s, x)
  OBVIOUS
<1>5. u \in Seq(B) /\ Len(u) = Len(s) + 1 /\ u[Len(s) + 1] = x /\ \A i \in 1 .. Len(s) : u[i] = s[i]
  BY <1>3, <1>4
<1>6. IsList(u)
  BY <1>5, ListIn
<1> QED
  BY <1>4, <1>5, <1>6 DEF Added

Replaced(u, s, k, x) == /\ IsList(u) /\ Len(u) = Len(s) /\ u[k] = x
                        /\ \A i \in 1 .. Len(s) : i # k => u[i] = s[i]

LEMMA ListExcept ==
  ASSUME NEW s, IsList(s), NEW k \in 1 .. Len(s), NEW x PROVE Replaced([s EXCEPT ![k] = x], s, k, x)
<1>0. PICK u : u = [s EXCEPT ![k] = x]
  OBVIOUS
<1>1. Len(s) \in Nat /\ DOMAIN s = 1 .. Len(s)
  BY ListFacts
<1>2. PICK n \in Nat : n = Len(s)
  BY <1>1
<1>3. DOMAIN u = 1 .. n /\ u = [i \in 1 .. n |-> u[i]] /\ u[k] = x /\ \A i \in 1 .. n : i # k => u[i] = s[i]
  BY <1>0, <1>1, <1>2
<1>4. IsList(u) /\ Len(u) = n
  BY <1>3, ListOf
<1> QED
  BY <1>0, <1>2, <1>3, <1>4 DEF Replaced

-------------------------------------------------------------------------------
(* TunConfigure *)

LEMMA RoutesNat == Routes \in Nat /\ 0 \in 0 .. Routes /\ Routes \in 0 .. Routes
  BY RoutesAssumption

LEMMA DnsKeeps == ASSUME NEW t, GoodTun(t) PROVE GoodTun(EnableDns(t)) /\ GoodTun(DisableDns(t))
<1>1. CASE t.dns
  <2>0. t \in [dns : BOOLEAN, flag : BOOLEAN, routes : 0 .. Routes, mounts : Nat]
    BY DEF GoodTun
  <2>1. GoodTun([t EXCEPT !.dns = FALSE, !.mounts = @ - 1])
    <3>1. PICK m \in Nat : m = t.mounts - 1 /\ (FALSE => m > 0)
      BY <1>1, <2>0 DEF GoodTun
    <3>2. PICK r : r = [t EXCEPT !.dns = FALSE, !.mounts = m]
      OBVIOUS
    <3>3. r.dns = FALSE /\ r.flag = t.flag /\ r.routes = t.routes /\ r.mounts = m
      BY <2>0, <3>2
    <3>4. r \in [dns : BOOLEAN, flag : BOOLEAN, routes : 0 .. Routes, mounts : Nat]
      BY <2>0, <3>1, <3>2
    <3>5. GoodTun(r)
      BY <3>1, <3>3, <3>4 DEF GoodTun
    <3> QED
      BY <3>1, <3>2, <3>5
  <2> QED
    BY <1>1, <2>1 DEF EnableDns, DisableDns, Unmount
<1>2. CASE ~t.dns
  <2>0. t \in [dns : BOOLEAN, flag : BOOLEAN, routes : 0 .. Routes, mounts : Nat]
    BY DEF GoodTun
  <2>1. GoodTun([t EXCEPT !.dns = TRUE, !.mounts = @ + 1])
    <3>1. PICK m \in Nat : m = t.mounts + 1 /\ (TRUE => m > 0)
      BY <1>2, <2>0 DEF GoodTun
    <3>2. PICK r : r = [t EXCEPT !.dns = TRUE, !.mounts = m]
      OBVIOUS
    <3>3. r.dns = TRUE /\ r.flag = t.flag /\ r.routes = t.routes /\ r.mounts = m
      BY <2>0, <3>2
    <3>4. r \in [dns : BOOLEAN, flag : BOOLEAN, routes : 0 .. Routes, mounts : Nat]
      BY <2>0, <3>1, <3>2
    <3>5. GoodTun(r)
      BY <3>1, <3>3, <3>4 DEF GoodTun
    <3> QED
      BY <3>1, <3>2, <3>5
  <2> QED
    BY <1>2, <2>1 DEF EnableDns, DisableDns, Mount
<1> QED
  BY <1>1, <1>2

\* A failure at the k-th route leaves the flag as it was, which was not set.
LEMMA RoutesKeep == ASSUME NEW t, GoodTun(t), ~t.flag, NEW k \in 0 .. Routes PROVE GoodTun(EnableRoutes(t, k))
<1>1. PICK u : u = AddRoutes(t, k)
  OBVIOUS
<1>2. GoodTun(u) /\ (k = Routes => u.routes = Routes)
  BY <1>1, RoutesNat DEF GoodTun, AddRoutes
<1>3. CASE k = Routes
  <2>1. GoodTun([u EXCEPT !.flag = TRUE])
    BY <1>2, <1>3 DEF GoodTun
  <2> QED
    BY <1>1, <1>3, <2>1 DEF EnableRoutes
<1>4. CASE k # Routes
  BY <1>1, <1>2, <1>4, DnsKeeps DEF EnableRoutes
<1> QED
  BY <1>3, <1>4

LEMMA EnableKeeps == ASSUME NEW t, GoodTun(t), NEW u \in TunEnable(t) PROVE GoodTun(u)
<1>1. CASE u = t
  BY <1>1
<1>2. CASE u = EnableDns(t)
  BY <1>2, DnsKeeps
<1>3. CASE ~t.flag /\ \E k \in 0 .. Routes : u = EnableRoutes(EnableDns(t), k)
  <2>1. PICK k \in 0 .. Routes : u = EnableRoutes(EnableDns(t), k)
    BY <1>3
  <2>2. GoodTun(EnableDns(t)) /\ ~EnableDns(t).flag
    BY <1>3, DnsKeeps DEF EnableDns, Mount, GoodTun
  <2> QED
    BY <2>1, <2>2, RoutesKeep
<1> QED
  BY <1>1, <1>2, <1>3, RoutesNat DEF TunEnable

LEMMA DisableKeeps == ASSUME NEW t, GoodTun(t) PROVE GoodTun(TunDisable(t))
<1>1. GoodTun(DisableRoutes(t))
  BY RoutesNat DEF DisableRoutes, GoodTun
<1> QED
  BY <1>1, DnsKeeps DEF TunDisable

LEMMA OffIsGood == ASSUME NEW m \in Nat PROVE GoodTun(TunOff(m))
  BY RoutesNat DEF TunOff, GoodTun
-------------------------------------------------------------------------------
(* Instances and states *)

LEMMA NewAgrees ==
  ASSUME NEW d, NEW st PROVE IsInstance(NewInstance(d, st)) /\ Agrees(NewInstance(d, st), st)
  BY DEF NewInstance, IsInstance, Agrees, RestoreSelection

LEMMA SelectAgrees ==
  ASSUME NEW i, IsInstance(i), NEW st, IsState(st), Agrees(i, st), NEW g \in DOMAIN i.sel, NEW p,
         NEW j, j = [i EXCEPT !.sel = Select(@, g, p)],
         NEW u, u = [st EXCEPT !.sel = Select(@, g, p)]
  PROVE  Agrees(j, u)
<1>1. j.d = i.d /\ j.temp = i.temp /\ j.sel = Select(i.sel, g, p)
  BY DEF IsInstance
<1>2. u.temp = st.temp /\ u.sel = Select(st.sel, g, p)
  BY DEF IsState
<1>3. DOMAIN j.sel = DOMAIN i.sel \cup {g} /\ DOMAIN u.sel = DOMAIN st.sel \cup {g}
  BY <1>1, <1>2 DEF Select
<1>4. ASSUME NEW h \in DOMAIN u.sel \cap DOMAIN j.sel, u.sel[h] \in ToSet(j.d.b.groups[h].members)
      PROVE  j.sel[h] = u.sel[h]
  <2>1. CASE h = g
    BY <1>1, <1>2, <2>1 DEF Select
  <2>2. CASE h # g
    <3>1. h \in DOMAIN st.sel \cap DOMAIN i.sel /\ u.sel[h] = st.sel[h] /\ j.sel[h] = i.sel[h]
      BY <1>1, <1>2, <1>3, <2>2 DEF Select
    <3> QED
      BY <1>1, <1>4, <3>1 DEF Agrees
  <2> QED
    BY <2>1, <2>2
<1> QED
  BY <1>1, <1>2, <1>4 DEF Agrees

\* In a running program the API's instance is one of the instances.
LEMMA ApiThere == ASSUME CoreInv, phase = "up" PROVE /\ Len(inst) \in Nat /\ DOMAIN inst = 1 .. Len(inst)
                                                     /\ Len(inst) \in DOMAIN inst /\ api \in DOMAIN inst
<1>1. Len(inst) \in Nat /\ DOMAIN inst = 1 .. Len(inst)
  BY ListFacts DEF CoreInv, ShapeInv
<1> QED
  BY <1>1 DEF CoreInv, StepInv, Stored, Behind

-------------------------------------------------------------------------------
(* Steps that change the state the same way *)

core == <<phase, cfgFile, stFile, linked, lock, inst, api, disp, filter, reload, hist>>

LEMMA CoreUnchanged == CoreInv /\ UNCHANGED core => CoreInv'
<1> SUFFICES ASSUME CoreInv, UNCHANGED core PROVE CoreInv'
  OBVIOUS
<1>1. ShapeInv' /\ UpInv'
  BY DEF CoreInv, core, ShapeInv, UpInv
<1>2. StepInv'
  BY DEF CoreInv, core, StepInv, Stored, Behind
<1>3. SaveInv'
  BY DEF CoreInv, core, SaveInv, Carried, Behind
<1> QED
  BY <1>1, <1>2, <1>3 DEF CoreInv

LEMMA NothingIsAList == IsList(<<>>) /\ DOMAIN <<>> = {}
<1>1. <<>> \in Seq({})
  OBVIOUS
<1>2. IsList(<<>>)
  BY <1>1, ListIn
<1>3. DOMAIN <<>> = {}
  OBVIOUS
<1> QED
  BY <1>2, <1>3

LEMMA VanishKeeps ==
  ASSUME CoreInv, NEW p \in {"down", "failed"}, Vanish(p) PROVE CoreInv'
<1>1. phase' = p /\ cfgFile' = cfgFile /\ stFile' = stFile /\ lock' = FALSE /\ hist' = NoHistory
      /\ inst' = <<>> /\ reload' = NoReload /\ linked' = [st |-> [sel |-> <<>>, temp |-> <<>>], from |-> 0]
  BY DEF Vanish
<1>2. ShapeInv'
  BY <1>1, NothingIsAList DEF CoreInv, ShapeInv, NoReload, NoHistory, History, IsState
<1>3. UpInv'
  BY <1>1 DEF UpInv, NoReload
<1>4. StepInv' /\ SaveInv'
  BY <1>1 DEF StepInv, SaveInv
<1> QED
  BY <1>2, <1>3, <1>4 DEF CoreInv

\* An API call that changes the instance and the state alike.
LEMMA SaveKeeps ==
  ASSUME CoreInv, phase = "up", ~lock, NEW i, IsInstance(i), NEW st, IsState(st),
         Agrees(inst[api], linked.st) => Agrees(i, st), SaveBegins(i, st)
  PROVE  CoreInv'
<1>1. /\ linked' = [linked EXCEPT !.st = st] /\ inst' = [inst EXCEPT ![api] = i]
      /\ \/ stFile' = Truncated /\ lock' = TRUE
            /\ hist' = [hist EXCEPT !.now = reload.pc # "idle"]
         \/ stFile' = stFile /\ lock' = lock
            /\ hist' = [hist EXCEPT !.now = reload.pc # "idle", !.unsaved = TRUE]
      /\ phase' = phase /\ cfgFile' = cfgFile /\ api' = api /\ disp' = disp
      /\ filter' = filter /\ reload' = reload
  BY DEF SaveBegins
<1>2. /\ Len(inst) \in Nat /\ DOMAIN inst = 1 .. Len(inst)
      /\ Len(inst) \in DOMAIN inst /\ api \in DOMAIN inst
  BY ApiThere
<1>3. IsList(inst)
  BY DEF CoreInv, ShapeInv
<1>4. Replaced(inst', inst, api, i)
  BY <1>1, <1>2, <1>3, ListExcept
<1>5. Len(inst') = Len(inst) /\ IsList(inst') /\ DOMAIN inst' = DOMAIN inst /\ inst'[api] = i
      /\ \A k \in DOMAIN inst : k # api => inst'[k] = inst[k]
  BY <1>2, <1>4, ListFacts DEF Replaced
<1>6. linked'.st = st /\ linked'.from = linked.from /\ linked' = [st |-> st, from |-> linked.from]
  BY <1>1 DEF CoreInv, ShapeInv
<1>7. /\ hist'.now = (reload.pc # "idle") /\ hist'.last = hist.last /\ hist' \in History
      /\ \/ stFile' = Truncated /\ lock' = TRUE
         \/ stFile' = stFile /\ lock' = lock /\ hist'.unsaved
  BY <1>1 DEF CoreInv, ShapeInv, History
<1>8. ShapeInv'
  <2>1. IsState(Truncated)
    BY DEF IsState, Truncated
  <2>2. \A k \in DOMAIN inst' : IsInstance(inst'[k])
    BY <1>5 DEF CoreInv, ShapeInv
  <2> QED
    BY <1>1, <1>5, <1>6, <1>7, <2>1, <2>2 DEF CoreInv, ShapeInv
<1>9. UpInv'
  BY <1>1 DEF UpInv
<1>10. StepInv'
  BY <1>1, <1>5, <1>6 DEF CoreInv, StepInv, Stored, Behind
<1>11. SaveInv'
  <2>1. Carried'
    BY <1>1, <1>7 DEF Carried, CoreInv, ShapeInv
  <2>2. Behind({}) /\ ~hist.last => Agrees(inst'[api], linked'.st)
    BY <1>5, <1>6 DEF CoreInv, SaveInv
  <2> QED
    BY <1>1, <1>7, <2>1, <2>2 DEF SaveInv, Behind
<1> QED
  BY <1>8, <1>9, <1>10, <1>11 DEF CoreInv
-------------------------------------------------------------------------------
(* The invariant holds *)

LEMMA InitInv == Init => IInv
<1> SUFFICES ASSUME Init PROVE IInv
  OBVIOUS
<1>1. TunInv
  BY OffIsGood DEF Init, TunInv
<1>2. ShapeInv
  <2>1. IsState(stFile)
    BY StatesAssumption DEF Init, IsState
  <2> QED
    BY <2>1, NothingIsAList DEF Init, ShapeInv, NoReload, NoHistory, History
<1>3. UpInv /\ StepInv /\ SaveInv
  BY DEF Init, UpInv, StepInv, SaveInv, NoReload
<1> QED
  BY <1>1, <1>2, <1>3 DEF IInv, CoreInv

LEMMA CreateKeeps == ASSUME CoreInv, TunInv, Create PROVE CoreInv' /\ TunInv'
<1>0. /\ phase = "down" /\ cfgFile' = cfgFile /\ stFile' = stFile /\ lock' = lock
      /\ reload' = reload /\ hist' = hist
  BY DEF Create
<1>a. reload.pc = "idle" /\ lock = FALSE /\ hist = NoHistory
  BY <1>0 DEF CoreInv, UpInv, ShapeInv
<1>1. CASE phase' = "failed" /\ UNCHANGED <<tun, inst, api, disp, filter, linked>>
  <2>1. ShapeInv' /\ UpInv' /\ StepInv' /\ SaveInv'
    BY <1>0, <1>1, <1>a DEF CoreInv, ShapeInv, UpInv, StepInv, SaveInv
  <2> QED
    BY <1>1, <2>1 DEF CoreInv, TunInv
<1>2. ASSUME NEW o, phase' = "up", inst' = <<NewInstance(o, stFile)>>,
             api' = 1, disp' = 1, filter' = 1, linked' = [st |-> stFile, from |-> 1]
      PROVE  CoreInv'
  <2>1. PICK i : i = NewInstance(o, stFile)
    OBVIOUS
  <2>2. IsInstance(i) /\ Agrees(i, stFile)
    BY <2>1, NewAgrees
  <2>3. inst' \in Seq({i}) /\ Len(inst') = 1 /\ DOMAIN inst' = {1} /\ inst'[1] = i
    BY <1>2, <2>1
  <2>4. IsList(inst')
    BY <2>3, ListIn
  <2>5. ShapeInv'
    BY <1>0, <1>2, <2>2, <2>3, <2>4 DEF CoreInv, ShapeInv
  <2>6. UpInv' /\ StepInv'
    BY <1>0, <1>2, <1>a, <2>3 DEF UpInv, StepInv, Stored, Behind
  <2>7. SaveInv'
    BY <1>0, <1>2, <1>a, <2>2, <2>3 DEF SaveInv, Carried
  <2> QED
    BY <2>5, <2>6, <2>7 DEF CoreInv
<1>3. CASE /\ phase' = "up" /\ inst' = <<NewInstance(Outcome(cfgFile, stFile), stFile)>>
           /\ api' = 1 /\ disp' = 1 /\ filter' = 1 /\ linked' = [st |-> stFile, from |-> 1]
           /\ \E t \in IF cfgFile.tun THEN TunEnable(tun) ELSE {tun} : tun' = t
  <2>1. CoreInv'
    BY <1>2, <1>3
  <2>2. TunInv'
    BY <1>3, EnableKeeps DEF TunInv
  <2> QED
    BY <2>1, <2>2
<1> QED
  BY <1>1, <1>3 DEF Create

LEMMA UpdateKeeps ==
  ASSUME CoreInv, phase = "up", ~lock, NEW list, UpdateTemporaryList(list) PROVE CoreInv'
<1>1. PICK i, st : i = [inst[api] EXCEPT !.temp = list] /\ st = [linked.st EXCEPT !.temp = list]
  OBVIOUS
<1>2. IsInstance(inst[api]) /\ IsState(linked.st)
  BY ApiThere DEF CoreInv, ShapeInv
<1>3. IsInstance(i) /\ i.d = inst[api].d /\ i.sel = inst[api].sel /\ i.temp = list
  BY <1>1, <1>2 DEF IsInstance
<1>4. IsState(st) /\ st.sel = linked.st.sel /\ st.temp = list
  BY <1>1, <1>2 DEF IsState
<1>5. Agrees(inst[api], linked.st) => Agrees(i, st)
  BY <1>3, <1>4 DEF Agrees
<1>6. SaveBegins(i, st)
  BY <1>1 DEF UpdateTemporaryList
<1> QED
  BY <1>3, <1>4, <1>5, <1>6, SaveKeeps

LEMMA SelectionKeeps == ASSUME CoreInv, SetSelection PROVE CoreInv'
<1>1. phase = "up" /\ ~lock
  BY DEF SetSelection
<1>2. PICK i : i = inst[api]
  OBVIOUS
<1>3. PICK g, p : g \in DOMAIN i.sel /\ p \in ToSet(i.d.b.groups[g].members) /\
        SaveBegins([i EXCEPT !.sel = Select(@, g, p)], [linked.st EXCEPT !.sel = Select(@, g, p)])
  BY <1>2 DEF SetSelection
<1>4. PICK j, u : j = [i EXCEPT !.sel = Select(@, g, p)] /\ u = [linked.st EXCEPT !.sel = Select(@, g, p)]
  OBVIOUS
<1>5. IsInstance(i) /\ IsState(linked.st)
  BY <1>1, <1>2, ApiThere DEF CoreInv, ShapeInv
<1>6. IsInstance(j) /\ IsState(u)
  BY <1>4, <1>5 DEF IsInstance, IsState
<1>7. Agrees(i, linked.st) => Agrees(j, u)
  BY <1>3, <1>4, <1>5, SelectAgrees
<1>8. SaveBegins(j, u)
  BY <1>3, <1>4
<1> QED
  BY <1>1, <1>2, <1>6, <1>7, <1>8, SaveKeeps

LEMMA FlushKeeps == ASSUME CoreInv, FlushState PROVE CoreInv'
<1>1. /\ lock /\ lock' = FALSE /\ stFile' \in WrittenPart(linked.st) \cup {linked.st}
      /\ UNCHANGED <<phase, cfgFile, linked, inst, api, disp, filter, reload>>
  BY DEF FlushState
<1>2. /\ hist' \in History /\ hist'.now = hist.now /\ hist'.last = hist.last
      /\ hist'.unsaved \/ stFile' = linked.st
  BY DEF FlushState, CoreInv, ShapeInv, History
<1>3. IsState(stFile')
  BY <1>1 DEF CoreInv, ShapeInv, IsState, WrittenPart, Truncated
<1>4. ShapeInv'
  BY <1>1, <1>2, <1>3 DEF CoreInv, ShapeInv
<1>5. UpInv'
  BY <1>1 DEF CoreInv, UpInv
<1>6. StepInv'
  BY <1>1 DEF CoreInv, StepInv, Stored, Behind
<1>7. SaveInv'
  BY <1>1, <1>2 DEF CoreInv, SaveInv, Carried, Behind, ShapeInv
<1> QED
  BY <1>4, <1>5, <1>6, <1>7 DEF CoreInv
-------------------------------------------------------------------------------
(* The reload *)

LEMMA LoadKeeps == ASSUME CoreInv, ReloadLoad PROVE CoreInv'
<1>1. /\ phase = "up" /\ reload.pc = "idle" /\ hist' = [hist EXCEPT !.now = FALSE]
      /\ UNCHANGED <<phase, cfgFile, stFile, linked, lock, inst, api, disp, filter>>
      /\ reload' = IF Loadable(cfgFile, stFile)
                   THEN [pc |-> "build", cfg |-> cfgFile, st |-> stFile] ELSE NoReload
  BY DEF ReloadLoad, Reloading
<1>2. /\ hist'.now = FALSE /\ hist'.last = hist.last /\ hist' \in History
      /\ hist'.unsaved = hist.unsaved
  BY <1>1 DEF CoreInv, ShapeInv, History
<1>3. CASE ~Loadable(cfgFile, stFile)
  <2>1. reload' = NoReload
    BY <1>1, <1>3
  <2>2. ShapeInv' /\ UpInv'
    BY <1>1, <1>2, <2>1 DEF CoreInv, ShapeInv, UpInv, NoReload
  <2>3. StepInv'
    BY <1>1, <2>1 DEF CoreInv, StepInv, Stored, Behind, NoReload
  <2>4. SaveInv'
    BY <1>1, <1>2, <2>1 DEF CoreInv, SaveInv, Carried, Behind, NoReload
  <2> QED
    BY <2>2, <2>3, <2>4 DEF CoreInv
<1>4. CASE Loadable(cfgFile, stFile)
  <2>1. reload'.pc = "build" /\ reload'.st = stFile
    BY <1>1, <1>4
  <2>2. ~lock
    BY <1>1, <1>4 DEF CoreInv, SaveInv, Loadable
  <2>3. ShapeInv' /\ UpInv'
    BY <1>1, <1>2, <2>1 DEF CoreInv, ShapeInv, UpInv
  <2>4. StepInv'
    BY <1>1, <2>1 DEF CoreInv, StepInv, Stored, Behind
  <2>5. SaveInv'
    BY <1>1, <1>2, <2>1, <2>2 DEF CoreInv, SaveInv, Carried, Behind
  <2> QED
    BY <2>3, <2>4, <2>5 DEF CoreInv
<1> QED
  BY <1>3, <1>4

LEMMA BuildKeeps == ASSUME CoreInv, TunInv, ReloadBuild PROVE CoreInv' /\ TunInv'
<1>0. reload.pc = "build" /\ phase = "up"
  BY DEF ReloadBuild, CoreInv, UpInv
<1>1. CASE Reloading(NoReload) /\ UNCHANGED <<linked, inst, api, disp, filter, request, hist>>
  <2>1. /\ UNCHANGED <<phase, cfgFile, stFile, linked, lock, inst, api, disp, filter, hist>>
        /\ reload'.pc = "idle" /\ tun' = tun
    BY <1>1 DEF Reloading, NoReload
  <2>2. ShapeInv' /\ UpInv'
    BY <1>0, <2>1 DEF CoreInv, ShapeInv, UpInv
  <2>3. StepInv'
    BY <1>0, <2>1 DEF CoreInv, StepInv, Stored, Behind
  <2>4. SaveInv'
    BY <1>0, <2>1 DEF CoreInv, SaveInv, Carried, Behind
  <2> QED
    BY <2>1, <2>2, <2>3, <2>4 DEF CoreInv, TunInv
<1>2. CASE Vanish("failed") /\ tun' = TunOff(tun.mounts)
  <2>1. tun.mounts \in Nat
    BY DEF TunInv, GoodTun
  <2> QED
    BY <1>2, <2>1, VanishKeeps, OffIsGood DEF TunInv
<1>3. ASSUME NEW o, Reloading([pc |-> "state", st |-> reload.st]),
             inst' = Append(inst, NewInstance(o, reload.st)),
             UNCHANGED <<linked, api, disp, filter, request, hist>>
      PROVE  CoreInv' /\ TunInv'
  <2>1. /\ UNCHANGED <<phase, cfgFile, stFile, linked, lock, api, disp, filter, hist>>
        /\ reload'.pc = "state" /\ reload'.st = reload.st /\ tun' = tun
    BY <1>3 DEF Reloading
  <2>2. PICK i : i = NewInstance(o, reload.st)
    OBVIOUS
  <2>3. IsInstance(i) /\ Agrees(i, reload.st)
    BY <2>2, NewAgrees
  <2>4. Added(inst', inst, i)
    BY <1>3, <2>2, ListAppend DEF CoreInv, ShapeInv
  <2>5. /\ Len(inst) \in Nat /\ DOMAIN inst = 1 .. Len(inst)
        /\ Len(inst) \in DOMAIN inst /\ api \in DOMAIN inst
    BY <1>0, ApiThere
  <2>6. /\ IsList(inst') /\ Len(inst') = Len(inst) + 1 /\ inst'[Len(inst')] = i
        /\ DOMAIN inst' = 1 .. Len(inst') /\ \A k \in DOMAIN inst : inst'[k] = inst[k]
    BY <2>4, <2>5, ListFacts DEF Added
  <2>7. \A k \in DOMAIN inst' : IsInstance(inst'[k])
    BY <2>3, <2>5, <2>6 DEF CoreInv, ShapeInv
  <2>8. ShapeInv' /\ UpInv'
    BY <1>0, <2>1, <2>6, <2>7 DEF CoreInv, ShapeInv, UpInv
  <2>9. StepInv'
    BY <1>0, <2>1, <2>5, <2>6 DEF CoreInv, StepInv, Stored, Behind
  <2>10. SaveInv'
    BY <1>0, <2>1, <2>3, <2>6 DEF CoreInv, SaveInv, Carried, Behind
  <2> QED
    BY <2>1, <2>8, <2>9, <2>10 DEF CoreInv, TunInv
<1> QED
  BY <1>1, <1>2, <1>3 DEF ReloadBuild

\* The four stores, one after the other.
LEMMA StoresKeep ==
  ASSUME CoreInv, StoreState \/ StoreApi \/ StoreDispatching \/ StoreFilter PROVE CoreInv' /\ tun' = tun
<1>0. UNCHANGED <<phase, cfgFile, stFile, lock, inst, tun>> /\ phase = "up"
  BY DEF StoreState, StoreApi, StoreDispatching, StoreFilter, Reloading, CoreInv, UpInv
<1>a. /\ Len(inst) \in Nat /\ DOMAIN inst = 1 .. Len(inst)
      /\ Len(inst) \in DOMAIN inst /\ api \in DOMAIN inst
  BY <1>0, ApiThere
<1>1. CASE StoreState
  <2>1. /\ reload.pc = "state" /\ ~lock /\ linked' = [st |-> reload.st, from |-> Len(inst)]
        /\ reload'.pc = "api" /\ UNCHANGED <<api, disp, filter>>
        /\ hist' = [hist EXCEPT !.unsaved = FALSE]
    BY <1>1 DEF StoreState, Reloading
  <2>h. hist' \in History /\ hist'.now = hist.now /\ hist'.last = hist.last
    BY <2>1 DEF CoreInv, ShapeInv, History
  <2>2. ShapeInv' /\ UpInv'
    BY <1>0, <2>1, <2>h DEF CoreInv, ShapeInv, UpInv
  <2>3. StepInv'
    BY <1>0, <1>a, <2>1 DEF CoreInv, StepInv, Stored, Behind
  <2>4. SaveInv'
    BY <1>0, <2>1, <2>h DEF CoreInv, SaveInv, Carried, Behind
  <2> QED
    BY <1>0, <2>2, <2>3, <2>4 DEF CoreInv
<1>2. CASE StoreApi
  <2>1. /\ reload.pc = "api" /\ api' = Len(inst)
        /\ reload'.pc = "disp" /\ UNCHANGED <<linked, disp, filter, hist>>
    BY <1>2 DEF StoreApi, Reloading
  <2>2. ShapeInv' /\ UpInv'
    BY <1>0, <2>1 DEF CoreInv, ShapeInv, UpInv
  <2>3. StepInv'
    BY <1>0, <1>a, <2>1 DEF CoreInv, StepInv, Stored, Behind
  <2>4. SaveInv'
    BY <1>0, <2>1 DEF CoreInv, SaveInv, Carried, Behind
  <2> QED
    BY <1>0, <2>2, <2>3, <2>4 DEF CoreInv
<1>3. CASE StoreDispatching
  <2>1. /\ reload.pc = "disp" /\ disp' = Len(inst)
        /\ reload'.pc = "filter" /\ UNCHANGED <<linked, api, filter, hist>>
    BY <1>3 DEF StoreDispatching, Reloading
  <2>2. ShapeInv' /\ UpInv'
    BY <1>0, <2>1 DEF CoreInv, ShapeInv, UpInv
  <2>3. StepInv'
    BY <1>0, <1>a, <2>1 DEF CoreInv, StepInv, Stored, Behind
  <2>4. SaveInv'
    BY <1>0, <2>1 DEF CoreInv, SaveInv, Carried, Behind
  <2> QED
    BY <1>0, <2>2, <2>3, <2>4 DEF CoreInv
<1>4. CASE StoreFilter
  <2>1. /\ reload.pc = "filter" /\ filter' = Len(inst)
        /\ reload'.pc = "idle" /\ UNCHANGED <<linked, api, disp>>
        /\ hist' = [hist EXCEPT !.now = FALSE, !.last = hist.now]
    BY <1>4 DEF StoreFilter, Reloading, NoReload
  <2>h. hist' \in History /\ hist'.now = FALSE /\ hist'.last = hist.now
    BY <2>1 DEF CoreInv, ShapeInv, History
  <2>2. ShapeInv' /\ UpInv'
    BY <1>0, <2>1, <2>h DEF CoreInv, ShapeInv, UpInv
  <2>3. StepInv'
    BY <1>0, <1>a, <2>1 DEF CoreInv, StepInv, Stored, Behind
  <2>4. api = Len(inst)
    BY <1>0, <2>1 DEF CoreInv, StepInv, Stored, Behind
  <2>5. SaveInv'
    BY <1>0, <2>1, <2>h, <2>4 DEF CoreInv, SaveInv, Carried, Behind
  <2> QED
    BY <1>0, <2>2, <2>3, <2>5 DEF CoreInv
<1> QED
  BY <1>1, <1>2, <1>3, <1>4

LEMMA NextInv == IInv /\ [Next]_appVars => IInv'
<1> SUFFICES ASSUME IInv, [Next]_appVars PROVE IInv'
  OBVIOUS
<1>0. CoreInv /\ TunInv
  BY DEF IInv
<1>t. tun' = tun => TunInv'
  BY <1>0 DEF TunInv
<1>s. tun.mounts \in Nat /\ GoodTun(TunDisable(tun))
  BY <1>0, DisableKeeps DEF TunInv, GoodTun
<1>1. CASE UNCHANGED appVars
  BY <1>0, <1>t, <1>1, CoreUnchanged DEF appVars, core, IInv
<1>2. CASE ValidateConfig
  <2>1. /\ phase = "check" /\ phase' = "checked" /\ tun' = tun
        /\ UNCHANGED <<cfgFile, stFile, linked, lock, inst, api, disp, filter, reload, hist>>
    BY <1>2 DEF ValidateConfig
  <2>2. ShapeInv' /\ UpInv' /\ StepInv' /\ SaveInv'
    BY <1>0, <2>1 DEF CoreInv, ShapeInv, UpInv, StepInv, SaveInv
  <2> QED
    BY <1>t, <2>1, <2>2 DEF CoreInv, IInv
<1>3. CASE Create
  BY <1>0, <1>3, CreateKeeps DEF IInv
<1>4. CASE CtrlC
  <2>1. TunDisable(tun).mounts \in Nat
    BY <1>s DEF GoodTun
  <2> QED
    BY <1>0, <1>4, <2>1, VanishKeeps, OffIsGood DEF CtrlC, IInv, TunInv
<1>5. CASE Crash
  BY <1>0, <1>s, <1>5, VanishKeeps, OffIsGood DEF Crash, IInv, TunInv
<1>6. CASE EditConfig
  <2>1. /\ phase \in {"up", "down", "failed"} /\ phase' = (IF phase = "failed" THEN "down" ELSE phase) /\ tun' = tun
        /\ UNCHANGED <<stFile, linked, lock, inst, api, disp, filter, reload, hist>>
    BY <1>6 DEF EditConfig
  <2>2. ShapeInv' /\ UpInv'
    BY <1>0, <2>1 DEF CoreInv, ShapeInv, UpInv
  <2>3. StepInv'
    BY <1>0, <2>1 DEF CoreInv, StepInv, Stored, Behind
  <2>4. SaveInv'
    BY <1>0, <2>1 DEF CoreInv, SaveInv, Carried, Behind
  <2> QED
    BY <1>t, <2>1, <2>2, <2>3, <2>4 DEF CoreInv, IInv
<1>7. CASE SetTun
  <2>1. UNCHANGED core
    BY <1>7 DEF SetTun, core
  <2>2. TunInv'
    BY <1>0, <1>s, <1>7, EnableKeeps DEF SetTun, TunInv
  <2> QED
    BY <1>0, <2>1, <2>2, CoreUnchanged DEF IInv
<1>8. CASE SetSelection
  <2>1. tun' = tun
    BY <1>8 DEF SetSelection, SaveBegins
  <2> QED
    BY <1>0, <1>t, <1>8, <2>1, SelectionKeeps DEF IInv
<1>9. ASSUME NEW list, phase = "up", ~lock, UpdateTemporaryList(list) PROVE IInv'
  <2>1. tun' = tun
    BY <1>9 DEF UpdateTemporaryList, SaveBegins
  <2> QED
    BY <1>0, <1>t, <1>9, <2>1, UpdateKeeps DEF IInv
<1>10. CASE \E l \in TempRules : AddTemporaryRule(l) \/ DeleteTemporaryRule(l)
  BY <1>9, <1>10 DEF AddTemporaryRule, DeleteTemporaryRule
<1>11. CASE ClearTemporaryRule
  BY <1>9, <1>11 DEF ClearTemporaryRule
<1>12. CASE FlushState
  <2>1. tun' = tun
    BY <1>12 DEF FlushState
  <2> QED
    BY <1>0, <1>t, <1>12, <2>1, FlushKeeps DEF IInv
<1>13. CASE RequestReload
  BY <1>0, <1>t, <1>13, CoreUnchanged DEF RequestReload, core, IInv
<1>14. CASE ReloadLoad
  <2>1. tun' = tun
    BY <1>14 DEF ReloadLoad, Reloading
  <2> QED
    BY <1>0, <1>t, <1>14, <2>1, LoadKeeps DEF IInv
<1>15. CASE ReloadBuild
  BY <1>0, <1>15, BuildKeeps DEF IInv
<1>16. CASE StoreState \/ StoreApi \/ StoreDispatching \/ StoreFilter
  BY <1>0, <1>t, <1>16, StoresKeep DEF IInv
<1>17. ASSUME NEW c, Routing(c) PROVE IInv'
  BY <1>0, <1>t, <1>17, CoreUnchanged DEF Routing, core, IInv
<1>18. CASE \E i \in Infos : ConnStart(i)
  BY <1>17, <1>18 DEF ConnStart
<1>19. CASE \E a \in Answers : ConnResolved(a)
  BY <1>17, <1>19 DEF ConnResolved
<1>20. CASE ConnImpl \/ ConnOutbound
  BY <1>17, <1>20 DEF ConnImpl, ConnOutbound
<1> QED
  BY <1>1, <1>2, <1>3, <1>4, <1>5, <1>6, <1>7, <1>8, <1>10, <1>11, <1>12, <1>13, <1>14, <1>15,
     <1>16, <1>18, <1>19, <1>20 DEF Next

\* The inductive invariant holds in every reachable state of App.
THEOREM AppInvariant == Spec => []IInv
<1> QED
  BY InitInv, NextInv, PTL DEF Spec
\* A reload replaces everything or nothing, whichever step of it fails: once
\* it is over the state, the API, the dispatcher and the interception are of
\* one load.
THEOREM ReloadIsWhole == Spec => []ReloadAllOrNothing
<1>1. IInv => ReloadAllOrNothing
  BY DEF IInv, CoreInv, StepInv, Stored, Behind, ReloadAllOrNothing
<1> QED
  BY <1>1, AppInvariant, PTL

\* Between reloads, and unless an API call slipped into the last one, the
\* linked state and the instance of the API agree, and the file with them
\* unless the last flush_state failed, through crashes, restarts, failed
\* reloads and failed writes.
THEOREM LiveStateSaved == Spec => []LiveStateIsSaved
<1>1. IInv => LiveStateIsSaved
  BY DEF IInv, CoreInv, SaveInv, Behind, Agrees, LiveStateIsSaved
<1> QED
  BY <1>1, AppInvariant, PTL

\* get_status says enabled only when every route is in place and the resolver
\* is redirected, for every number of routes and wherever adding them failed.
THEOREM TunStatusRight == Spec => []TunStatusTruthful
<1>1. IInv => TunStatusTruthful
  BY DEF IInv, TunInv, GoodTun, GetStatus, TunStatusTruthful
<1> QED
  BY <1>1, AppInvariant, PTL

-------------------------------------------------------------------------------
(* Rule sets *)

LEMMA MinOf == ASSUME NEW T, T \subseteq Nat, T # {} PROVE \E x \in T : \A y \in T : x <= y
<1>1. PICK x \in T : \A y \in T : <<y, x>> \notin OpToRel(<, Nat)
  BY NatLessThanWellFounded, WFMin
<1>2. \A y \in T : ~(y < x)
  BY <1>1 DEF OpToRel
<1>3. \A y \in T : x <= y
  BY <1>2
<1> QED
  BY <1>1, <1>3

LEMMA MaxOf ==
  ASSUME NEW n \in Nat, NEW T, T \subseteq 0 .. n, T # {} PROVE \E x \in T : \A y \in T : y <= x
<1>1. PICK U : U = {n - y : y \in T}
  OBVIOUS
<1>2. U \subseteq Nat /\ U # {}
  <2>1. \A y \in T : n - y \in Nat
    OBVIOUS
  <2> QED
    BY <1>1, <2>1
<1>3. PICK u \in U : \A v \in U : u <= v
  BY <1>2, MinOf
<1>4. PICK x \in T : u = n - x
  BY <1>1, <1>3
<1>5. ASSUME NEW y \in T PROVE y <= x
  <2>1. n - x <= n - y
    BY <1>1, <1>3, <1>4
  <2> QED
    BY <2>1
<1> QED
  BY <1>5

LEMMA ReverseFacts ==
  ASSUME NEW s, IsList(s), NEW r, r = Reverse(s)
  PROVE  /\ IsList(r) /\ Len(r) = Len(s) /\ Len(s) \in Nat
         /\ \A i \in 1 .. Len(s) : r[i] = s[Len(s) - i + 1]
<1>1. Len(s) \in Nat
  BY ListFacts
<1>2. PICK n \in Nat : n = Len(s)
  BY <1>1
<1>3. r = [i \in 1 .. n |-> s[n - i + 1]]
  BY <1>2 DEF Reverse
<1>4. DOMAIN r = 1 .. n /\ r = [i \in 1 .. n |-> r[i]] /\ \A i \in 1 .. n : r[i] = s[n - i + 1]
  BY <1>3
<1>5. IsList(r) /\ Len(r) = n
  BY <1>4, ListOf
<1> QED
  BY <1>2, <1>4, <1>5

\* A name with a reversed name in front of it, of the same length, is it.
LEMMA SameReversed ==
  ASSUME NEW s, IsList(s), NEW t, IsList(t), Len(s) = Len(t), IsPrefix(Reverse(s), Reverse(t))
  PROVE  s = t
<1>1. PICK a, b : a = Reverse(s) /\ b = Reverse(t)
  OBVIOUS
<1>2. /\ IsList(a) /\ Len(a) = Len(s) /\ Len(s) \in Nat
      /\ \A i \in 1 .. Len(s) : a[i] = s[Len(s) - i + 1]
  BY <1>1, ReverseFacts
<1>3. /\ IsList(b) /\ Len(b) = Len(t)
      /\ \A i \in 1 .. Len(t) : b[i] = t[Len(t) - i + 1]
  BY <1>1, ReverseFacts
<1>4. PICK n \in Nat : n = Len(s)
  BY <1>2
<1>5. SubSeq(a, 1, n) = SubSeq(b, 1, n)
  BY <1>1, <1>2, <1>4 DEF IsPrefix
<1>6. ASSUME NEW i \in 1 .. n PROVE a[i] = b[i]
  <2>1. PICK A : a \in Seq(A)
    BY <1>2 DEF IsList
  <2>2. PICK B : b \in Seq(B)
    BY <1>3 DEF IsList
  <2>3. SubSeq(a, 1, n)[i] = a[i]
    BY <1>2, <1>4, <2>1
  <2>4. SubSeq(b, 1, n)[i] = b[i]
    BY <1>3, <1>4, <2>2
  <2> QED
    BY <1>5, <2>3, <2>4
<1>7. ASSUME NEW i \in 1 .. n PROVE s[i] = t[i]
  <2>1. n - i + 1 \in 1 .. n /\ n - (n - i + 1) + 1 = i
    BY <1>4
  <2>2. a[n - i + 1] = s[i] /\ b[n - i + 1] = t[i]
    BY <1>2, <1>3, <1>4, <2>1
  <2> QED
    BY <1>6, <2>1, <2>2
<1>8. PICK A : s \in Seq(A)
  BY DEF IsList
<1>9. PICK B : t \in Seq(B)
  BY DEF IsList
<1> QED
  BY <1>4, <1>7, <1>8, <1>9

\* get_ancestor has an answer: the last of the entries with the longest key.
IsBest(entries, cand, i) ==
  /\ i \in cand
  /\ \A j \in cand : \/ Len(entries[i].key) > Len(entries[j].key)
                     \/ Len(entries[i].key) = Len(entries[j].key) /\ i >= j
LEMMA BestExists ==
  ASSUME NEW entries, NEW n \in Nat, NEW m \in Nat, NEW cand, cand \subseteq 1 .. n, cand # {},
         \A i \in cand : Len(entries[i].key) \in 0 .. m
  PROVE  \E i : IsBest(entries, cand, i)
<1>1. PICK T : T = {Len(entries[i].key) : i \in cand}
  OBVIOUS
<1>2. T \subseteq 0 .. m /\ T # {}
  BY <1>1
<1>3. PICK x \in T : \A y \in T : y <= x
  BY <1>2, MaxOf
<1>4. PICK L : L = {i \in cand : Len(entries[i].key) = x}
  OBVIOUS
<1>5. L \subseteq 0 .. n /\ L # {}
  <2>1. PICK k \in cand : x = Len(entries[k].key)
    BY <1>1, <1>3
  <2>2. L \subseteq cand /\ k \in L
    BY <1>4, <2>1
  <2> QED
    BY <2>2
<1>6. PICK i \in L : \A j \in L : j <= i
  BY <1>5, MaxOf
<1>7. ASSUME NEW j \in cand
      PROVE  \/ Len(entries[i].key) > Len(entries[j].key)
             \/ Len(entries[i].key) = Len(entries[j].key) /\ i >= j
  <2>1. Len(entries[i].key) = x /\ Len(entries[j].key) <= x /\ x \in 0 .. m /\ Len(entries[j].key) \in 0 .. m
    BY <1>1, <1>2, <1>3, <1>4, <1>6
  <2>2. i \in 0 .. n /\ j \in 0 .. n
    BY <1>5, <1>6
  <2>3. CASE Len(entries[j].key) = x
    BY <1>4, <1>6, <2>1, <2>2, <2>3
  <2>4. CASE Len(entries[j].key) # x
    BY <2>1, <2>4
  <2> QED
    BY <2>3, <2>4
<1>8. i \in cand
  BY <1>4, <1>6
<1> QED
  BY <1>7, <1>8 DEF IsBest

\* What HostMatches answers comes from one entry of the tree.
LEMMA HostMatchFacts ==
  ASSUME NEW entries, NEW n \in Nat, DOMAIN entries \subseteq 1 .. n, NEW host, IsList(host),
         \A i \in DOMAIN entries : IsList(entries[i].key),
         HostMatches(entries, host)
  PROVE  \E i \in DOMAIN entries :
           /\ IsPrefix(entries[i].key, Reverse(host))
           /\ \/ Len(entries[i].key) = Len(host)
              \/ /\ entries[i].type = "suffix"
                 /\ Reverse(host)[Len(entries[i].key) + 1] = "."
<1>1. PICK rev : rev = Reverse(host)
  OBVIOUS
<1>2. PICK cand : cand = {i \in DOMAIN entries : IsPrefix(entries[i].key, rev)}
  OBVIOUS
<1>3. PICK best : best = CHOOSE i \in cand : \A j \in cand :
                 \/ Len(entries[i].key) > Len(entries[j].key)
                 \/ Len(entries[i].key) = Len(entries[j].key) /\ i >= j
  OBVIOUS
<1>4. /\ cand # {}
      /\ \/ Len(entries[best].key) = Len(rev)
         \/ entries[best].type = "suffix" /\ rev[Len(entries[best].key) + 1] = "."
  BY <1>1, <1>2, <1>3 DEF HostMatches
<1>5. Len(rev) = Len(host) /\ Len(rev) \in Nat
  BY <1>1, ReverseFacts
<1>6. \A i \in cand : Len(entries[i].key) \in 0 .. Len(rev)
  BY <1>2, <1>5, ListFacts DEF IsPrefix
<1>7. PICK k : IsBest(entries, cand, k)
  BY <1>2, <1>4, <1>5, <1>6, BestExists
<1>8. best \in cand
  BY <1>3, <1>7 DEF IsBest
<1> QED
  BY <1>1, <1>2, <1>4, <1>5, <1>8

\* The line a domain entry was made of is for the host it matches.
LEMMA EntryIsLine ==
  ASSUME NEW v, IsList(v), NEW host, IsList(host), IsPrefix(Reverse(v), Reverse(host)),
         NEW type \in {"exact", "suffix"},
         \/ Len(Reverse(v)) = Len(host)
         \/ type = "suffix" /\ Reverse(host)[Len(Reverse(v)) + 1] = "."
  PROVE  v = host \/ (type = "suffix" /\ SuffixMatches(v, host))
<1>1. PICK a, b : a = Reverse(v) /\ b = Reverse(host)
  OBVIOUS
<1>2. Len(a) = Len(v) /\ Len(v) \in Nat
  BY <1>1, ReverseFacts
<1>3. /\ Len(b) = Len(host) /\ Len(host) \in Nat
      /\ \A i \in 1 .. Len(host) : b[i] = host[Len(host) - i + 1]
  BY <1>1, ReverseFacts
<1>4. CASE Len(v) = Len(host)
  BY <1>4, SameReversed
<1>5. CASE Len(v) # Len(host)
  <2>1. Len(v) < Len(host)
    BY <1>1, <1>2, <1>3, <1>5 DEF IsPrefix
  <2>2. type = "suffix" /\ b[Len(v) + 1] = "."
    BY <1>1, <1>2, <1>5
  <2>3. b[Len(v) + 1] = host[Len(host) - Len(v)]
    <3>1. Len(v) + 1 \in 1 .. Len(host) /\ Len(host) - (Len(v) + 1) + 1 = Len(host) - Len(v)
      BY <1>2, <1>3, <2>1
    <3> QED
      BY <1>3, <3>1
  <2>4. IsSuffix(v, host)
    BY DEF IsSuffix
  <2> QED
    BY <2>1, <2>2, <2>3, <2>4 DEF SuffixMatches
<1> QED
  BY <1>4, <1>5

\* What LineMatches is for the kinds of lines a rule set is made of.
LEMMA LineCases ==
  ASSUME NEW r, NEW info
  PROVE  /\ r.t = "DOMAIN" /\ r.v \in DstName(info) => LineMatches(r, info)
         /\ r.t = "DOMAIN-SUFFIX" /\ (\E n \in DstName(info) : SuffixMatches(r.v, n)) => LineMatches(r, info)
         /\ r.t = "DOMAIN-KEYWORD" /\ (\E n \in DstName(info) : n \in r.v) => LineMatches(r, info)
         /\ r.t = "IP-CIDR" /\ (\E a \in DstAddr(info) : a \in r.v) => LineMatches(r, info)
         /\ r.t = "SRC-PORT" /\ PortMatches(r.v, info.net, info.srcport) => LineMatches(r, info)
         /\ r.t = "DST-PORT" /\ PortMatches(r.v, info.net, info.dst.port) => LineMatches(r, info)
         /\ r.t = "PROCESS-NAME" /\ (\E p \in info.proc : p.name = r.v) => LineMatches(r, info)
         /\ r.t = "PROCESS-KEYWORD" /\ (\E p \in info.proc : p.name \in r.v) => LineMatches(r, info)
         /\ r.t = "PROC-PATH-KEYWORD" /\ (\E p \in info.proc : p.path \in r.v) => LineMatches(r, info)
  BY DEF LineMatches

\* A port that is collected is that of a line.
LEMMA PortIsLine ==
  ASSUME NEW payload, NEW kind, NEW net, NEW port, <<net, port>> \in PortPairs(payload, kind)
  PROVE  \E r \in ToSet(payload) : r.t = kind /\ PortMatches(r.v, net, port)
<1>1. PICK v \in Contents(payload, {kind}) : net \in v.nets /\ port \in v.ports
  BY DEF PortPairs
<1>2. PICK r \in ToSet(payload) : r.t = kind /\ r.v = v
  BY DEF Contents, Lines, ToSet
<1> QED
  BY <1>1, <1>2 DEF PortMatches

\* The domain names of a payload are lists of characters, as names are.
IsPayload(payload) ==
  /\ IsList(payload)
  /\ \A i \in Lines(payload, {"DOMAIN", "DOMAIN-SUFFIX"}) : IsList(payload[i].v)

LEMMA DomainIsLine ==
  ASSUME NEW payload, IsPayload(payload), NEW info, NEW host \in DstName(info), IsList(host),
         HostMatches(DomainEntries(payload), host)
  PROVE  \E r \in ToSet(payload) : LineMatches(r, info)
<1>1. PICK e : e = DomainEntries(payload)
  OBVIOUS
<1>2. DOMAIN e = Lines(payload, {"DOMAIN", "DOMAIN-SUFFIX"})
  BY <1>1 DEF DomainEntries
<1>3. PICK n \in Nat : n = Len(payload) /\ DOMAIN payload = 1 .. n
  BY ListFacts DEF IsPayload
<1>4. DOMAIN e \subseteq 1 .. n
  BY <1>2, <1>3 DEF Lines
<1>5. ASSUME NEW i \in DOMAIN e
      PROVE  /\ e[i].key = Reverse(payload[i].v) /\ IsList(payload[i].v) /\ payload[i] \in ToSet(payload)
             /\ \/ payload[i].t = "DOMAIN" /\ e[i].type = "exact"
                \/ payload[i].t = "DOMAIN-SUFFIX" /\ e[i].type = "suffix"
  <2>1. i \in DOMAIN payload /\ payload[i].t \in {"DOMAIN", "DOMAIN-SUFFIX"}
    BY <1>2, <1>5 DEF Lines
  <2>2. e[i] = [type |-> IF payload[i].t = "DOMAIN" THEN "exact" ELSE "suffix", key |-> Reverse(payload[i].v)]
    BY <1>1, <1>2, <1>5 DEF DomainEntries, Entry
  <2> QED
    BY <1>2, <1>5, <2>1, <2>2 DEF IsPayload, ToSet
<1>6. \A i \in DOMAIN e : IsList(e[i].key)
  BY <1>5, ReverseFacts
<1>7. PICK i \in DOMAIN e : /\ IsPrefix(e[i].key, Reverse(host))
                            /\ \/ Len(e[i].key) = Len(host)
                               \/ e[i].type = "suffix" /\ Reverse(host)[Len(e[i].key) + 1] = "."
  BY <1>1, <1>4, <1>6, HostMatchFacts
<1>8. PICK r : r = payload[i]
  OBVIOUS
<1>9. r.v = host \/ (e[i].type = "suffix" /\ SuffixMatches(r.v, host))
  BY <1>5, <1>7, <1>8, EntryIsLine
<1>10. CASE r.t = "DOMAIN"
  <2>1. r.v = host
    BY <1>5, <1>8, <1>9, <1>10
  <2> QED
    BY <1>5, <1>8, <1>10, <2>1, LineCases
<1>11. CASE r.t = "DOMAIN-SUFFIX"
  <2>1. SuffixMatches(r.v, host)
    BY <1>9 DEF SuffixMatches
  <2> QED
    BY <1>5, <1>8, <1>11, <2>1, LineCases
<1> QED
  BY <1>5, <1>8, <1>10, <1>11

\* A connection a rule set matches, some line of its payload matches.
LEMMA SetMatchesByLine ==
  ASSUME NEW payload, IsPayload(payload), NEW info, \A n \in DstName(info) : IsList(n),
         RuleSetMatches(RuleSet(payload), info)
  PROVE  \E r \in ToSet(payload) : LineMatches(r, info)
<1>1. PICK rs : rs = RuleSet(payload)
  OBVIOUS
<1>2. CASE \E a \in DstAddr(info) : a \in rs.ip
  <2>1. PICK a \in DstAddr(info) : a \in UNION Contents(payload, {"IP-CIDR"})
    BY <1>1, <1>2 DEF RuleSet
  <2>2. PICK v \in Contents(payload, {"IP-CIDR"}) : a \in v
    BY <2>1
  <2>3. PICK r \in ToSet(payload) : r.t = "IP-CIDR" /\ r.v = v
    BY DEF Contents, Lines, ToSet
  <2> QED
    BY <2>1, <2>2, <2>3, LineCases
<1>3. CASE \E n \in DstName(info) : HostMatches(rs.domain, n)
  <2>1. rs.domain = DomainEntries(payload)
    BY <1>1 DEF RuleSet
  <2> QED
    BY <1>3, <2>1, DomainIsLine
<1>4. CASE \E n \in DstName(info) : n \in rs.domain_keyword
  <2>1. PICK n \in DstName(info) : n \in UNION Contents(payload, {"DOMAIN-KEYWORD"})
    BY <1>1, <1>4 DEF RuleSet
  <2>2. PICK v \in Contents(payload, {"DOMAIN-KEYWORD"}) : n \in v
    BY <2>1
  <2>3. PICK r \in ToSet(payload) : r.t = "DOMAIN-KEYWORD" /\ r.v = v
    BY DEF Contents, Lines, ToSet
  <2> QED
    BY <2>1, <2>2, <2>3, LineCases
<1>5. CASE <<info.net, info.dst.port>> \in rs.dst_port
  <2>1. <<info.net, info.dst.port>> \in PortPairs(payload, "DST-PORT")
    BY <1>1, <1>5 DEF RuleSet
  <2>2. PICK r \in ToSet(payload) : r.t = "DST-PORT" /\ PortMatches(r.v, info.net, info.dst.port)
    BY <2>1, PortIsLine
  <2> QED
    BY <2>2, LineCases
<1>6. CASE <<info.net, info.srcport>> \in rs.src_port
  <2>1. <<info.net, info.srcport>> \in PortPairs(payload, "SRC-PORT")
    BY <1>1, <1>6 DEF RuleSet
  <2>2. PICK r \in ToSet(payload) : r.t = "SRC-PORT" /\ PortMatches(r.v, info.net, info.srcport)
    BY <2>1, PortIsLine
  <2> QED
    BY <2>2, LineCases
<1>7. CASE \E p \in info.proc : p.name \in rs.process_name
  <2>1. PICK p \in info.proc : p.name \in Contents(payload, {"PROCESS-NAME"})
    BY <1>1, <1>7 DEF RuleSet
  <2>2. PICK r \in ToSet(payload) : r.t = "PROCESS-NAME" /\ r.v = p.name
    BY <2>1 DEF Contents, Lines, ToSet
  <2> QED
    BY <2>1, <2>2, LineCases
<1>8. CASE \E p \in info.proc : p.name \in rs.process_keyword
  <2>1. PICK p \in info.proc : p.name \in UNION Contents(payload, {"PROCESS-KEYWORD"})
    BY <1>1, <1>8 DEF RuleSet
  <2>2. PICK v \in Contents(payload, {"PROCESS-KEYWORD"}) : p.name \in v
    BY <2>1
  <2>3. PICK r \in ToSet(payload) : r.t = "PROCESS-KEYWORD" /\ r.v = v
    BY DEF Contents, Lines, ToSet
  <2> QED
    BY <2>1, <2>2, <2>3, LineCases
<1>9. CASE \E p \in info.proc : p.path \in rs.procpath_keyword
  <2>1. PICK p \in info.proc : p.path \in UNION Contents(payload, {"PROC-PATH-KEYWORD"})
    BY <1>1, <1>9 DEF RuleSet
  <2>2. PICK v \in Contents(payload, {"PROC-PATH-KEYWORD"}) : p.path \in v
    BY <2>1
  <2>3. PICK r \in ToSet(payload) : r.t = "PROC-PATH-KEYWORD" /\ r.v = v
    BY DEF Contents, Lines, ToSet
  <2> QED
    BY <2>1, <2>2, <2>3, LineCases
<1> QED
  BY <1>1, <1>2, <1>3, <1>4, <1>5, <1>6, <1>7, <1>8, <1>9 DEF RuleSetMatches

\* No rule set matches a connection that none of its lines matches, whatever
\* the lines and however the radix tree and the tables merge them.
THEOREM RuleSetsSound == Spec => []RuleSetSound
<1>1. IInv => RuleSetSound
  <2> SUFFICES ASSUME IInv, phase = "checked", NEW payloads, payloads = LoadedPayloads(cfgFile),
                      NEW n \in DOMAIN payloads, NEW i \in Probes,
                      RuleSetMatches(RuleSet(payloads[n]), i)
               PROVE  \E r \in ToSet(payloads[n]) : LineMatches(r, i)
    BY DEF RuleSetSound
  <2>1. cfgFile \in CheckConfigs
    BY DEF IInv, CoreInv, ShapeInv
  <2>2. PICK payload : payload = payloads[n]
    OBVIOUS
  <2>3. IsPayload(payload)
    BY <2>1, <2>2, NamesAssumption DEF IsPayload
  <2>4. \A m \in DstName(i) : IsList(m)
    BY NamesAssumption DEF DstName
  <2> QED
    BY <2>2, <2>3, <2>4, SetMatchesByLine
<1> QED
  BY <1>1, AppInvariant, PTL

===============================================================================
