---------------------------- MODULE ContextProofs ----------------------------
(***************************************************************************)
(* Proofs about the two objects of src/boltconn/src/proxy/context.rs that  *)
(* every connection shares with other threads: its ConnAbortHandle and the *)
(* ContextManager.                                                         *)
(*                                                                         *)
(* AbortHandle, for any number of cancels and tasks.  None of its          *)
(* properties is inductive alone: the argument is that each value of the   *)
(* state word is owned by the calls that are at certain places, so a       *)
(* successful compare_exchange hands ownership from one call to another.   *)
(*                                                                         *)
(* ContextManager, for any set of connections, any log limits and any      *)
(* grace.  The properties speak of the moments when nobody holds the lock; *)
(* the invariant says what push, in the middle of its scan, has already    *)
(* moved (toRemove: in both tables until the retain) and what it still has *)
(* to look at (scan), so that each part can be followed through every      *)
(* store of a mark_fin that runs meanwhile.                                *)
(***************************************************************************)
EXTENDS AbortHandle, ContextManager, FiniteSetTheorems, TLAPS

-------------------------------------------------------------------------------
(* ConnAbortHandle *)

CancelPCs == {"idle", "load", "casInit", "casReady", "loadHandles", "abort",
              "returned"}
FulfillPCs == {"idle", "casFulfill", "casEarly", "store", "setReady", "abort",
               "returned", "none", "dropped"}

Walking(p) == pc[p] \in {"loadHandles", "abort"}

\* Which values of the state word go with which places of fulfill().
FulfillOwnsState ==
  /\ pc[Fulfiller] \in FulfillPCs
  /\ pc[Fulfiller] \in {"idle", "casFulfill", "dropped"}
        => state \in {"INIT", "EARLY_CANCELLED"}
  /\ pc[Fulfiller] = "casEarly" => state = "EARLY_CANCELLED"
  /\ pc[Fulfiller] \in {"store", "setReady"} => state = "FULFILL_CHANGING"
  /\ pc[Fulfiller] \in {"returned", "none"}
        => state \in {"READY", "CANCELLING", "CANCELLED"}

\* Which values go with which places of the cancels.
CancelOwnsState ==
  /\ \A c \in Cancellers : pc[c] \in CancelPCs
  /\ \A p \in Threads : Walking(p) => state = "CANCELLING"
  /\ \A c \in Cancellers : pc[c] = "casReady" => Fulfilled
  /\ \A c \in Cancellers : pc[c] = "returned" => CancelRequested
  /\ CancelRequested
       => \E c \in Cancellers : pc[c] \in {"loadHandles", "abort", "returned"}

\* Which handles are stored when, and how far the aborting has come.
HandlesInv ==
  /\ pc[Fulfiller] = "setReady" => handles = Tasks
  /\ pc[Fulfiller] = "none" => handles = {}
  /\ pc[Fulfiller] = "returned" /\ state = "READY" => handles = Tasks
  /\ \A c \in Cancellers : pc[c] = "loadHandles" => handles = Given
AbortInv ==
  /\ \A p \in Threads : pc[p] = "abort" => aborted \cup todo[p] = Given
  /\ \A p \in Threads : pc[p] = "loadHandles" => aborted = {}
  /\ state \in {"INIT", "EARLY_CANCELLED", "FULFILL_CHANGING", "READY"}
        => aborted = {}
  /\ state = "CANCELLED" => aborted = Given

IndInv == /\ HandleTypeOK
          /\ OneAborter
          /\ FulfillOwnsState
          /\ CancelOwnsState
          /\ HandlesInv
          /\ AbortInv

-------------------------------------------------------------------------------

\* Both constructors, new() and placeholder(), establish the invariant.
LEMMA InitIndInv == HandleInit => IndInv
BY FulfillerAssumption
   DEF HandleInit, InitNew, InitPlaceholder, IndInv, HandleTypeOK, States, PCs, Threads,
       OneAborter, FulfillOwnsState, FulfillPCs, CancelOwnsState, CancelPCs,
       Walking, CancelRequested, Fulfilled, HandlesInv, AbortInv, Given

\* Every atomic step of every call preserves it.
LEMMA NextIndInv == IndInv /\ [HandleNext]_handleVars => IndInv'
<1> SUFFICES ASSUME IndInv, [HandleNext]_handleVars PROVE IndInv'
  OBVIOUS
<1>1. ASSUME NEW c \in Cancellers, CallCancel(c) PROVE IndInv'
  <2>1. HandleTypeOK'
    BY <1>1, FulfillerAssumption DEF IndInv, CallCancel, Goto, Threads, HandleTypeOK, PCs, States
  <2>2. OneAborter'
    BY <1>1, FulfillerAssumption DEF IndInv, CallCancel, Goto, Threads, HandleTypeOK, OneAborter, Walking, CancelOwnsState
  <2>3. FulfillOwnsState'
    BY <1>1, FulfillerAssumption DEF IndInv, CallCancel, Goto, Threads, HandleTypeOK, FulfillOwnsState, CancelOwnsState, FulfillPCs, Walking
  <2>4. CancelOwnsState'
    BY <1>1, FulfillerAssumption DEF IndInv, CallCancel, Goto, Threads, HandleTypeOK, CancelOwnsState, FulfillOwnsState, OneAborter, CancelPCs, FulfillPCs, Walking, CancelRequested, Fulfilled
  <2>5. HandlesInv'
    BY <1>1, FulfillerAssumption DEF IndInv, CallCancel, Goto, Threads, HandleTypeOK, HandlesInv, Given, FulfillOwnsState, CancelOwnsState, FulfillPCs, Walking
  <2>6. AbortInv'
    BY <1>1, FulfillerAssumption DEF IndInv, CallCancel, Goto, Threads, HandleTypeOK, AbortInv, HandlesInv, Given, FulfillOwnsState, CancelOwnsState, OneAborter, FulfillPCs, CancelPCs, Walking
  <2> QED BY <2>1, <2>2, <2>3, <2>4, <2>5, <2>6 DEF IndInv
<1>2. ASSUME NEW c \in Cancellers, Load(c) PROVE IndInv'
  <2>1. HandleTypeOK'
    BY <1>2, FulfillerAssumption DEF IndInv, Load, Goto, Threads, HandleTypeOK, PCs, States, Branch
  <2>2. OneAborter'
    BY <1>2, FulfillerAssumption DEF IndInv, Load, Goto, Threads, HandleTypeOK, OneAborter, Walking, CancelOwnsState, Branch
  <2>3. FulfillOwnsState'
    BY <1>2, FulfillerAssumption DEF IndInv, Load, Goto, Threads, HandleTypeOK, FulfillOwnsState, CancelOwnsState, FulfillPCs, Walking, Branch
  <2>4. CancelOwnsState'
    BY <1>2, FulfillerAssumption DEF IndInv, Load, Goto, Threads, HandleTypeOK, CancelOwnsState, FulfillOwnsState, OneAborter, CancelPCs, FulfillPCs, Walking, CancelRequested, Fulfilled, Branch
  <2>5. HandlesInv'
    BY <1>2, FulfillerAssumption DEF IndInv, Load, Goto, Threads, HandleTypeOK, HandlesInv, Given, FulfillOwnsState, CancelOwnsState, FulfillPCs, Walking, Branch
  <2>6. AbortInv'
    BY <1>2, FulfillerAssumption DEF IndInv, Load, Goto, Threads, HandleTypeOK, AbortInv, HandlesInv, Given, FulfillOwnsState, CancelOwnsState, OneAborter, FulfillPCs, CancelPCs, Walking, Branch
  <2> QED BY <2>1, <2>2, <2>3, <2>4, <2>5, <2>6 DEF IndInv
<1>3. ASSUME NEW c \in Cancellers, CasInit(c) PROVE IndInv'
  <2>1. HandleTypeOK'
    BY <1>3, FulfillerAssumption DEF IndInv, CasInit, Goto, Threads, HandleTypeOK, PCs, States
  <2>2. OneAborter'
    BY <1>3, FulfillerAssumption DEF IndInv, CasInit, Goto, Threads, HandleTypeOK, OneAborter, Walking, CancelOwnsState
  <2>3. FulfillOwnsState'
    BY <1>3, FulfillerAssumption DEF IndInv, CasInit, Goto, Threads, HandleTypeOK, FulfillOwnsState, CancelOwnsState, FulfillPCs, Walking
  <2>4. CancelOwnsState'
    BY <1>3, FulfillerAssumption DEF IndInv, CasInit, Goto, Threads, HandleTypeOK, CancelOwnsState, FulfillOwnsState, OneAborter, CancelPCs, FulfillPCs, Walking, CancelRequested, Fulfilled
  <2>5. HandlesInv'
    BY <1>3, FulfillerAssumption DEF IndInv, CasInit, Goto, Threads, HandleTypeOK, HandlesInv, Given, FulfillOwnsState, CancelOwnsState, FulfillPCs, Walking
  <2>6. AbortInv'
    BY <1>3, FulfillerAssumption DEF IndInv, CasInit, Goto, Threads, HandleTypeOK, AbortInv, HandlesInv, Given, FulfillOwnsState, CancelOwnsState, OneAborter, FulfillPCs, CancelPCs, Walking
  <2> QED BY <2>1, <2>2, <2>3, <2>4, <2>5, <2>6 DEF IndInv
<1>4. ASSUME NEW c \in Cancellers, CasReady(c) PROVE IndInv'
  <2>1. HandleTypeOK'
    BY <1>4, FulfillerAssumption DEF IndInv, CasReady, Goto, Threads, HandleTypeOK, PCs, States
  <2>2. OneAborter'
    BY <1>4, FulfillerAssumption DEF IndInv, CasReady, Goto, Threads, HandleTypeOK, OneAborter, Walking, CancelOwnsState
  <2>3. FulfillOwnsState'
    BY <1>4, FulfillerAssumption DEF IndInv, CasReady, Goto, Threads, HandleTypeOK, FulfillOwnsState, CancelOwnsState, FulfillPCs, Walking
  <2>4. CancelOwnsState'
    BY <1>4, FulfillerAssumption DEF IndInv, CasReady, Goto, Threads, HandleTypeOK, CancelOwnsState, FulfillOwnsState, OneAborter, CancelPCs, FulfillPCs, Walking, CancelRequested, Fulfilled
  <2>5. HandlesInv'
    BY <1>4, FulfillerAssumption DEF IndInv, CasReady, Goto, Threads, HandleTypeOK, HandlesInv, Given, FulfillOwnsState, CancelOwnsState, FulfillPCs, Walking
  <2>6. AbortInv'
    BY <1>4, FulfillerAssumption DEF IndInv, CasReady, Goto, Threads, HandleTypeOK, AbortInv, HandlesInv, Given, FulfillOwnsState, CancelOwnsState, OneAborter, FulfillPCs, CancelPCs, Walking
  <2> QED BY <2>1, <2>2, <2>3, <2>4, <2>5, <2>6 DEF IndInv
<1>5. ASSUME NEW c \in Cancellers, LoadHandles(c) PROVE IndInv'
  <2>1. HandleTypeOK'
    BY <1>5, FulfillerAssumption DEF IndInv, LoadHandles, Goto, Threads, HandleTypeOK, PCs, States
  <2>2. OneAborter'
    BY <1>5, FulfillerAssumption DEF IndInv, LoadHandles, Goto, Threads, HandleTypeOK, OneAborter, Walking, CancelOwnsState
  <2>3. FulfillOwnsState'
    BY <1>5, FulfillerAssumption DEF IndInv, LoadHandles, Goto, Threads, HandleTypeOK, FulfillOwnsState, CancelOwnsState, FulfillPCs, Walking
  <2>4. CancelOwnsState'
    BY <1>5, FulfillerAssumption DEF IndInv, LoadHandles, Goto, Threads, HandleTypeOK, CancelOwnsState, FulfillOwnsState, OneAborter, CancelPCs, FulfillPCs, Walking, CancelRequested, Fulfilled
  <2>5. HandlesInv'
    BY <1>5, FulfillerAssumption DEF IndInv, LoadHandles, Goto, Threads, HandleTypeOK, HandlesInv, Given, FulfillOwnsState, CancelOwnsState, FulfillPCs, Walking
  <2>6. AbortInv'
    BY <1>5, FulfillerAssumption DEF IndInv, LoadHandles, Goto, Threads, HandleTypeOK, AbortInv, HandlesInv, Given, FulfillOwnsState, CancelOwnsState, OneAborter, FulfillPCs, CancelPCs, Walking
  <2> QED BY <2>1, <2>2, <2>3, <2>4, <2>5, <2>6 DEF IndInv
<1>6. ASSUME NEW p \in Threads, AbortOne(p) PROVE IndInv'
  <2>1. HandleTypeOK'
    BY <1>6, FulfillerAssumption DEF IndInv, AbortOne, Goto, Threads, HandleTypeOK, PCs, States
  <2>2. OneAborter'
    BY <1>6, FulfillerAssumption DEF IndInv, AbortOne, Goto, Threads, HandleTypeOK, OneAborter, Walking, CancelOwnsState
  <2>3. FulfillOwnsState'
    BY <1>6, FulfillerAssumption DEF IndInv, AbortOne, Goto, Threads, HandleTypeOK, FulfillOwnsState, CancelOwnsState, FulfillPCs, Walking
  <2>4. CancelOwnsState'
    BY <1>6, FulfillerAssumption DEF IndInv, AbortOne, Goto, Threads, HandleTypeOK, CancelOwnsState, FulfillOwnsState, OneAborter, CancelPCs, FulfillPCs, Walking, CancelRequested, Fulfilled
  <2>5. HandlesInv'
    BY <1>6, FulfillerAssumption DEF IndInv, AbortOne, Goto, Threads, HandleTypeOK, HandlesInv, Given, FulfillOwnsState, CancelOwnsState, FulfillPCs, Walking
  <2>6. AbortInv'
    BY <1>6, FulfillerAssumption DEF IndInv, AbortOne, Goto, Threads, HandleTypeOK, AbortInv, HandlesInv, Given, FulfillOwnsState, CancelOwnsState, OneAborter, FulfillPCs, CancelPCs, Walking
  <2> QED BY <2>1, <2>2, <2>3, <2>4, <2>5, <2>6 DEF IndInv
<1>7. ASSUME NEW p \in Threads, FinishAbort(p) PROVE IndInv'
  <2>1. HandleTypeOK'
    BY <1>7, FulfillerAssumption DEF IndInv, FinishAbort, Goto, Threads, HandleTypeOK, PCs, States
  <2>2. OneAborter'
    BY <1>7, FulfillerAssumption DEF IndInv, FinishAbort, Goto, Threads, HandleTypeOK, OneAborter, Walking, CancelOwnsState
  <2>3. FulfillOwnsState'
    BY <1>7, FulfillerAssumption DEF IndInv, FinishAbort, Goto, Threads, HandleTypeOK, FulfillOwnsState, CancelOwnsState, FulfillPCs, Walking
  <2>4. CancelOwnsState'
    BY <1>7, FulfillerAssumption DEF IndInv, FinishAbort, Goto, Threads, HandleTypeOK, CancelOwnsState, FulfillOwnsState, OneAborter, CancelPCs, FulfillPCs, Walking, CancelRequested, Fulfilled
  <2>5. HandlesInv'
    BY <1>7, FulfillerAssumption DEF IndInv, FinishAbort, Goto, Threads, HandleTypeOK, HandlesInv, Given, FulfillOwnsState, CancelOwnsState, FulfillPCs, Walking
  <2>6. AbortInv'
    BY <1>7, FulfillerAssumption DEF IndInv, FinishAbort, Goto, Threads, HandleTypeOK, AbortInv, HandlesInv, Given, FulfillOwnsState, CancelOwnsState, OneAborter, FulfillPCs, CancelPCs, Walking
  <2> QED BY <2>1, <2>2, <2>3, <2>4, <2>5, <2>6 DEF IndInv
<1>8. ASSUME CallFulfill PROVE IndInv'
  <2>1. HandleTypeOK'
    BY <1>8, FulfillerAssumption DEF IndInv, CallFulfill, Goto, Threads, HandleTypeOK, PCs, States
  <2>2. OneAborter'
    BY <1>8, FulfillerAssumption DEF IndInv, CallFulfill, Goto, Threads, HandleTypeOK, OneAborter, Walking, CancelOwnsState
  <2>3. FulfillOwnsState'
    BY <1>8, FulfillerAssumption DEF IndInv, CallFulfill, Goto, Threads, HandleTypeOK, FulfillOwnsState, CancelOwnsState, FulfillPCs, Walking
  <2>4. CancelOwnsState'
    BY <1>8, FulfillerAssumption DEF IndInv, CallFulfill, Goto, Threads, HandleTypeOK, CancelOwnsState, FulfillOwnsState, OneAborter, CancelPCs, FulfillPCs, Walking, CancelRequested, Fulfilled
  <2>5. HandlesInv'
    BY <1>8, FulfillerAssumption DEF IndInv, CallFulfill, Goto, Threads, HandleTypeOK, HandlesInv, Given, FulfillOwnsState, CancelOwnsState, FulfillPCs, Walking
  <2>6. AbortInv'
    BY <1>8, FulfillerAssumption DEF IndInv, CallFulfill, Goto, Threads, HandleTypeOK, AbortInv, HandlesInv, Given, FulfillOwnsState, CancelOwnsState, OneAborter, FulfillPCs, CancelPCs, Walking
  <2> QED BY <2>1, <2>2, <2>3, <2>4, <2>5, <2>6 DEF IndInv
<1>9. ASSUME NeverFulfill PROVE IndInv'
  <2>1. HandleTypeOK'
    BY <1>9, FulfillerAssumption DEF IndInv, NeverFulfill, Goto, Threads, HandleTypeOK, PCs, States
  <2>2. OneAborter'
    BY <1>9, FulfillerAssumption DEF IndInv, NeverFulfill, Goto, Threads, HandleTypeOK, OneAborter, Walking, CancelOwnsState
  <2>3. FulfillOwnsState'
    BY <1>9, FulfillerAssumption DEF IndInv, NeverFulfill, Goto, Threads, HandleTypeOK, FulfillOwnsState, CancelOwnsState, FulfillPCs, Walking
  <2>4. CancelOwnsState'
    BY <1>9, FulfillerAssumption DEF IndInv, NeverFulfill, Goto, Threads, HandleTypeOK, CancelOwnsState, FulfillOwnsState, OneAborter, CancelPCs, FulfillPCs, Walking, CancelRequested, Fulfilled
  <2>5. HandlesInv'
    BY <1>9, FulfillerAssumption DEF IndInv, NeverFulfill, Goto, Threads, HandleTypeOK, HandlesInv, Given, FulfillOwnsState, CancelOwnsState, FulfillPCs, Walking
  <2>6. AbortInv'
    BY <1>9, FulfillerAssumption DEF IndInv, NeverFulfill, Goto, Threads, HandleTypeOK, AbortInv, HandlesInv, Given, FulfillOwnsState, CancelOwnsState, OneAborter, FulfillPCs, CancelPCs, Walking
  <2> QED BY <2>1, <2>2, <2>3, <2>4, <2>5, <2>6 DEF IndInv
<1>10. ASSUME CasFulfill PROVE IndInv'
  <2>1. HandleTypeOK'
    BY <1>10, FulfillerAssumption DEF IndInv, CasFulfill, Goto, Threads, HandleTypeOK, PCs, States
  <2>2. OneAborter'
    BY <1>10, FulfillerAssumption DEF IndInv, CasFulfill, Goto, Threads, HandleTypeOK, OneAborter, Walking, CancelOwnsState
  <2>3. FulfillOwnsState'
    BY <1>10, FulfillerAssumption DEF IndInv, CasFulfill, Goto, Threads, HandleTypeOK, FulfillOwnsState, CancelOwnsState, FulfillPCs, Walking
  <2>4. CancelOwnsState'
    BY <1>10, FulfillerAssumption DEF IndInv, CasFulfill, Goto, Threads, HandleTypeOK, CancelOwnsState, FulfillOwnsState, OneAborter, CancelPCs, FulfillPCs, Walking, CancelRequested, Fulfilled
  <2>5. HandlesInv'
    BY <1>10, FulfillerAssumption DEF IndInv, CasFulfill, Goto, Threads, HandleTypeOK, HandlesInv, Given, FulfillOwnsState, CancelOwnsState, FulfillPCs, Walking
  <2>6. AbortInv'
    BY <1>10, FulfillerAssumption DEF IndInv, CasFulfill, Goto, Threads, HandleTypeOK, AbortInv, HandlesInv, Given, FulfillOwnsState, CancelOwnsState, OneAborter, FulfillPCs, CancelPCs, Walking
  <2> QED BY <2>1, <2>2, <2>3, <2>4, <2>5, <2>6 DEF IndInv
<1>11. ASSUME CasEarly PROVE IndInv'
  <2>1. HandleTypeOK'
    BY <1>11, FulfillerAssumption DEF IndInv, CasEarly, Goto, Threads, HandleTypeOK, PCs, States
  <2>2. OneAborter'
    BY <1>11, FulfillerAssumption DEF IndInv, CasEarly, Goto, Threads, HandleTypeOK, OneAborter, Walking, CancelOwnsState
  <2>3. FulfillOwnsState'
    BY <1>11, FulfillerAssumption DEF IndInv, CasEarly, Goto, Threads, HandleTypeOK, FulfillOwnsState, CancelOwnsState, FulfillPCs, Walking
  <2>4. CancelOwnsState'
    BY <1>11, FulfillerAssumption DEF IndInv, CasEarly, Goto, Threads, HandleTypeOK, CancelOwnsState, FulfillOwnsState, OneAborter, CancelPCs, FulfillPCs, Walking, CancelRequested, Fulfilled
  <2>5. HandlesInv'
    BY <1>11, FulfillerAssumption DEF IndInv, CasEarly, Goto, Threads, HandleTypeOK, HandlesInv, Given, FulfillOwnsState, CancelOwnsState, FulfillPCs, Walking
  <2>6. AbortInv'
    BY <1>11, FulfillerAssumption DEF IndInv, CasEarly, Goto, Threads, HandleTypeOK, AbortInv, HandlesInv, Given, FulfillOwnsState, CancelOwnsState, OneAborter, FulfillPCs, CancelPCs, Walking
  <2> QED BY <2>1, <2>2, <2>3, <2>4, <2>5, <2>6 DEF IndInv
<1>12. ASSUME StoreHandles PROVE IndInv'
  <2>1. HandleTypeOK'
    BY <1>12, FulfillerAssumption DEF IndInv, StoreHandles, Goto, Threads, HandleTypeOK, PCs, States
  <2>2. OneAborter'
    BY <1>12, FulfillerAssumption DEF IndInv, StoreHandles, Goto, Threads, HandleTypeOK, OneAborter, Walking, CancelOwnsState
  <2>3. FulfillOwnsState'
    BY <1>12, FulfillerAssumption DEF IndInv, StoreHandles, Goto, Threads, HandleTypeOK, FulfillOwnsState, CancelOwnsState, FulfillPCs, Walking
  <2>4. CancelOwnsState'
    BY <1>12, FulfillerAssumption DEF IndInv, StoreHandles, Goto, Threads, HandleTypeOK, CancelOwnsState, FulfillOwnsState, OneAborter, CancelPCs, FulfillPCs, Walking, CancelRequested, Fulfilled
  <2>5. HandlesInv'
    BY <1>12, FulfillerAssumption DEF IndInv, StoreHandles, Goto, Threads, HandleTypeOK, HandlesInv, Given, FulfillOwnsState, CancelOwnsState, FulfillPCs, Walking
  <2>6. AbortInv'
    BY <1>12, FulfillerAssumption DEF IndInv, StoreHandles, Goto, Threads, HandleTypeOK, AbortInv, HandlesInv, Given, FulfillOwnsState, CancelOwnsState, OneAborter, FulfillPCs, CancelPCs, Walking
  <2> QED BY <2>1, <2>2, <2>3, <2>4, <2>5, <2>6 DEF IndInv
<1>13. ASSUME SetReady PROVE IndInv'
  <2>1. HandleTypeOK'
    BY <1>13, FulfillerAssumption DEF IndInv, SetReady, Goto, Threads, HandleTypeOK, PCs, States
  <2>2. OneAborter'
    BY <1>13, FulfillerAssumption DEF IndInv, SetReady, Goto, Threads, HandleTypeOK, OneAborter, Walking, CancelOwnsState
  <2>3. FulfillOwnsState'
    BY <1>13, FulfillerAssumption DEF IndInv, SetReady, Goto, Threads, HandleTypeOK, FulfillOwnsState, CancelOwnsState, FulfillPCs, Walking
  <2>4. CancelOwnsState'
    BY <1>13, FulfillerAssumption DEF IndInv, SetReady, Goto, Threads, HandleTypeOK, CancelOwnsState, FulfillOwnsState, OneAborter, CancelPCs, FulfillPCs, Walking, CancelRequested, Fulfilled
  <2>5. HandlesInv'
    BY <1>13, FulfillerAssumption DEF IndInv, SetReady, Goto, Threads, HandleTypeOK, HandlesInv, Given, FulfillOwnsState, CancelOwnsState, FulfillPCs, Walking
  <2>6. AbortInv'
    BY <1>13, FulfillerAssumption DEF IndInv, SetReady, Goto, Threads, HandleTypeOK, AbortInv, HandlesInv, Given, FulfillOwnsState, CancelOwnsState, OneAborter, FulfillPCs, CancelPCs, Walking
  <2> QED BY <2>1, <2>2, <2>3, <2>4, <2>5, <2>6 DEF IndInv
<1>14. CASE UNCHANGED handleVars
  BY <1>14 DEF handleVars, IndInv, HandleTypeOK, OneAborter, FulfillOwnsState,
     CancelOwnsState, HandlesInv, AbortInv, Walking, CancelRequested, Fulfilled, Given
<1> QED
  BY <1>1, <1>2, <1>3, <1>4, <1>5, <1>6, <1>7, <1>8, <1>9, <1>10, <1>11, <1>12, <1>13, <1>14 DEF HandleNext, Cancel, Fulfill

-------------------------------------------------------------------------------

\* IndInv holds in every reachable state.
LEMMA SpecIndInv == HandleSpec => []IndInv
BY InitIndInv, NextIndInv, PTL DEF HandleSpec

\* The state word, the stored handles and the aborted tasks stay in range.
THEOREM HandleTypeCorrect == HandleSpec => []HandleTypeOK
<1>1. IndInv => HandleTypeOK
  BY DEF IndInv
<1> QED BY <1>1, SpecIndInv, PTL

\* No unwrap() of cancel() or fulfill() panics and fulfill() never finds the
\* handle in a state it calls "fulfilled twice".
THEOREM NeverPanics == HandleSpec => []NoPanic
<1>1. IndInv => NoPanic
  BY DEF IndInv, NoPanic, FulfillOwnsState, CancelOwnsState, FulfillPCs,
         CancelPCs, Threads
<1> QED BY <1>1, SpecIndInv, PTL

\* A returned cancel() is not lost, whichever way it raced with fulfill().
THEOREM CancelSticks == HandleSpec => []CancelNotForgotten
<1>1. IndInv => CancelNotForgotten
  BY DEF IndInv, CancelNotForgotten, FulfillOwnsState, CancelOwnsState
<1> QED BY <1>1, SpecIndInv, PTL

\* CANCELLED means that all tasks of the handle were aborted, and tasks are
\* only aborted after somebody cancelled.
THEOREM AbortsExactlyOnCancel == HandleSpec => []CancelledMeansAborted
<1>1. IndInv => CancelledMeansAborted
  BY DEF IndInv, HandleTypeOK, States, CancelledMeansAborted, AbortInv,
         CancelOwnsState, CancelRequested
<1> QED BY <1>1, SpecIndInv, PTL

\* Only one call ever walks the handles.
THEOREM SingleAborter == HandleSpec => []OneAborter
<1>1. IndInv => OneAborter
  BY DEF IndInv
<1> QED BY <1>1, SpecIndInv, PTL

-------------------------------------------------------------------------------
(* Refinement: every atomic step is one step of CancelOnce or none at all. *)

\* Both constructors are initial states of the abstract object.
LEMMA InitRefines == HandleInit => Abstract!Init
BY FulfillerAssumption
   DEF HandleInit, InitNew, InitPlaceholder, Abstract!Init, CancelRequested,
       Fulfilled, Given, Threads

\* Every step of the code is a step of the abstract object or a stutter.
LEMMA StepRefines == IndInv /\ [HandleNext]_handleVars => [Abstract!Next]_(Abstract!vars)
<1> SUFFICES ASSUME IndInv, [HandleNext]_handleVars PROVE [Abstract!Next]_(Abstract!vars)
  OBVIOUS
<1>1. ASSUME NEW c \in Cancellers, CallCancel(c) PROVE [Abstract!Next]_(Abstract!vars)
  BY <1>1, FulfillerAssumption
     DEF CallCancel, Goto, IndInv, HandleTypeOK, Threads, FulfillOwnsState, FulfillPCs,
         CancelOwnsState, Walking, HandlesInv, AbortInv, Given, Fulfilled,
         CancelRequested, Abstract!Next, Abstract!Request, Abstract!Bind,
         Abstract!Stop, Abstract!vars
<1>2. ASSUME NEW c \in Cancellers, Load(c) PROVE [Abstract!Next]_(Abstract!vars)
  BY <1>2, FulfillerAssumption
     DEF Load, Goto, IndInv, HandleTypeOK, Threads, FulfillOwnsState, FulfillPCs,
         CancelOwnsState, Walking, HandlesInv, AbortInv, Given, Fulfilled,
         CancelRequested, Abstract!Next, Abstract!Request, Abstract!Bind,
         Abstract!Stop, Abstract!vars
<1>3. ASSUME NEW c \in Cancellers, CasInit(c) PROVE [Abstract!Next]_(Abstract!vars)
  BY <1>3, FulfillerAssumption
     DEF CasInit, Goto, IndInv, HandleTypeOK, Threads, FulfillOwnsState, FulfillPCs,
         CancelOwnsState, Walking, HandlesInv, AbortInv, Given, Fulfilled,
         CancelRequested, Abstract!Next, Abstract!Request, Abstract!Bind,
         Abstract!Stop, Abstract!vars
<1>4. ASSUME NEW c \in Cancellers, CasReady(c) PROVE [Abstract!Next]_(Abstract!vars)
  BY <1>4, FulfillerAssumption
     DEF CasReady, Goto, IndInv, HandleTypeOK, Threads, FulfillOwnsState, FulfillPCs,
         CancelOwnsState, Walking, HandlesInv, AbortInv, Given, Fulfilled,
         CancelRequested, Abstract!Next, Abstract!Request, Abstract!Bind,
         Abstract!Stop, Abstract!vars
<1>5. ASSUME NEW c \in Cancellers, LoadHandles(c) PROVE [Abstract!Next]_(Abstract!vars)
  BY <1>5, FulfillerAssumption
     DEF LoadHandles, Goto, IndInv, HandleTypeOK, Threads, FulfillOwnsState, FulfillPCs,
         CancelOwnsState, Walking, HandlesInv, AbortInv, Given, Fulfilled,
         CancelRequested, Abstract!Next, Abstract!Request, Abstract!Bind,
         Abstract!Stop, Abstract!vars
<1>6. ASSUME NEW p \in Threads, AbortOne(p) PROVE [Abstract!Next]_(Abstract!vars)
  BY <1>6, FulfillerAssumption
     DEF AbortOne, Goto, IndInv, HandleTypeOK, Threads, FulfillOwnsState, FulfillPCs,
         CancelOwnsState, Walking, HandlesInv, AbortInv, Given, Fulfilled,
         CancelRequested, Abstract!Next, Abstract!Request, Abstract!Bind,
         Abstract!Stop, Abstract!vars
<1>7. ASSUME NEW p \in Threads, FinishAbort(p) PROVE [Abstract!Next]_(Abstract!vars)
  BY <1>7, FulfillerAssumption
     DEF FinishAbort, Goto, IndInv, HandleTypeOK, Threads, FulfillOwnsState, FulfillPCs,
         CancelOwnsState, Walking, HandlesInv, AbortInv, Given, Fulfilled,
         CancelRequested, Abstract!Next, Abstract!Request, Abstract!Bind,
         Abstract!Stop, Abstract!vars
<1>8. ASSUME CallFulfill PROVE [Abstract!Next]_(Abstract!vars)
  BY <1>8, FulfillerAssumption
     DEF CallFulfill, Goto, IndInv, HandleTypeOK, Threads, FulfillOwnsState, FulfillPCs,
         CancelOwnsState, Walking, HandlesInv, AbortInv, Given, Fulfilled,
         CancelRequested, Abstract!Next, Abstract!Request, Abstract!Bind,
         Abstract!Stop, Abstract!vars
<1>9. ASSUME NeverFulfill PROVE [Abstract!Next]_(Abstract!vars)
  BY <1>9, FulfillerAssumption
     DEF NeverFulfill, Goto, IndInv, HandleTypeOK, Threads, FulfillOwnsState, FulfillPCs,
         CancelOwnsState, Walking, HandlesInv, AbortInv, Given, Fulfilled,
         CancelRequested, Abstract!Next, Abstract!Request, Abstract!Bind,
         Abstract!Stop, Abstract!vars
<1>10. ASSUME CasFulfill PROVE [Abstract!Next]_(Abstract!vars)
  BY <1>10, FulfillerAssumption
     DEF CasFulfill, Goto, IndInv, HandleTypeOK, Threads, FulfillOwnsState, FulfillPCs,
         CancelOwnsState, Walking, HandlesInv, AbortInv, Given, Fulfilled,
         CancelRequested, Abstract!Next, Abstract!Request, Abstract!Bind,
         Abstract!Stop, Abstract!vars
<1>11. ASSUME CasEarly PROVE [Abstract!Next]_(Abstract!vars)
  BY <1>11, FulfillerAssumption
     DEF CasEarly, Goto, IndInv, HandleTypeOK, Threads, FulfillOwnsState, FulfillPCs,
         CancelOwnsState, Walking, HandlesInv, AbortInv, Given, Fulfilled,
         CancelRequested, Abstract!Next, Abstract!Request, Abstract!Bind,
         Abstract!Stop, Abstract!vars
<1>12. ASSUME StoreHandles PROVE [Abstract!Next]_(Abstract!vars)
  BY <1>12, FulfillerAssumption
     DEF StoreHandles, Goto, IndInv, HandleTypeOK, Threads, FulfillOwnsState, FulfillPCs,
         CancelOwnsState, Walking, HandlesInv, AbortInv, Given, Fulfilled,
         CancelRequested, Abstract!Next, Abstract!Request, Abstract!Bind,
         Abstract!Stop, Abstract!vars
<1>13. ASSUME SetReady PROVE [Abstract!Next]_(Abstract!vars)
  BY <1>13, FulfillerAssumption
     DEF SetReady, Goto, IndInv, HandleTypeOK, Threads, FulfillOwnsState, FulfillPCs,
         CancelOwnsState, Walking, HandlesInv, AbortInv, Given, Fulfilled,
         CancelRequested, Abstract!Next, Abstract!Request, Abstract!Bind,
         Abstract!Stop, Abstract!vars
<1>14. CASE UNCHANGED handleVars
  BY <1>14 DEF handleVars, Given, Fulfilled, CancelRequested, Abstract!vars
<1> QED
  BY <1>1, <1>2, <1>3, <1>4, <1>5, <1>6, <1>7, <1>8, <1>9, <1>10, <1>11, <1>12, <1>13, <1>14
     DEF HandleNext, Cancel, Fulfill

\* ConnAbortHandle implements CancelOnce (its safety part; the fairness part
\* is model-checked).
THEOREM Refinement == HandleSpec => Abstract!Spec
BY InitRefines, StepRefines, SpecIndInv, PTL DEF HandleSpec, Abstract!Spec

-------------------------------------------------------------------------------
(* ContextManager *)

TypeOK ==
  /\ created \in SUBSET Conns /\ registered \in SUBSET Conns
  /\ missed \in SUBSET Conns
  /\ done \in [Conns -> BOOLEAN] /\ notify \in BOOLEAN
  /\ marker \in [Conns -> {"idle", "notify", "done"}]
  /\ lock \in Conns \cup {NoConn} /\ stage \in {"free", "swap", "scan"}
  /\ scan \in SUBSET Conns /\ toRemove \in SUBSET Conns
  /\ active \in SUBSET Conns
  /\ inactive \in [in_mem_offset : Nat, inner : Seq(Conns)]
  /\ log_limit \in Limits /\ hasDb \in BOOLEAN
  /\ db \in [Conns -> Nat] /\ freed \in SUBSET Conns
  /\ reader \in [at : {"idle", "second", "have"}, known : SUBSET Conns,
                 list : SUBSET Conns]
  /\ down \in BOOLEAN

\* The connections in inactive_ctx, and those whose one place is active_ctx:
\* until the retain, a reaped one is in both.
Finished == ToSet(inactive.inner)
Unreaped == active \ toRemove

\* Where the writer of push is, and what its loop has done.
WriterInv ==
  /\ lock = NoConn <=> stage = "free"
  /\ stage # "scan" => scan = {} /\ toRemove = {}
  /\ scan \subseteq active /\ toRemove \subseteq active
  /\ toRemove \subseteq Finished
  /\ scan \cap toRemove = {}
  /\ active \subseteq registered

\* The four places are disjoint, hold nothing twice, and together hold what
\* was pushed.
PlaceInv ==
  /\ IsInjective(inactive.inner)
  /\ \A c \in Conns :
       /\ db[c] \in {0, 1}
       /\ c \in registered <=> \/ c \in Unreaped \/ c \in Finished
                               \/ db[c] = 1 \/ c \in freed
       /\ c \in Unreaped => c \notin Finished /\ db[c] = 0 /\ c \notin freed
       /\ c \in Finished => db[c] = 0 /\ c \notin freed
       /\ db[c] = 1 => c \notin freed

\* What left active_ctx, or is about to, is done.
DoneInv == ~down => \A c \in Conns :
             c \in Finished \/ db[c] = 1 \/ c \in freed => done[c]

\* A done connection that the scan has passed, or that no scan is to look at,
\* will be found by a later push.
PendingInv ==
  \A c \in active \ (missed \cup scan \cup toRemove) :
     done[c] => notify \/ marker[c] # "idle"

\* Between its two reads the listing holds what it knew and is still active;
\* after the second also what was reaped since.
ReaderInv ==
  /\ reader.known \subseteq registered
  /\ reader.at = "second" =>
       \A c \in reader.known : c \in active => c \in reader.list
  /\ reader.at = "have" =>
       \A c \in reader.known : c \in active \/ c \in Finished => c \in reader.list

IInv == TypeOK /\ WriterInv /\ PlaceInv /\ DoneInv /\ PendingInv /\ ReaderInv

-------------------------------------------------------------------------------
(* Sequences as the places of their elements.                               *)

\* EvictableVec::push adds one element, and keeps the elements distinct when
\* it is new.
LEMMA AppendPlaces ==
  ASSUME NEW S, NEW s \in Seq(S), NEW x \in S
  PROVE  /\ Append(s, x) \in Seq(S)
         /\ ToSet(Append(s, x)) = ToSet(s) \cup {x}
         /\ IsInjective(s) /\ x \notin ToSet(s) => IsInjective(Append(s, x))
<1> DEFINE t == Append(s, x)
<1>1. t \in Seq(S) /\ Len(t) = Len(s) + 1 /\ DOMAIN t = 1 .. Len(s) + 1
  OBVIOUS
<1>2. /\ \A i \in 1 .. Len(s) : t[i] = s[i]
      /\ t[Len(s) + 1] = x
      /\ DOMAIN s = 1 .. Len(s) /\ Len(s) \in Nat
  OBVIOUS
<1>3. ToSet(t) = ToSet(s) \cup {x}
  BY <1>1, <1>2 DEF ToSet
<1>4. IsInjective(s) /\ x \notin ToSet(s) => IsInjective(t)
  BY <1>1, <1>2 DEF ToSet, IsInjective
<1> QED BY <1>1, <1>3, <1>4

\* An eviction splits the vector: what it hands out and what it keeps are all
\* of it, and share nothing when the elements are distinct.
LEMMA SplitPlaces ==
  ASSUME NEW S, NEW s \in Seq(S), NEW n \in 0 .. Len(s)
  PROVE  LET out  == SubSeq(s, 1, n)
             kept == SubSeq(s, n + 1, Len(s))
         IN  /\ kept \in Seq(S)
             /\ ToSet(out) \cup ToSet(kept) = ToSet(s)
             /\ IsInjective(s) => /\ IsInjective(kept)
                                  /\ ToSet(out) \cap ToSet(kept) = {}
<1> DEFINE out  == SubSeq(s, 1, n)
           kept == SubSeq(s, n + 1, Len(s))
<1>1. /\ Len(s) \in Nat /\ DOMAIN s = 1 .. Len(s)
      /\ DOMAIN out = 1 .. n /\ \A i \in 1 .. n : out[i] = s[i]
  OBVIOUS
<1>2. /\ kept \in Seq(S) /\ DOMAIN kept = 1 .. Len(s) - n
      /\ \A i \in 1 .. Len(s) - n : kept[i] = s[n + i]
  OBVIOUS
<1> HIDE DEF out, kept
<1>a. \A i \in 1 .. Len(s) - n : n + i \in 1 .. Len(s) /\ n + i > n
  BY <1>1
<1>3. ToSet(out) \cup ToSet(kept) \subseteq ToSet(s)
  <2>1. \A i \in 1 .. n : out[i] \in ToSet(s)
    BY <1>1 DEF ToSet
  <2>2. \A i \in 1 .. Len(s) - n : kept[i] \in ToSet(s)
    BY <1>1, <1>2, <1>a DEF ToSet
  <2> QED BY <2>1, <2>2, <1>1, <1>2 DEF ToSet
<1>4. ASSUME NEW i \in 1 .. Len(s)
      PROVE  s[i] \in ToSet(out) \cup ToSet(kept)
  <2>1. CASE i <= n
    BY <2>1, <1>1 DEF ToSet
  <2>2. CASE i > n
    <3>1. i - n \in 1 .. Len(s) - n /\ kept[i - n] = s[i]
      BY <2>2, <1>1, <1>2
    <3> QED BY <3>1, <1>2 DEF ToSet
  <2> QED BY <2>1, <2>2
<1>5. ToSet(out) \cup ToSet(kept) = ToSet(s)
  BY <1>1, <1>3, <1>4 DEF ToSet
<1>6. ASSUME IsInjective(s)
      PROVE  IsInjective(kept) /\ ToSet(out) \cap ToSet(kept) = {}
  <2>0. \A i, j \in 1 .. Len(s) : s[i] = s[j] => i = j
    BY <1>1, <1>6 DEF IsInjective
  <2>1. IsInjective(kept)
    <3>1. ASSUME NEW i \in 1 .. Len(s) - n, NEW j \in 1 .. Len(s) - n,
                 kept[i] = kept[j]
          PROVE  i = j
      <4>1. n + i = n + j
        BY <2>0, <3>1, <1>2, <1>a
      <4> QED BY <4>1
    <3> QED BY <3>1, <1>2 DEF IsInjective
  <2>2. ASSUME NEW i \in 1 .. n, NEW j \in 1 .. Len(s) - n, out[i] = kept[j]
        PROVE  FALSE
    <3>1. i \in 1 .. Len(s) /\ s[i] = s[n + j]
      BY <2>2, <1>1, <1>2
    <3>2. i = n + j
      BY <3>1, <2>0, <1>a
    <3> QED BY <3>2, <1>a
  <2> QED BY <2>1, <2>2, <1>1, <1>2 DEF ToSet
<1> QED BY <1>2, <1>5, <1>6 DEF out, kept

\* evict_until stops somewhere: the oldest that exceed the limit are a prefix.
LEMMA EvictLength ==
  ASSUME TypeOK
  PROVE  EV!EvictUntilLen(inactive, TooMany) \in 0 .. Len(inactive.inner)
<1> DEFINE v == inactive
           stops(n) == /\ \A i \in 1 .. n : TooMany[i]
                       /\ n = Len(v.inner) \/ ~TooMany[n + 1]
<1>1. v.inner \in Seq(Conns) /\ log_limit \in Nat
  BY CMAssumption DEF TypeOK
<1>a. Len(v.inner) \in Nat /\ DOMAIN v.inner = 1 .. Len(v.inner)
  BY <1>1
<1>b. \A i \in DOMAIN v.inner :
        TooMany[i] = (Len(v.inner) - (i - 1) > log_limit)
  BY Zenon DEF TooMany, EV!RealLen
<1>2. /\ Len(v.inner) \in Nat /\ DOMAIN v.inner = 1 .. Len(v.inner)
      /\ \A i \in 1 .. Len(v.inner) :
           TooMany[i] <=> Len(v.inner) - (i - 1) > log_limit
  BY <1>a, <1>b
<1>3. \E n \in 0 .. Len(v.inner) : stops(n)
  <2>1. CASE Len(v.inner) <= log_limit
    <3>1. Len(v.inner) = 0 \/ ~TooMany[0 + 1]
      BY <2>1, <1>1, <1>2
    <3> QED BY <3>1, <1>2
  <2>2. CASE Len(v.inner) > log_limit
    <3> DEFINE n == Len(v.inner) - log_limit
    <3>1. n \in 0 .. Len(v.inner)
      BY <2>2, <1>1, <1>2
    <3>2. \A i \in 1 .. n : TooMany[i]
      BY <2>2, <1>1, <1>2
    <3>3. n = Len(v.inner) \/ ~TooMany[n + 1]
      BY <2>2, <1>1, <1>2
    <3> QED BY <3>1, <3>2, <3>3
  <2> QED BY <2>1, <2>2, <1>1, <1>2
<1> QED BY <1>3 DEF EV!EvictUntilLen

\* add_connections, or the freeing without a database, gives each connection
\* of the batch its one last place and leaves the others alone.
LEMMA SavedOnce ==
  ASSUME TypeOK, NEW cs \in SUBSET Conns, SaveRows(cs),
         \A c \in cs : db[c] = 0 /\ c \notin freed
  PROVE  /\ db' \in [Conns -> Nat] /\ freed' \in SUBSET Conns
         /\ \A c \in Conns \ cs : db'[c] = db[c] /\ (c \in freed' <=> c \in freed)
         /\ \A c \in cs : \/ db'[c] = 1 /\ c \notin freed'
                          \/ db'[c] = 0 /\ c \in freed'
<1>1. db \in [Conns -> Nat] /\ freed \in SUBSET Conns
  BY DEF TypeOK
<1>2. CASE hasDb
  <2>1. /\ db' = [c \in Conns |-> IF c \in cs THEN db[c] + 1 ELSE db[c]]
        /\ freed' = freed
    BY <1>2 DEF SaveRows
  <2> QED BY <1>1, <2>1
<1>3. CASE ~hasDb
  <2>1. freed' = freed \cup cs /\ db' = db
    BY <1>3 DEF SaveRows
  <2> QED BY <1>1, <2>1
<1> QED BY <1>2, <1>3

-------------------------------------------------------------------------------
(* The inductive invariant.                                                 *)

LEMMA InitInv == Init => IInv
<1> SUFFICES ASSUME Init PROVE IInv
  OBVIOUS
<1>1. inactive.inner = <<>> /\ inactive \in [in_mem_offset : Nat, inner : Seq(Conns)]
  BY DEF Init, EV!NewVec
<1>2. Finished = {} /\ IsInjective(inactive.inner)
  BY <1>1 DEF Finished, ToSet, IsInjective
<1>3. TypeOK
  BY <1>1 DEF Init, TypeOK
<1> QED BY <1>2, <1>3, CMAssumption
        DEF Init, IInv, WriterInv, PlaceInv, DoneInv, PendingInv, ReaderInv, Unreaped

LEMMA StepInv == IInv /\ [Next]_vars => IInv'
<1> SUFFICES ASSUME IInv, [Next]_vars PROVE IInv'
  OBVIOUS
<1> USE CMAssumption DEF IInv, ctx, atomics, push, store
<1>1. ASSUME UNCHANGED inactive
      PROVE  /\ Finished' = Finished
             /\ IsInjective(inactive.inner)' = IsInjective(inactive.inner)
  BY <1>1 DEF Finished, ToSet, IsInjective
<1>2. ASSUME NEW c \in Conns, Create(c) PROVE IInv'
  BY <1>2, <1>1 DEF Create, TypeOK, WriterInv, PlaceInv, DoneInv, PendingInv,
                    ReaderInv, Unreaped
<1>3. ASSUME NEW c \in Conns, StoreDone(c) PROVE IInv'
  BY <1>3, <1>1 DEF StoreDone, TypeOK, WriterInv, PlaceInv, DoneInv, PendingInv,
                    ReaderInv, Unreaped
<1>4. ASSUME NEW c \in Conns, StoreNotify(c) PROVE IInv'
  BY <1>4, <1>1 DEF StoreNotify, TypeOK, WriterInv, PlaceInv, DoneInv, PendingInv,
                    ReaderInv, Unreaped
<1>5. ASSUME NEW c \in Conns, StoreNotifyFirst(c) PROVE IInv'
  BY <1>5, <1>1 DEF StoreNotifyFirst, TypeOK, WriterInv, PlaceInv, DoneInv,
                    PendingInv, ReaderInv, Unreaped
<1>6. ASSUME NEW c \in Conns, StoreDoneLast(c) PROVE IInv'
  BY <1>6, <1>1 DEF StoreDoneLast, TypeOK, WriterInv, PlaceInv, DoneInv,
                    PendingInv, ReaderInv, Unreaped
<1>7. ASSUME NEW c \in Conns, PushInsert(c) PROVE IInv'
  BY <1>7, <1>1 DEF PushInsert, TypeOK, WriterInv, PlaceInv, DoneInv,
                    PendingInv, ReaderInv, Unreaped
<1>8. CASE PushSwap
  BY <1>8, <1>1 DEF PushSwap, TypeOK, WriterInv, PlaceInv, DoneInv,
                    PendingInv, ReaderInv, Unreaped
<1>9. CASE ScanOne
  <2>1. PICK x \in scan :
          /\ scan' = scan \ {x}
          /\ IF Reapable(x)
             THEN /\ toRemove' = toRemove \cup {x}
                  /\ inactive' = EV!Push(inactive, x)
             ELSE UNCHANGED <<toRemove, inactive>>
    BY <1>9 DEF ScanOne
  <2>2. /\ stage = "scan" /\ x \in Conns /\ x \in active
        /\ UNCHANGED <<ctx, atomics, lock, stage, active, log_limit, hasDb,
                       db, freed, reader, down>>
    BY <1>9, <2>1 DEF ScanOne, TypeOK, WriterInv
  <2>3. CASE Reapable(x)
    <3>1. /\ inactive'.inner = Append(inactive.inner, x)
          /\ inactive' \in [in_mem_offset : Nat, inner : Seq(Conns)]
          /\ done[x]
      <4>1. /\ inactive \in [in_mem_offset : Nat, inner : Seq(Conns)]
            /\ inactive' = [inactive EXCEPT !.inner = Append(inactive.inner, x)]
            /\ done[x]
        BY <2>1, <2>3 DEF EV!Push, TypeOK, Reapable
      <4>2. Append(inactive.inner, x) \in Seq(Conns)
        BY <4>1, <2>2, AppendPlaces
      <4> QED BY <4>1, <4>2
    <3>2. x \in Unreaped /\ x \notin Finished
      BY <2>1, <2>2 DEF WriterInv, PlaceInv, Unreaped
    <3>3. Finished' = Finished \cup {x} /\ IsInjective(inactive.inner)'
      <4>1. inactive.inner \in Seq(Conns)
        BY DEF TypeOK
      <4> QED BY <4>1, <2>2, <3>1, <3>2, AppendPlaces DEF Finished, PlaceInv
    <3>4. TypeOK'
      BY <2>1, <2>2, <2>3, <3>1 DEF TypeOK
    <3>5. WriterInv'
      BY <2>1, <2>2, <2>3, <3>3 DEF WriterInv
    <3>6. PlaceInv'
      BY <2>1, <2>2, <2>3, <3>2, <3>3 DEF PlaceInv, Unreaped
    <3>7. DoneInv'
      BY <2>2, <3>1, <3>3 DEF DoneInv
    <3>8. PendingInv' /\ ReaderInv'
      BY <2>1, <2>2, <2>3, <3>3 DEF PendingInv, ReaderInv
    <3> QED BY <3>4, <3>5, <3>6, <3>7, <3>8
  <2>4. CASE ~Reapable(x)
    BY <2>1, <2>2, <2>4, <1>1 DEF Reapable, TypeOK, WriterInv, PlaceInv, DoneInv,
                                  PendingInv, ReaderInv, Unreaped
  <2> QED BY <2>3, <2>4
<1>10. CASE PushFinish
  <2>1. /\ stage = "scan" /\ scan = {} /\ active' = active \ toRemove
        /\ toRemove' = {} /\ lock' = NoConn /\ stage' = "free"
        /\ UNCHANGED <<ctx, atomics, scan, log_limit, hasDb, reader, down>>
    BY <1>10 DEF PushFinish, Retained
  <2>2. active' = Unreaped /\ Unreaped' = Unreaped
    BY <2>1 DEF Unreaped
  <2>3. CASE OverGrace
    <3> DEFINE n == EV!EvictUntilLen(inactive, TooMany)
               out == SubSeq(inactive.inner, 1, n)
               kept == SubSeq(inactive.inner, n + 1, Len(inactive.inner))
    <3>1. inactive.inner \in Seq(Conns) /\ n \in 0 .. Len(inactive.inner)
      BY EvictLength DEF TypeOK
    <3>2. /\ inactive' = [inactive EXCEPT !.inner = kept]
          /\ SaveRows(ToSet(out))
      BY <1>10, <2>3 DEF PushFinish, EV!EvictUntil, EV!EvictUntilOut
    <3>3. /\ kept \in Seq(Conns)
          /\ ToSet(out) \cup ToSet(kept) = Finished
          /\ IsInjective(kept)
          /\ ToSet(out) \cap ToSet(kept) = {}
      <4> HIDE DEF n
      <4> QED BY <3>1, SplitPlaces DEF Finished, PlaceInv
    <3> HIDE DEF n, out, kept
    <3>4. /\ inactive' \in [in_mem_offset : Nat, inner : Seq(Conns)]
          /\ inactive'.inner = kept
      BY <3>2, <3>3 DEF TypeOK
    <3>5. Finished' = ToSet(kept) /\ IsInjective(inactive.inner)'
      BY <3>3, <3>4 DEF Finished
    <3>6. ToSet(out) \subseteq Conns
      <4>1. Finished \subseteq Conns
        BY <3>1 DEF Finished, ToSet
      <4> QED BY <4>1, <3>3
    <3>7. /\ db' \in [Conns -> Nat] /\ freed' \in SUBSET Conns
          /\ \A c \in Conns \ ToSet(out) : db'[c] = db[c] /\ (c \in freed' <=> c \in freed)
          /\ \A c \in ToSet(out) : \/ db'[c] = 1 /\ c \notin freed'
                                   \/ db'[c] = 0 /\ c \in freed'
      <4>1. \A c \in ToSet(out) : db[c] = 0 /\ c \notin freed
        BY <3>3, <3>6 DEF PlaceInv
      <4>2. SaveRows(ToSet(out))
        BY <3>2
      <4>3. ToSet(out) \in SUBSET Conns
        BY <3>6
      <4> QED BY <4>1, <4>2, <4>3, SavedOnce
    <3>8. TypeOK'
      BY <2>1, <3>4, <3>7 DEF TypeOK
    <3>9. WriterInv' /\ PendingInv'
      BY <2>1 DEF WriterInv, PendingInv
    <3>10. PlaceInv'
      BY <2>1, <2>2, <3>3, <3>5, <3>7 DEF PlaceInv
    <3>11. DoneInv'
      BY <2>1, <3>3, <3>5, <3>7 DEF DoneInv
    <3>12. ReaderInv'
      BY <2>1, <3>3, <3>5 DEF ReaderInv
    <3> QED BY <3>8, <3>9, <3>10, <3>11, <3>12
  <2>4. CASE ~OverGrace
    <3>1. UNCHANGED <<inactive, db, freed>>
      BY <1>10, <2>4 DEF PushFinish
    <3> QED BY <2>1, <2>2, <3>1, <1>1 DEF TypeOK, WriterInv, PlaceInv, DoneInv, PendingInv,
                                     ReaderInv
  <2> QED BY <2>3, <2>4
<1>11. ASSUME NEW k \in Limits, SetLogLimit(k) PROVE IInv'
  BY <1>11, <1>1 DEF SetLogLimit, TypeOK, WriterInv, PlaceInv, DoneInv,
                     PendingInv, ReaderInv, Unreaped
<1>12. CASE ReadFirst
  BY <1>12, <1>1 DEF ReadFirst, Table, TableOrder, TypeOK, WriterInv, PlaceInv,
                     DoneInv, PendingInv, ReaderInv, Unreaped
<1>13. CASE ReadSecond
  <2>1. Table(TableOrder[2]) = Finished /\ Finished \subseteq Conns
    BY DEF Table, TableOrder, Finished, ToSet, TypeOK
  <2> QED BY <1>13, <1>1, <2>1 DEF ReadSecond, TypeOK, WriterInv, PlaceInv, DoneInv,
                                   PendingInv, ReaderInv, Unreaped
<1>14. CASE ReadAgain
  BY <1>14, <1>1 DEF ReadAgain, TypeOK, WriterInv, PlaceInv, DoneInv,
                     PendingInv, ReaderInv, Unreaped
<1>15. CASE Drop
  <2> DEFINE out == EV!EvictWithOut(inactive, 0)
  <2>1. /\ lock = NoConn /\ reader.at = "idle" /\ down' = TRUE
        /\ active' = {}
        /\ inactive' = EV!EvictWith(inactive, 0)
        /\ SaveRows(active \cup ToSet(out))
        /\ UNCHANGED <<ctx, atomics, push, log_limit, hasDb, reader>>
    BY <1>15 DEF Drop
  <2>2. /\ inactive \in [in_mem_offset : Nat, inner : Seq(Conns)]
        /\ inactive.inner \in Seq(Conns) /\ Len(inactive.inner) \in Nat
    BY DEF TypeOK
  <2>3. /\ inactive'.inner = <<>>
        /\ inactive' \in [in_mem_offset : Nat, inner : Seq(Conns)]
    <3>1. CASE Len(inactive.inner) > 0
      BY <3>1, <2>1, <2>2 DEF EV!EvictWith, EV!LastN
    <3>2. CASE ~(Len(inactive.inner) > 0)
      BY <3>2, <2>1, <2>2 DEF EV!EvictWith
    <3> QED BY <3>1, <3>2
  <2>4. out = inactive.inner
    <3>1. CASE Len(inactive.inner) > 0
      BY <3>1, <2>2 DEF EV!EvictWithOut, EV!DropLast
    <3>2. CASE ~(Len(inactive.inner) > 0)
      BY <3>2, <2>2 DEF EV!EvictWithOut
    <3> QED BY <3>1, <3>2
  <2>5. Finished' = {} /\ IsInjective(inactive.inner)' /\ Unreaped' = {}
    BY <2>1, <2>3 DEF Finished, ToSet, IsInjective, Unreaped
  <2>6. ToSet(out) = Finished /\ Finished \subseteq Conns /\ active = Unreaped
    BY <2>1, <2>2, <2>4 DEF Finished, ToSet, WriterInv, Unreaped
  <2> HIDE DEF out
  <2>7. /\ db' \in [Conns -> Nat] /\ freed' \in SUBSET Conns
        /\ \A c \in Conns \ (Unreaped \cup Finished) :
             db'[c] = db[c] /\ (c \in freed' <=> c \in freed)
        /\ \A c \in Unreaped \cup Finished : \/ db'[c] = 1 /\ c \notin freed'
                                             \/ db'[c] = 0 /\ c \in freed'
    <3>1. /\ Unreaped \cup Finished \in SUBSET Conns
          /\ SaveRows(Unreaped \cup Finished)
          /\ \A c \in Unreaped \cup Finished : db[c] = 0 /\ c \notin freed
      BY <2>1, <2>6 DEF PlaceInv, TypeOK
    <3> QED BY <3>1, SavedOnce
  <2>8. TypeOK'
    BY <2>1, <2>3, <2>7 DEF TypeOK
  <2>9. WriterInv' /\ DoneInv' /\ PendingInv' /\ ReaderInv'
    BY <2>1 DEF WriterInv, DoneInv, PendingInv, ReaderInv
  <2>10. PlaceInv'
    BY <2>1, <2>5, <2>7 DEF PlaceInv
  <2> QED BY <2>8, <2>9, <2>10
<1>16. CASE UNCHANGED vars
  BY <1>16, <1>1 DEF vars, TypeOK, WriterInv, PlaceInv, DoneInv, PendingInv,
                     ReaderInv, Unreaped
<1> QED BY <1>2, <1>3, <1>4, <1>5, <1>6, <1>7, <1>8, <1>9, <1>10, <1>11, <1>12,
           <1>13, <1>14, <1>15, <1>16 DEF Next

-------------------------------------------------------------------------------
(* The properties.                                                          *)

\* The inductive invariant holds of ContextManager: the four places a pushed
\* connection can be in are disjoint at every step of push, evict and drop.
THEOREM ManagerInvariantHolds == Spec => []IInv
BY InitInv, StepInv, PTL DEF Spec

\* A vector of distinct elements holds each of them at one index.
LEMMA OneIndex ==
  ASSUME NEW s, IsInjective(s), NEW c
  PROVE  Cardinality({i \in DOMAIN s : s[i] = c}) = IF c \in ToSet(s) THEN 1 ELSE 0
<1> DEFINE at == {i \in DOMAIN s : s[i] = c}
<1>1. CASE c \in ToSet(s)
  <2>1. PICK i \in DOMAIN s : s[i] = c
    BY <1>1 DEF ToSet
  <2>2. at = {i}
    BY <2>1 DEF IsInjective
  <2> QED BY <1>1, <2>2, FS_Singleton
<1>2. CASE c \notin ToSet(s)
  <2>1. at = {}
    BY <1>2 DEF ToSet
  <2> QED BY <1>2, <2>1, FS_EmptySet
<1> QED BY <1>1, <1>2

\* Whenever nobody holds the lock, a connection that was pushed is recorded in
\* exactly one of active_ctx, inactive_ctx, the database and (without one) the
\* freed: push, evict, set_conn_log_limit and drop lose and double none.
THEOREM EveryConnRecordedOnce == Spec => []RecordedOnce
<1>1. ASSUME IInv PROVE RecordedOnce
  <2> SUFFICES ASSUME lock = NoConn, NEW c \in Conns
               PROVE  Places(c) = IF c \in registered THEN 1 ELSE 0
    BY DEF RecordedOnce
  <2> DEFINE n == Cardinality({i \in DOMAIN inactive.inner : inactive.inner[i] = c})
  <2>1. n = IF c \in Finished THEN 1 ELSE 0
    BY <1>1, OneIndex DEF IInv, PlaceInv, Finished
  <2>2. Unreaped = active
    BY <1>1 DEF IInv, WriterInv, Unreaped
  <2>3. Places(c) = (IF c \in active THEN 1 ELSE 0) + n + db[c]
                      + (IF c \in freed THEN 1 ELSE 0)
    BY DEF Places
  <2> HIDE DEF n
  <2> QED BY <1>1, <2>1, <2>2, <2>3 DEF IInv, PlaceInv
<1> QED BY <1>1, ManagerInvariantHolds, PTL

\* Until the manager is dropped only connections that are done leave
\* active_ctx, although evict reads each done flag while others store theirs.
THEOREM OnlyDoneAreReaped == Spec => []ReapedOnlyWhenDone
<1>1. ASSUME IInv PROVE ReapedOnlyWhenDone
  BY <1>1 DEF IInv, ReapedOnlyWhenDone, DoneInv, PlaceInv, TypeOK, Unreaped
<1> QED BY <1>1, ManagerInvariantHolds, PTL

\* No finished connection is forgotten in active_ctx: a mark_fin that runs
\* between the swap of the flag and the scan leaves the flag set, or is still
\* to set it, unless the two Relaxed stores were seen in the other order.
THEOREM FinishedWillBeFound == Spec => []ReapPending
<1>1. ASSUME IInv PROVE ReapPending
  BY <1>1 DEF IInv, ReapPending, PendingInv, WriterInv
<1> QED BY <1>1, ManagerInvariantHolds, PTL

\* get_all_conns, which reads the two tables under two locks, active first,
\* misses no connection that was there when it began and still is.
THEOREM ListingComplete == Spec => []SnapshotComplete
<1>1. ASSUME IInv PROVE SnapshotComplete
  BY <1>1 DEF IInv, SnapshotComplete, ReaderInv, Finished
<1> QED BY <1>1, ManagerInvariantHolds, PTL
===============================================================================
