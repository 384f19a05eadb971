----------------------------- MODULE AbortHandle -----------------------------
(***************************************************************************)
(* ConnAbortHandle of src/boltconn/src/proxy/context.rs: the lock-free     *)
(* object every connection carries.  The dispatcher creates it, hands it   *)
(* to the tasks of the connection, and at the end of submit_tcp gives it   *)
(* their JoinHandles with fulfill(); any task, guard or API call may call  *)
(* cancel() at any time, also before fulfill().  Every atomic access of    *)
(* the code is one action here, so all interleavings of fulfill and of any *)
(* number of cancels are explored.                                         *)
(***************************************************************************)
EXTENDS Naturals

CONSTANTS Cancellers,       \* calls of cancel(), each made at most once
          Tasks,            \* the JoinHandles passed to fulfill()
          Fulfiller         \* the dispatcher's call of fulfill()

ASSUME FulfillerAssumption == Fulfiller \notin Cancellers

Threads == Cancellers \cup {Fulfiller}

VARIABLES state,            \* AtomicU8: the protocol state
          handles,          \* ArcSwap: the JoinHandles stored in the handle
          aborted,          \* tasks whose JoinHandle.abort() was called
          pc,               \* where each call is
          todo              \* the rest of each call's "for handle" loop

handleVars == <<state, handles, aborted, pc, todo>>

States == {"INIT", "EARLY_CANCELLED", "FULFILL_CHANGING", "READY",
           "CANCELLING", "CANCELLED"}

PCs == {"idle", "load", "casInit", "casReady", "loadHandles", "abort",
        "casFulfill", "casEarly", "store", "setReady",
        "returned", "none", "dropped", "error", "panicked"}

\* ConnAbortHandle::new(): the dispatcher may fulfill it later.
InitNew == /\ state = "INIT"
           /\ pc = [p \in Threads |-> "idle"]

\* ConnAbortHandle::placeholder(): READY with no handles, never fulfilled.
InitPlaceholder == /\ state = "READY"
                   /\ pc = [p \in Threads |->
                              IF p = Fulfiller THEN "none" ELSE "idle"]

HandleInit == /\ InitNew \/ InitPlaceholder
              /\ handles = {}
              /\ aborted = {}
              /\ todo = [p \in Threads |-> {}]

Goto(p, l) == pc' = [pc EXCEPT ![p] = l]

-------------------------------------------------------------------------------
(* cancel() *)

CallCancel(c) == /\ pc[c] = "idle"
                 /\ Goto(c, "load")
                 /\ UNCHANGED <<state, handles, aborted, todo>>

\* The match on the loaded state; FULFILL_CHANGING spins.
BranchReturnsWhileFulfilling(s) ==
             CASE s = "INIT"  -> "casInit"
               [] s = "READY" -> "casReady"
               [] OTHER       -> "returned"

Branch(s) == CASE s = "INIT"             -> "casInit"
               [] s = "READY"            -> "casReady"
               [] s = "FULFILL_CHANGING" -> "load"
               [] OTHER                  -> "returned"

Load(c) == /\ pc[c] = "load"
           /\ Goto(c, Branch(state))
           /\ UNCHANGED <<state, handles, aborted, todo>>

CasInit(c) == /\ pc[c] = "casInit"
              /\ IF state = "INIT"
                 THEN state' = "EARLY_CANCELLED" /\ Goto(c, "returned")
                 ELSE state' = state /\ Goto(c, "load")
              /\ UNCHANGED <<handles, aborted, todo>>

CasReadyAsStore(c) == /\ pc[c] = "casReady"
                      /\ state' = "CANCELLING"
                      /\ Goto(c, "loadHandles")
                      /\ UNCHANGED <<handles, aborted, todo>>

CasReady(c) == /\ pc[c] = "casReady"
               /\ IF state = "READY"
                  THEN state' = "CANCELLING" /\ Goto(c, "loadHandles")
                  ELSE state' = state /\ Goto(c, "returned")
               /\ UNCHANGED <<handles, aborted, todo>>

LoadHandles(c) == /\ pc[c] = "loadHandles"
                  /\ todo' = [todo EXCEPT ![c] = handles]
                  /\ Goto(c, "abort")
                  /\ UNCHANGED <<state, handles, aborted>>

-------------------------------------------------------------------------------
(* The loop over the handles and the final compare_exchange(..).unwrap(),  *)
(* the same code in cancel() and in the late branch of fulfill().          *)

AbortOne(p) == /\ pc[p] = "abort"
               /\ \E t \in todo[p] :
                     /\ aborted' = aborted \cup {t}
                     /\ todo' = [todo EXCEPT ![p] = @ \ {t}]
               /\ UNCHANGED <<state, handles, pc>>

FinishAbortEarly(p) == /\ pc[p] = "abort"
                       /\ IF state = "CANCELLING"
                          THEN state' = "CANCELLED" /\ Goto(p, "returned")
                          ELSE state' = state /\ Goto(p, "panicked")
                       /\ UNCHANGED <<handles, aborted, todo>>

FinishAbort(p) == /\ pc[p] = "abort"
                  /\ todo[p] = {}
                  /\ IF state = "CANCELLING"
                     THEN state' = "CANCELLED" /\ Goto(p, "returned")
                     ELSE state' = state /\ Goto(p, "panicked")
                  /\ UNCHANGED <<handles, aborted, todo>>

-------------------------------------------------------------------------------
(* fulfill() *)

CallFulfill == /\ pc[Fulfiller] = "idle"
               /\ Goto(Fulfiller, "casFulfill")
               /\ UNCHANGED <<state, handles, aborted, todo>>

\* submit_tcp returns BadMitmCert: the handle is dropped unfulfilled.
NeverFulfill == /\ pc[Fulfiller] = "idle"
                /\ Goto(Fulfiller, "dropped")
                /\ UNCHANGED <<state, handles, aborted, todo>>

CasFulfillAsStore == /\ pc[Fulfiller] = "casFulfill"
                     /\ state' = "FULFILL_CHANGING"
                     /\ Goto(Fulfiller, "store")
                     /\ UNCHANGED <<handles, aborted, todo>>

CasFulfill == /\ pc[Fulfiller] = "casFulfill"
              /\ IF state = "INIT"
                 THEN state' = "FULFILL_CHANGING" /\ Goto(Fulfiller, "store")
                 ELSE state' = state /\ Goto(Fulfiller, "casEarly")
              /\ UNCHANGED <<handles, aborted, todo>>

\* Not INIT: it must be EARLY_CANCELLED, anything else is logged as a second
\* fulfill and the handles are dropped.
CasEarly == /\ pc[Fulfiller] = "casEarly"
            /\ IF state = "EARLY_CANCELLED"
               THEN /\ state' = "CANCELLING"
                    /\ todo' = [todo EXCEPT ![Fulfiller] = Tasks]
                    /\ Goto(Fulfiller, "abort")
               ELSE /\ Goto(Fulfiller, "error")
                    /\ UNCHANGED <<state, todo>>
            /\ UNCHANGED <<handles, aborted>>

SkipStoreHandles == /\ pc[Fulfiller] = "store"
                    /\ Goto(Fulfiller, "setReady")
                    /\ UNCHANGED <<state, handles, aborted, todo>>

StoreHandles == /\ pc[Fulfiller] = "store"
                /\ handles' = Tasks
                /\ Goto(Fulfiller, "setReady")
                /\ UNCHANGED <<state, aborted, todo>>

SetReady == /\ pc[Fulfiller] = "setReady"
            /\ IF state = "FULFILL_CHANGING"
               THEN state' = "READY" /\ Goto(Fulfiller, "returned")
               ELSE state' = state /\ Goto(Fulfiller, "panicked")
            /\ UNCHANGED <<handles, aborted, todo>>

-------------------------------------------------------------------------------

Cancel(c) == \/ CallCancel(c)
             \/ Load(c)
             \/ CasInit(c)
             \/ CasReady(c)
             \/ LoadHandles(c)

Fulfill == \/ CallFulfill
           \/ NeverFulfill
           \/ CasFulfill
           \/ CasEarly
           \/ StoreHandles
           \/ SetReady

HandleNext == \/ \E c \in Cancellers : Cancel(c)
              \/ \E p \in Threads : AbortOne(p) \/ FinishAbort(p)
              \/ Fulfill

HandleSpec == HandleInit /\ [][HandleNext]_handleVars

(***************************************************************************)
(* No call awaits or blocks, so a started call keeps being scheduled.      *)
(* Nobody is obliged to call cancel() or fulfill() in the first place.     *)
(***************************************************************************)
Fairness ==
  /\ \A c \in Cancellers :
        WF_handleVars(Load(c) \/ CasInit(c) \/ CasReady(c) \/ LoadHandles(c))
  /\ \A p \in Threads : WF_handleVars(AbortOne(p) \/ FinishAbort(p))
  /\ WF_handleVars(CasFulfill \/ CasEarly \/ StoreHandles \/ SetReady)

FairSpec == HandleSpec /\ Fairness

-------------------------------------------------------------------------------
(* Properties *)

\* The variables stay in the ranges the code gives them.
HandleTypeOK == /\ state \in States
                /\ handles \in SUBSET Tasks
                /\ aborted \in SUBSET Tasks
                /\ pc \in [Threads -> PCs]
                /\ todo \in [Threads -> SUBSET Tasks]

\* The tasks this handle is in charge of: none for a placeholder.
Given == IF pc[Fulfiller] = "none" THEN {} ELSE Tasks

\* Where fulfill() has its linearisation point behind it.
Fulfilled == state \in {"READY", "CANCELLING", "CANCELLED"}
CancelRequested == state \in {"EARLY_CANCELLED", "CANCELLING", "CANCELLED"}

\* None of the three unwrap()s of compare_exchange can fail (context.rs
\* "should not fail") and "Fulfill a cancel handle twice" is never logged,
\* whatever the interleaving of one fulfill with any number of cancels.
NoPanic == \A p \in Threads : pc[p] \notin {"panicked", "error"}

\* A cancel() that returned is never undone or forgotten by a concurrent
\* fulfill(): the handle stays cancelled, and once fulfill() has returned
\* too, the abort of the tasks was at least started by somebody.
CancelNotForgotten ==
  (\E c \in Cancellers : pc[c] = "returned")
     => /\ CancelRequested
        /\ pc[Fulfiller] = "returned" => state # "EARLY_CANCELLED"

\* CANCELLED is only reached when every task given to the handle has been
\* aborted, and no task is aborted unless somebody cancelled.
CancelledMeansAborted ==
  /\ state = "CANCELLED" => aborted = Given
  /\ aborted # {} => \E c \in Cancellers : pc[c] \notin {"idle", "load"}

\* At most one call walks the handles, whoever wins the compare_exchange.
OneAborter ==
  \A p, q \in Threads :
     pc[p] \in {"loadHandles", "abort"} /\ pc[q] \in {"loadHandles", "abort"}
        => p = q

\* A cancel() never spins for ever on a fulfill() in progress, and a cancel()
\* and a fulfill(), in whichever order they returned, lead to every task being
\* aborted.
CancelTakesEffect ==
  /\ \A c \in Cancellers : pc[c] = "load" ~> pc[c] = "returned"
  /\ (\E c \in Cancellers : pc[c] = "returned") /\ pc[Fulfiller] = "returned"
       ~> aborted = Tasks

\* The handle implements the abstract cancellation object.
Abstract == INSTANCE CancelOnce WITH
              requested <- CancelRequested,
              bound     <- Fulfilled,
              given     <- IF Fulfilled THEN Given ELSE {},
              aborted   <- aborted
ImplementsCancelOnce == Abstract!FairSpec
===============================================================================
