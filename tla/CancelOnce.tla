------------------------------ MODULE CancelOnce ------------------------------
(***************************************************************************)
(* What ConnAbortHandle (src/boltconn/src/proxy/context.rs) promises to    *)
(* the rest of BoltConn, with no atomics and no threads: a set of tasks    *)
(* is attached to the handle at most once, a cancellation may be requested *)
(* before or after that, and once both have happened every attached task   *)
(* is aborted, and none before.  AbortHandle implements this module.       *)
(***************************************************************************)
CONSTANT Tasks              \* the tasks a connection may attach

VARIABLES requested,        \* some cancel() took effect
          bound,            \* fulfill() attached the tasks
          given,            \* the tasks that are attached
          aborted           \* the tasks that were told to stop

vars == <<requested, bound, given, aborted>>

Init == /\ requested = FALSE
        /\ \/ bound = FALSE
           \/ bound = TRUE        \* a placeholder: attached, but to nothing
        /\ given = {}
        /\ aborted = {}

\* A cancellation is requested, before or after the tasks are known.
Request == /\ ~requested
           /\ requested' = TRUE
           /\ UNCHANGED <<bound, given, aborted>>

\* The tasks become known; from now on a requested cancellation reaches them.
Bind == /\ ~bound
        /\ bound' = TRUE
        /\ given' = Tasks
        /\ UNCHANGED <<requested, aborted>>

\* One attached task is told to stop.
Stop == /\ requested /\ bound
        /\ \E t \in given \ aborted : aborted' = aborted \cup {t}
        /\ UNCHANGED <<requested, bound, given>>

Next == Request \/ Bind \/ Stop

Spec == Init /\ [][Next]_vars

\* With a scheduler that runs the aborting thread, the abort completes.
FairSpec == Spec /\ WF_vars(Stop)
===============================================================================
