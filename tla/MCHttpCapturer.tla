---------------------------- MODULE MCHttpCapturer ----------------------------
(***************************************************************************)
(* Two exchanges shown, one of grace and eight captured: the eviction runs *)
(* twice before the drop.  Clients of the API share nothing with the       *)
(* database, so they are explored with one process and no connections, and *)
(* restarts and connections without clients.                               *)
(***************************************************************************)
EXTENDS CaptureStore

MCTables == {"Conn", "Intercept"}
MCLimit == [Conn |-> 1, Intercept |-> 3]
MCScenes == {[api |-> TRUE, conns |-> 0, starts |-> 1],
             [api |-> FALSE, conns |-> 2, starts |-> 2]}
===============================================================================
