---------------------------- MODULE MCAbortHandle ----------------------------
(* Three concurrent cancels and one fulfill of two tasks.                  *)
EXTENDS AbortHandle
===============================================================================
