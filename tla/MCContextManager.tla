--------------------------- MODULE MCContextManager ---------------------------
(* Three connections, a log limit of zero or one and a grace of one, so     *)
(* that one push may reap several contexts and move some to the database.   *)
EXTENDS ContextManager

Symmetry == Permutations(Conns)
===============================================================================
