------------------------------ MODULE MCDnsTable ------------------------------
(* Five domains compete for four addresses, flushed when none is free; the *)
(* sample of flush_older is one record.                                    *)
EXTENDS DnsTable, TLC

Symmetry == Permutations(Domains) \cup Permutations(Ips)
===============================================================================
