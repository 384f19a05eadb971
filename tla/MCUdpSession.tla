----------------------------- MODULE MCUdpSession -----------------------------
(* One source address, one destination per policy; two sessions, so that   *)
(* the next session of the source runs beside the one that is ending.      *)
EXTENDS UdpSession, TLC

MCPort == [s \in Srcs |-> 1]
MCPolicy == [d \in {"good", "bad", "hole"} |->
               CASE d = "good" -> "proxy" [] d = "bad" -> "reject"
                 [] d = "hole" -> "blackhole"]
===============================================================================
