------------------------------ MODULE MCWireGuard -----------------------------
(* Instance of WireGuard for TLC. *)
EXTENDS WireGuard

MCPortOf == [a |-> 1, b |-> 1]
Scene(a, b) == [kind |-> [a |-> a, b |-> b], endpoints |-> 1, stops |-> FALSE, bytes |-> 0,
                packets |-> {"synack", "ack", "fin", "finack", "rst"}, data |-> 0]

\* A stream of bytes on an endpoint that may stop; a download that tunes its
\* buffer; sockets of both kinds in the same slots; two connections with one
\* port; an endpoint replaced by a connection whose lookup then fails; a name
\* looked up through the tunnel.
Stream   == [Scene("tcp", "none") EXCEPT !.stops = TRUE, !.bytes = 2]
Download == [Scene("tcp", "none") EXCEPT !.bytes = 1, !.packets = {"synack", "data", "fin"},
                                         !.data = 10]
Slots    == [Scene("tcp", "udp") EXCEPT !.bytes = 1, !.packets = {"synack", "rst"}]
OnePort  == [Scene("tcp", "tcp") EXCEPT !.bytes = 1, !.packets = {"synack", "rst"}]
Replaced == [Scene("tcp", "tcpname") EXCEPT !.endpoints = 2, !.stops = TRUE, !.bytes = 1,
                                        !.packets = {"synack"}]
ByName   == [Scene("tcpname", "dns") EXCEPT !.packets = {"synack", "data"}, !.data = 1]
MCScenes == {Stream, Download, Slots, OnePort, Replaced, ByName}
===============================================================================
