----------------------------- MODULE MCIntercept -----------------------------
(***************************************************************************)
(* Two connections, three requests, over five scenes: bodies around the    *)
(* limit in several framings; header rules; url rules across entries with  *)
(* a reload; scripts with and without compression; destinations that are   *)
(* not intercepted and a configuration that a reload refuses.              *)
(***************************************************************************)
EXTENDS Intercept

Symmetry == Permutations(Conns)

MCHeaderNames == {"host", "content-length", "content-encoding", "connection",
                  "location", "x"}

\* external: what a script may do with a message.
MCRunScript(script, d) ==
  CASE script = "throw" -> None
    [] script = "header" ->
         Some([status |-> None, body |-> d.body,
               header |-> [k \in DOMAIN d.header \cup {"x"} |->
                             IF k = "x" THEN <<"js">> ELSE d.header[k]]])
    [] script = "body" ->
         Some([status |-> IF d.status = "" THEN None ELSE Some("418"),
               header |-> d.header,
               body   |-> IF d.body.some THEN Some(<<"n">> \o d.body.val)
                          ELSE None])
    [] script = "rehost" ->
         Some([status |-> None, body |-> None,
               header |-> [d.header EXCEPT !["host"] = <<"b">>]])

-------------------------------------------------------------------------------

Hdr(f) == [k \in MCHeaderNames |-> IF k \in DOMAIN f THEN f[k] ELSE <<>>]
Req(version, uri, h, frames) ==
  [version |-> version, uri |-> uri, headers |-> Hdr(h), frames |-> frames]
Resp(h, frames) == [status |-> "200", headers |-> Hdr(h), frames |-> frames]
HostA == [host |-> << <<"a">> >>]
Gzip == [k \in {"content-encoding"} |-> << <<"gzip">> >>]
HostAX == [host |-> << <<"a">> >>, x |-> << <<"1">>, <<"2">> >>]

D(n) == Data([i \in 1 .. n |-> "d"])
Trailers == [f |-> "trailers"]
Broken == [f |-> "error"]

\* Expressions: every url of host h, one path, everything, and two that do not
\* fit their use.
Re(texts, groups, caps(_)) ==
  [ok |-> TRUE, groups |-> groups, caps |-> [t \in texts |-> caps(t)]]
Schemes == {"http://", "https://"}
Paths == {"/p", "/q"}
Urls(h) == {<<s, h, p>> : s \in Schemes, p \in Paths}
OfHost(h) == Re(Urls(h), 3, LAMBDA t : <<t, <<t[3]>>, <<>> >>)
OfPath(p) == Re({u \in Urls("a") \cup Urls("b") : u[3] = p}, 1,
                LAMBDA t : <<t>>)
Anything == Re(Urls("a") \cup Urls("b") \cup {<<p>> : p \in Paths}, 1,
               LAMBDA t : <<t>>)
Value(v) == Re({<<v>>}, 1, LAMBDA t : <<t>>)
BadRe == [ok |-> FALSE, groups |-> 0, caps |-> <<>>]
Lit(a) == [cap |-> FALSE, text |-> <<a>>]
Cap(n) == [cap |-> TRUE, id |-> n]

Entry(hosts, actions) == [enabled |-> TRUE, filters_ok |-> TRUE,
                          filters |-> hosts, actions |-> actions]
Off(e) == [e EXCEPT !.enabled = FALSE]
Dest(h, p) == [host |-> h, port |-> p, domain |-> TRUE]

\* Bodies below, at and above the limit of two, in one frame and in several,
\* with trailers and broken off.
Bodies ==
  [entries  |-> <<Entry({"a"}, << <<"capture">> >>)>>,
   reloaded |-> <<Entry({"a"}, << <<"capture-response">>,
                                  <<"header-req", Anything, "del", "x">> >>)>>,
   dests    |-> {Dest("a", 80), Dest("a", 443)},
   requests |-> {Req("1.1", <<"/p">>, HostAX, <<D(1), D(1), D(2)>>),
                 Req("1.0", <<"/p">>, HostA, <<D(1), D(1)>>)},
   replies  |-> {Resp(HostAX, <<D(3), D(1)>>),
                 Resp(HostAX, <<D(2), Trailers>>),
                 Resp(HostAX, <<D(1), Broken>>)}]

\* Every header operation, on requests and responses.
Headers ==
  [entries  |-> <<Entry({"a", "b"},
                    << <<"header-req", OfHost("a"), "add", "x", <<"3">> >>,
                       <<"header-req", OfHost("a"), "replace", "location",
                         <<"no">> >>,
                       <<"header-req", Anything, "replace_with", "x",
                         Value("1"), <<Lit("one"), Cap(0)>> >>,
                       <<"header-resp", Anything, "set", "x", <<"r">> >>,
                       <<"header-resp", OfHost("a"), "del", "x">> >>),
                 Entry({"b"}, << <<"capture">> >>)>>,
   reloaded |-> <<Entry({"a"}, << <<"header-req", Anything, "set", "x">> >>)>>,
   dests    |-> {Dest("a", 80), Dest("b", 80)},
   requests |-> {Req("1.1", <<"/p">>, HostAX, <<D(1), Trailers>>),
                 Req("1.1", <<"/q">>, [x |-> << <<"bin">>, <<"1">> >>],
                     <<D(3)>>)},
   replies  |-> {Resp(HostAX, <<D(2)>>)}]

\* Url rules of several entries, one of them disabled, behind rules that
\* change the host the url is made of, and a reload that removes them.
Redirects ==
  [entries  |-> <<Off(Entry({"a"}, << <<"bogus">> >>)),
                  Entry({"a"}, << <<"script", "req", None, "rehost">>,
                                  <<"header-req", OfHost("a"), "set", "host",
                                    <<"b">> >>,
                                  <<"url", OfPath("/q"), "404">> >>),
                  Entry({"a"}, << <<"capture-response">>,
                                  <<"url", OfHost("a"), "302",
                                    <<Lit("to"), Cap(1), Cap(2)>> >>,
                                  <<"header-resp", Anything, "add", "x",
                                    <<"r">> >> >>)>>,
   reloaded |-> <<Entry({"a"}, << <<"url", OfHost("b"), "301",
                                    <<Lit("to")>> >> >>)>>,
   dests    |-> {Dest("a", 80), Dest("a", 443)},
   requests |-> {Req("1.1", <<"/p">>, HostA, <<D(1)>>),
                 Req("1.1", <<"/q">>, HostA, <<D(3)>>),
                 Req("1.0", <<"/q">>, HostA, <<>>)},
   replies  |-> {Resp(HostA, <<D(1)>>)}]

\* Scripts, on plain, compressed and unreadable bodies.
Scripts ==
  [entries  |-> <<Entry({"a"}, << <<"script", "resp", Some(OfHost("a")), "body">>,
                                  <<"script", "all", None, "header">>,
                                  <<"script", "req", None, "throw">> >>)>>,
   reloaded |-> <<Entry({"a"}, << <<"script", "both", None, "throw">> >>)>>,
   dests    |-> {Dest("a", 443)},
   requests |-> {Req("1.1", <<"/p">>, HostAX, <<D(1), D(1)>>),
                 Req("1.1", <<"/q">>, HostA, <<D(3)>>)},
   replies  |-> {Resp([x |-> << <<"1">> >>], <<D(2)>>),
                 Resp(HostA, <<Data(<<"bin">>)>>),
                 Resp(Gzip, <<Data(<<"gzip">>), D(1)>>),
                 Resp(Gzip, <<Data(<<"gzip">>), D(2)>>)}]

\* What interception is not for: an address, a port, a host of no entry, and
\* entries without actions.
Bypassed ==
  [entries  |-> <<Entry({"a"}, << <<"capture-request">> >>),
                  Entry({"b"}, <<>>)>>,
   reloaded |-> <<[Entry({"b"}, << <<"capture">> >>)
                     EXCEPT !.filters_ok = FALSE]>>,
   dests    |-> {Dest("a", 8080), Dest("b", 443), Dest("a", 443),
                 [Dest("a", 80) EXCEPT !.domain = FALSE]},
   requests |-> {Req("1.1", <<"/p">>, HostA, <<D(3)>>)},
   replies  |-> {Resp(HostA, <<D(1), D(1)>>)}]

MCScenes == {Bodies, Headers, Redirects, Scripts, Bypassed}

\* Lines the configuration must not accept.
ASSUME BadLinesRefused ==
  \A line \in {<<"bogus">>, <<"url", OfHost("a")>>,
               <<"url", OfHost("a"), "302">>,
               <<"url", OfHost("a"), "303", <<Lit("to")>> >>,
               <<"url", OfHost("a"), "404", <<Lit("to")>> >>,
               <<"url", OfHost("a"), "302", <<Cap(3)>> >>,
               <<"url", BadRe, "404">>,
               <<"header-req", BadRe, "del", "x">>,
               <<"header-req", Anything, "del", "x", <<"1">> >>,
               <<"header-resp", Anything, "set", "no such name", <<"1">> >>,
               <<"header-resp", Anything, "replace_with", "x", Value("1"),
                 <<Cap(1)>> >>,
               <<"script", "request", None, "throw">>,
               <<"script", "req", Some(BadRe), "throw">>} :
    ~ParseActions(<< <<"capture">>, line>>).some
===============================================================================
