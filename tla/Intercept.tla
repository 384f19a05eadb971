------------------------------ MODULE Intercept ------------------------------
(***************************************************************************)
(* Interception of HTTP(S) connections: InterceptionManager, the part of   *)
(* Dispatcher::submit_tcp that puts a connection behind HttpIntercept or   *)
(* HttpsIntercept, and their proxy loop around InterceptModifier           *)
(* (src/boltconn/src/intercept, src/boltconn/src/proxy/dispatcher.rs).     *)
(*                                                                         *)
(* hyper serves one request of a client connection at a time; an error of  *)
(* the handler closes the connection, and a client that leaves drops the   *)
(* handler at whatever it awaits.  Each connection has a modifier of its   *)
(* own; they share the manager, which a reload replaces, and the captured  *)
(* contents.  hist is history: what each exchange was at each party.       *)
(***************************************************************************)
EXTENDS Modifiers, TLC

CONSTANTS Conns,            \* client connections
          Scenes,           \* configurations and messages to explore
          MaxRequests       \* bound: requests of all the connections

\* Configurations are lists of entries with lists of lines; a body is a list of
\* frames, and the bytes of a data frame are a list.
IsList(s) == s \in Seq(Range(s))
ASSUME ScenesAssumption ==
  /\ MaxRequests \in Nat
  /\ \A s \in Scenes :
       /\ \A conf \in {s.entries, s.reloaded} :
            IsList(conf) /\ \A i \in DOMAIN conf : IsList(conf[i].actions)
       /\ \A m \in s.requests \cup s.replies :
            /\ IsList(m.frames)
            /\ \A i \in DOMAIN m.frames :
                 IsData(m.frames[i]) => IsList(m.frames[i].bytes)

VARIABLES scene,            \* the scene of this behaviour
          mgr,              \* intercept_mgr, an ArcSwap: its entries, and
                            \* (history) the configuration they come from
          reloads,          \* reloads left
          conn,             \* the connections
          contents,         \* HttpCapturer: the recorded exchanges
          hist              \* per connection, its exchanges by tag

vars == <<scene, mgr, reloads, conn, contents, hist>>

-------------------------------------------------------------------------------
(* InterceptionManager.                                                      *)

\* InterceptionManager::new: disabled entries are not even parsed; one bad
\* entry refuses the configuration.
NewManager(entries) ==
  LET entry(e) == IF ~e.enabled THEN <<>>
                  ELSE <<[filters |-> e.filters,
                          payload |-> ParseActions(e.actions).val]>>
  IN  IF \A i \in DOMAIN entries : entries[i].enabled =>
           entries[i].filters_ok /\ ParseActions(entries[i].actions).some
      THEN Some([conf    |-> entries,
                 entries |-> FlattenSeq([i \in DOMAIN entries |->
                                           entry(entries[i])])])
      ELSE None

\* InterceptionEntry::matches: the filters, a Dispatching of their own, send
\* what the entry is for to DIRECT.
Lets(e, host) == host \in e.filters

\* matches: the payloads of every entry whose filters let the connection
\* through, in the order of the configuration, and the union of their flags.
MatchesFirstOnly(m, host) ==
  LET hits == {i \in DOMAIN m.entries : Lets(m.entries[i], host)}
      first == {i \in hits : \A j \in hits : i <= j}
  IN  [payloads |-> FlattenSeq([i \in DOMAIN m.entries |->
                      IF i \in first THEN m.entries[i].payload.payloads ELSE <<>>]),
       capture_request |-> \E i \in hits : m.entries[i].payload.capture_request,
       capture_response |-> \E i \in hits : m.entries[i].payload.capture_response,
       contains_script |-> FALSE]
PayloadsFor(entries, host) ==
  FlattenSeq([i \in DOMAIN entries |->
                IF Lets(entries[i], host) THEN entries[i].payload.payloads ELSE <<>>])
Matches(m, host) ==
  LET hits == {i \in DOMAIN m.entries : Lets(m.entries[i], host)}
      payloads == PayloadsFor(m.entries, host)
  IN  [payloads |-> payloads,
       capture_request |-> \E i \in hits : m.entries[i].payload.capture_request,
       capture_response |-> \E i \in hits : m.entries[i].payload.capture_response,
       contains_script |-> \E i \in DOMAIN payloads : payloads[i].kind = "script"]

ShouldIntercept(res) ==
  res.payloads # <<>> \/ res.capture_request \/ res.capture_response

-------------------------------------------------------------------------------

NoConn == [phase |-> "new"]
Exchange(req) == [req |-> req, got |-> None, reply |-> None, answer |-> None]

Init == /\ scene \in Scenes
        /\ \E m \in {NewManager(scene.entries)} : m.some /\ mgr = m.val
        /\ reloads = 1
        /\ conn = [c \in Conns |-> NoConn]
        /\ contents = <<>>
        /\ hist = [c \in Conns |-> <<>>]

\* reload: a configuration that does not parse changes nothing.
Reload ==
  /\ reloads > 0
  /\ reloads' = reloads - 1
  /\ mgr' = OrElse(NewManager(scene.reloaded), mgr)
  /\ UNCHANGED <<scene, conn, contents, hist>>

\* sign_site_cert: a certificate for the name, unless signing fails.
SignSiteCert == {"tls", "refused"}

\* What becomes of an intercepted connection: HttpIntercept serves it at once,
\* HttpsIntercept::new needs a certificate first.
NewHttps(dest) == IF dest.port = 443 THEN SignSiteCert ELSE {"idle"}

\* InterceptModifier::new, one for each connection, for the payloads and the
\* destination it was given.
NewModifier(phase, dest, res) ==
  [phase |-> phase, port |-> dest.port, host |-> dest.host, conf |-> mgr.conf,
   res |-> res, pending |-> <<>>, sender |-> "none", out |-> None]

\* submit_tcp: only a domain name with port 80 or 443 is intercepted; the
\* others, and those no entry is for, are relayed as they are.
Submit(c, dest) ==
  /\ conn[c].phase = "new"
  /\ LET res  == Matches(mgr, dest.host)
         mitm == dest.domain /\ dest.port \in {80, 443} /\ ShouldIntercept(res)
     IN  \E phase \in (IF mitm THEN NewHttps(dest) ELSE {"relayed"}) :
           conn' = [conn EXCEPT ![c] = NewModifier(phase, dest, res)]
  /\ UNCHANGED <<scene, mgr, reloads, contents, hist>>

\* The end of a connection: the handler and the modifier are dropped, and
\* with it the requests that had no response.
Close(c) == conn' = [conn EXCEPT ![c].phase = "closed", ![c].sender = "none",
                                 ![c].pending = <<>>, ![c].out = None]

\* The TLS handshake with the client, which may not accept the certificate.
TlsAccept(c) ==
  /\ conn[c].phase = "tls"
  /\ \/ conn' = [conn EXCEPT ![c].phase = "idle"]
     \/ Close(c)
  /\ UNCHANGED <<scene, mgr, reloads, contents, hist>>

\* The requests so far, and the tag of the one in service.
Exchanges == {x \in Conns \X (1 .. MaxRequests) : x[2] <= Len(hist[x[1]])}
Tag(c) == Len(hist[c])

ClientRequest(c, req) ==
  /\ conn[c].phase = "idle"
  /\ Cardinality(Exchanges) < MaxRequests
  /\ conn' = [conn EXCEPT ![c].phase = "request"]
  /\ hist' = [hist EXCEPT ![c] = Append(@, Exchange(req))]
  /\ UNCHANGED <<scene, mgr, reloads, contents>>

\* modify_request.  An answer generated by a url rule ends the connection (it
\* says "Connection: close"), and is recorded if responses are captured.
Record(c, req, resp) == [conn |-> c, tag |-> Tag(c), host |-> conn[c].host,
                         req |-> req, resp |-> resp]
PendingAsItCame(c, m) ==
  [uri |-> hist[c][Tag(c)].req.uri, version |-> hist[c][Tag(c)].req.version,
   headers |-> hist[c][Tag(c)].req.headers, body |-> m.dump.body]
Pending(c, m) == m.dump
HandleRequest(c) ==
  /\ conn[c].phase = "request"
  /\ LET req == hist[c][Tag(c)].req
         res == conn[c].res
     IN  \E r \in {ModifyRequest(res, req, conn[c].port)} :
         \/ ~r.some /\ Close(c) /\ UNCHANGED <<contents, hist>>
         \/ /\ r.some /\ r.val.fake.some
            /\ LET fake == r.val.fake.val
               IN  /\ hist' = [hist EXCEPT ![c][Tag(c)].answer = Some(fake)]
                   /\ contents' =
                        IF ~res.capture_response THEN contents
                        ELSE Append(contents,
                               Record(c, r.val.dump,
                                      [status |-> fake.status,
                                       headers |-> fake.headers,
                                       body |-> CapturedBody(
                                                  [st |-> "full",
                                                   bytes |-> <<>>])]))
            /\ Close(c)
         \/ /\ r.some /\ ~r.val.fake.some
            /\ conn' = [conn EXCEPT
                 ![c].phase = "connect",
                 ![c].pending = [t \in DOMAIN @ \cup {Tag(c)} |->
                                   IF t = Tag(c) THEN Pending(c, r.val)
                                   ELSE @[t]],
                 ![c].out = Some([headers |-> r.val.headers,
                                  frames  |-> r.val.frames])]
            /\ UNCHANGED <<contents, hist>>
  /\ UNCHANGED <<scene, mgr, reloads>>

\* proxy, towards the server: HTTP opens a connection for every request, HTTPS
\* one for all of them, which is not replaced when it has died; a connection
\* or a handshake that fails is an error of the handler.
Connect(c) ==
  /\ conn[c].phase = "connect"
  /\ \/ /\ conn[c].port = 443 /\ conn[c].sender = "dead"
        /\ Close(c) /\ UNCHANGED hist
     \/ /\ conn[c].port = 80 \/ conn[c].sender = "none"
        /\ Close(c) /\ UNCHANGED hist
     \/ /\ conn[c].port = 443 => conn[c].sender # "dead"
        /\ conn' = [conn EXCEPT ![c].phase = "wait",
                                ![c].sender = IF conn[c].port = 443 THEN "live"
                                              ELSE "none",
                                ![c].out = None]
        /\ hist' = [hist EXCEPT ![c][Tag(c)].got = conn[c].out]
  /\ UNCHANGED <<scene, mgr, reloads, contents>>

\* The server answers, or its connection breaks first.
ServerReplies(c, resp) ==
  /\ conn[c].phase = "wait"
  /\ conn' = [conn EXCEPT ![c].phase = "response"]
  /\ hist' = [hist EXCEPT ![c][Tag(c)].reply = Some(resp)]
  /\ UNCHANGED <<scene, mgr, reloads, contents>>

ServerFails(c) ==
  /\ \/ conn[c].phase = "wait" /\ Close(c)
     \/ /\ conn[c].phase = "idle" /\ conn[c].sender = "live"
        /\ conn' = [conn EXCEPT ![c].sender = "dead"]
  /\ UNCHANGED <<scene, mgr, reloads, contents, hist>>

\* modify_response: the pending request is taken out before the body is read;
\* without it (NoCorrespondingId) or with a body that cannot be read the
\* handler fails.
HandleResponse(c) ==
  /\ conn[c].phase = "response"
  /\ LET dump == conn[c].pending[Tag(c)]
         resp == hist[c][Tag(c)].reply.val
     IN  \E r \in {IF Tag(c) \in DOMAIN conn[c].pending
                   THEN ModifyResponse(conn[c].res, dump, resp, conn[c].port)
                   ELSE None} :
         \/ ~r.some /\ Close(c) /\ UNCHANGED <<contents, hist>>
         \/ /\ r.some
            /\ contents' = Append(contents, Record(c, dump, r.val.dump))
            /\ hist' = [hist EXCEPT ![c][Tag(c)].answer =
                          Some([status |-> r.val.status,
                                headers |-> r.val.headers,
                                frames |-> r.val.frames])]
            /\ conn' = [conn EXCEPT
                 ![c].phase = "idle",
                 ![c].pending = [t \in DOMAIN @ \ {Tag(c)} |-> @[t]]]
  /\ UNCHANGED <<scene, mgr, reloads>>

ClientLeaves(c) ==
  /\ conn[c].phase \notin {"new", "relayed", "refused", "closed"}
  /\ Close(c)
  /\ UNCHANGED <<scene, mgr, reloads, contents, hist>>

Step(c) == \/ \E dest \in scene.dests : Submit(c, dest)
           \/ TlsAccept(c)
           \/ \E req \in scene.requests : ClientRequest(c, req)
           \/ HandleRequest(c)
           \/ Connect(c)
           \/ \E resp \in scene.replies : ServerReplies(c, resp)
           \/ ServerFails(c)
           \/ HandleResponse(c)
           \/ ClientLeaves(c)

Next == Reload \/ \E c \in Conns : Step(c)

Spec == Init /\ [][Next]_vars

-------------------------------------------------------------------------------
(* Properties.                                                               *)

Ex(x) == hist[x[1]][x[2]]

\* A captured body is the body that passed, or that body is over the limit.
CapturedRight(body, frames) ==
  CASE body.cap = "full" -> body.bytes = Bytes(frames)
    [] body.cap = "exceeded" -> Len(Bytes(frames)) > SizeLimit
    [] OTHER -> TRUE

\* Every recorded exchange is one that took place, recorded once, with the
\* request as the server got it and the response as the client got it: the
\* headers after all rewriting and the body in full, or marked as too large;
\* and every answer of a server that reached a client is recorded
\* (intercept_modifier.rs, pending and contents.push).
RecordedIsWhatPassed ==
  /\ \A i \in DOMAIN contents :
       LET e == contents[i]
           x == hist[e.conn][e.tag]
       IN  /\ \A j \in DOMAIN contents :
                contents[j].conn = e.conn /\ contents[j].tag = e.tag => j = i
           /\ x.got.some => /\ e.req.headers = x.got.val.headers
                            /\ CapturedRight(e.req.body, x.got.val.frames)
           /\ x.answer.some
           /\ e.resp.headers = x.answer.val.headers
           /\ e.resp.status = x.answer.val.status
           /\ CapturedRight(e.resp.body, x.answer.val.frames)
  /\ \A x \in Exchanges :
       Ex(x).reply.some /\ Ex(x).answer.some =>
         \E i \in DOMAIN contents : contents[i].conn = x[1]
                                    /\ contents[i].tag = x[2]

\* A body no script may change arrives as it was sent, however it was split
\* into frames and whether or not it was captured: with no script among the
\* payloads, or over the limit ("For large body, we skip the manipulation").
MayRewrite(c, frames) ==
  conn[c].res.contains_script /\ Len(Bytes(frames)) <= SizeLimit
BodyIntact ==
  \A x \in Exchanges :
    LET e == Ex(x)
    IN  /\ e.got.some /\ ~MayRewrite(x[1], e.req.frames) =>
             Bytes(e.got.val.frames) = Bytes(e.req.frames)
        /\ e.reply.some /\ e.answer.some
             /\ ~MayRewrite(x[1], e.reply.val.frames) =>
             Bytes(e.answer.val.frames) = Bytes(e.reply.val.frames)

\* A request whose url some url rule matches, of an entry for its host in the
\* configuration the connection was accepted under, never reaches a server:
\* the first such rule of the configuration answers it, whatever header rules
\* and scripts stand before that rule and whatever is reloaded meanwhile.
UrlLines(lines, url) ==
  FlattenSeq([i \in DOMAIN lines |->
    IF lines[i][1] = "url" /\ IsMatch(lines[i][2], url) THEN <<lines[i]>> ELSE <<>>])
UrlRules(entries, host, url) ==
  FlattenSeq([i \in DOMAIN entries |->
    IF entries[i].enabled /\ host \in entries[i].filters
    THEN UrlLines(entries[i].actions, url) ELSE <<>>])
UrlRuleHolds ==
  \A x \in Exchanges :
    LET e     == Ex(x)
        cn    == conn[x[1]]
        url   == FullUri(e.req.version, e.req.headers, e.req.uri, cn.port)
        rules == UrlRules(cn.conf, cn.host, url.val)
    IN  url.some /\ rules # <<>> =>
          /\ ~e.got.some
          /\ e.answer.some => e.answer.val.status = rules[1][3]
===============================================================================
