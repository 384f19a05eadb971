------------------------------ MODULE Modifiers ------------------------------
(***************************************************************************)
(* The engines of src/boltconn/src/intercept that rewrite an HTTP exchange:*)
(* url, header and script actions, their configuration lines, and          *)
(* InterceptModifier's two handlers as functions of one message.           *)
(*                                                                         *)
(* Data.  A text (url, header value, body) is a sequence of atoms; "bin" is*)
(* an atom that is neither visible ASCII nor UTF-8.  A regular expression  *)
(* is [ok, groups, caps]: whether it compiles, captures_len(), and for     *)
(* every text it matches the text of each group (<<>> when the group took  *)
(* no part).  A configuration line is the sequence of its fields.  A header*)
(* map gives every name its sequence of values.  A body is a sequence of   *)
(* frames, each data, trailers or an error; a text's length is its size.   *)
(***************************************************************************)
EXTENDS Integers, Sequences, FiniteSets, SequencesExt

CONSTANTS HeaderNames,      \* the names that parse as a HeaderName
          SizeLimit,        \* size_limit (2 MiB in the code)
          RunScript(_, _)   \* external: what evaluating a script returns

ASSUME ModAssumption == /\ {"host", "content-length", "content-encoding"}
                             \subseteq HeaderNames
                        /\ SizeLimit \in Nat

None == [some |-> FALSE]
Some(x) == [some |-> TRUE, val |-> x]
OrElse(opt, x) == IF opt.some THEN opt.val ELSE x
IsSome(opt) == opt.some

IsAscii(text) == "bin" \notin Range(text)
Encodings == {"gzip", "deflate", "br"}
IsUtf8(text) == Range(text) \cap (Encodings \cup {"bin"}) = {}

-------------------------------------------------------------------------------
(* Regular expressions and replacements.                                     *)

IsMatch(re, text) == text \in DOMAIN re.caps

\* parse_chunks: a chunk is a literal text or the number of a group, and every
\* number must be a group of the expression (compared as u8).
ParseChunks(re, chunks) ==
  IF \A i \in DOMAIN chunks :
       chunks[i].cap => chunks[i].id < 256 /\ chunks[i].id < re.groups % 256
  THEN Some(chunks) ELSE None

\* The replacement: a group that took no part contributes nothing.
Expand(re, chunks, text) ==
  FlattenSeq([i \in DOMAIN chunks |->
                IF chunks[i].cap THEN re.caps[text][chunks[i].id + 1]
                ELSE chunks[i].text])

\* Replacement::rewrite
Rewrite(r, text) == IF IsMatch(r.reg, text)
                    THEN Some(Expand(r.reg, r.chunks, text)) ELSE None

-------------------------------------------------------------------------------
(* Configuration lines to engines.                                           *)

RedirectCodes == {"301", "302", "307", "308"}

\* UrlEngine::from_line and UrlEngine::new
UrlFromLine(f) ==
  LET code == f[3]
  IN  IF \/ Len(f) < 3
         \/ code \notin RedirectCodes \cup {"404"}
         \/ Len(f) # (IF code = "404" THEN 3 ELSE 4)
         \/ ~f[2].ok
      THEN None
      ELSE LET target == IF code = "404" THEN Some(<<>>)
                         ELSE ParseChunks(f[2], f[4])
           IN  IF target.some
               THEN Some([kind |-> "url", code |-> code, reg |-> f[2],
                          chunks |-> target.val])
               ELSE None

HeaderArity == [add |-> 2, del |-> 1, set |-> 2, replace |-> 2,
                replace_with |-> 3]

\* deserialize_values: what follows the third comma, as a list of values.
HeaderValues(f) == SubSeq(f, 4, Len(f))

\* The operand constructors: exactly as many values as the operation takes,
\* and valid ones.
HeaderOperand(op, v) ==
  IF Len(v) # HeaderArity[op] \/ v[1] \notin HeaderNames THEN None
  ELSE CASE op = "del" -> Some([op |-> op, key |-> v[1]])
         [] op = "replace_with" ->
              LET chunks == ParseChunks(v[2], v[3])
              IN  IF v[2].ok /\ chunks.some
                  THEN Some([op |-> op, key |-> v[1], reg |-> v[2],
                             chunks |-> chunks.val])
                  ELSE None
         [] OTHER -> Some([op |-> op, key |-> v[1], val |-> v[2]])

\* HeaderEngine::from_line
HeaderFromLine(f) ==
  IF Len(f) < 3 \/ f[3] \notin DOMAIN HeaderArity THEN None
  ELSE LET operand == HeaderOperand(f[3], HeaderValues(f))
       IN  IF operand.some /\ f[2].ok
           THEN Some([kind |-> f[1], reg |-> f[2], operand |-> operand.val])
           ELSE None

\* ScriptEngine::new
ScriptFromConfig(f) ==
  IF f[2] \in {"req", "resp", "all"} /\ (f[3].some => f[3].val.ok)
  THEN Some([kind |-> "script", stype |-> f[2], pattern |-> f[3],
             script |-> f[4]])
  ELSE None

\* parse_actions: the engines in the order of the lines; one bad or unknown
\* line refuses the whole list.
CaptureLines == {"capture", "capture-request", "capture-response"}
Engine(f) ==
  CASE f[1] = "url" -> UrlFromLine(f)
    [] f[1] \in {"header-req", "header-resp"} -> HeaderFromLine(f)
    [] f[1] = "script" -> ScriptFromConfig(f)
    [] OTHER -> None
ParseActions(lines) ==
  LET engine(f)  == IF f[1] \in CaptureLines THEN <<>> ELSE <<Engine(f).val>>
      has(words) == \E i \in DOMAIN lines : lines[i][1] \in words
  IN  IF \A i \in DOMAIN lines :
           lines[i][1] \notin CaptureLines => Engine(lines[i]).some
      THEN Some([payloads |-> FlattenSeq([i \in DOMAIN lines |->
                                            engine(lines[i])]),
                 capture_request  |-> has({"capture", "capture-request"}),
                 capture_response |-> has({"capture", "capture-response"})])
      ELSE None

-------------------------------------------------------------------------------
(* Engines on a message.                                                     *)

Has(h, k) == h[k] # <<>>

\* HeaderRule::rewrite
RewriteHeader(o, h) ==
  LET rewritten(v) == IF IsAscii(v) THEN OrElse(Rewrite(o, v), v) ELSE v
  IN  [h EXCEPT ![o.key] =
         CASE o.op = "add" -> Append(@, o.val)
           [] o.op = "del" -> <<>>
           [] o.op = "set" -> <<o.val>>
           [] o.op = "replace" -> IF Has(h, o.key) THEN <<o.val>> ELSE @
           [] o.op = "replace_with" -> [i \in DOMAIN @ |-> rewritten(@[i])]]

\* HeaderRule: a rule is for requests or for responses.
SameSide(e, kind) == e.kind = kind

\* HeaderEngine::try_rewrite_request and try_rewrite_response
TryRewriteHeader(e, kind, url, h) ==
  IF SameSide(e, kind) /\ IsMatch(e.reg, url) THEN RewriteHeader(e.operand, h)
  ELSE h

\* run_js, before the script: values of one name are joined with ", ", the
\* body is decompressed and must be UTF-8, else the script sees no body.
JoinValues(vs) ==
  FlattenSeq([i \in DOMAIN vs |-> IF i = 1 THEN vs[i] ELSE <<", ">> \o vs[i]])
JsHeader(h) == [k \in {n \in HeaderNames : Has(h, n)} |-> JoinValues(h[k])]
Decompress(js, data) ==
  LET utf8(t) == IF IsUtf8(t) THEN Some(t) ELSE None
  IN  IF ~data.some THEN None
      ELSE IF "content-encoding" \notin DOMAIN js THEN utf8(data.val)
      ELSE IF /\ Len(js["content-encoding"]) = 1
              /\ Head(js["content-encoding"]) \in Encodings
              /\ data.val # <<>>
              /\ Head(data.val) = Head(js["content-encoding"])
           THEN utf8(Tail(data.val))
           ELSE None

\* run_js, after it: the headers are rebuilt from the script's object and the
\* body is compressed as the new headers say.
Recompress(js, body) ==
  IF "content-encoding" \notin DOMAIN js \/ ~body.some THEN body
  ELSE IF /\ Len(js["content-encoding"]) = 1
          /\ Head(js["content-encoding"]) \in Encodings
       THEN Some(js["content-encoding"] \o body.val)
       ELSE None

\* HttpData, what a script sees: status and body are absent when there are
\* none.
JsData(url, status, js, body) ==
  [url |-> url, status |-> status, header |-> js, body |-> body]

\* run_js: any failure returns None and nothing of the message changes.
RunJs(e, url, data, status, h) ==
  LET js == JsHeader(h)
      r  == RunScript(e.script, JsData(url, status, js, Decompress(js, data)))
  IN  IF (\E k \in HeaderNames : \E i \in DOMAIN h[k] : ~IsAscii(h[k][i]))
         \/ ~r.some \/ ~(DOMAIN r.val.header \subseteq HeaderNames)
      THEN None
      ELSE Some([status |-> r.val.status,
                 header |-> [k \in HeaderNames |->
                               IF k \in DOMAIN r.val.header
                               THEN <<r.val.header[k]>> ELSE <<>>],
                 body   |-> Recompress(r.val.header, r.val.body)])

\* try_rewrite_req and try_rewrite_resp: a message is [status, headers, data];
\* a script that returns no body leaves the one there was, and data that was
\* not read in full is not shown to the script and never replaced.
ScriptApplies(e, kind, url) ==
  e.stype \in {kind, "all"} /\ (e.pattern.some => IsMatch(e.pattern.val, url))
TryRewriteScript(e, kind, url, m) ==
  LET full == m.data.st = "full"
      r == RunJs(e, url, IF full THEN Some(m.data.bytes) ELSE None, m.status,
                 m.headers)
  IN  IF ~ScriptApplies(e, kind, url) \/ ~r.some THEN m
      ELSE [status  |-> OrElse(r.val.status, m.status),
            headers |-> r.val.header,
            data    |-> IF full /\ r.val.body.some
                        THEN [m.data EXCEPT !.bytes = r.val.body.val]
                        ELSE m.data]

-------------------------------------------------------------------------------
(* Bodies.                                                                   *)

Data(bytes) == [f |-> "data", bytes |-> bytes]
IsData(frame) == frame.f = "data"
Bytes(frames) == FlattenSeq([i \in DOMAIN frames |->
                   IF IsData(frames[i]) THEN frames[i].bytes ELSE <<>>])

\* read_at_most: frames are collected until they end or exceed the limit; a
\* frame that is not data is an error.
ReadAtMost(frames) ==
  LET upTo(n) == Bytes(SubSeq(frames, 1, n))
      over == {n \in DOMAIN frames : Len(upTo(n)) > SizeLimit}
      last == IF over = {} THEN Len(frames)
              ELSE CHOOSE n \in over : \A k \in over : n <= k
  IN  IF \E i \in 1 .. last : ~IsData(frames[i]) THEN [st |-> "error"]
      ELSE [st    |-> IF over = {} THEN "full" ELSE "partial",
            bytes |-> upTo(last),
            rest  |-> SubSeq(frames, last + 1, Len(frames))]
NotRead(frames) == [st |-> "not_read", bytes |-> <<>>, rest |-> frames]

\* PartialReadStream: what was read, then the rest of the body.
PartialReadRestOnly(d) == d.rest
PartialRead(d) == <<Data(d.bytes)>> \o d.rest

\* ReadData::into_body
IntoBody(d) == CASE d.st = "full" -> <<Data(d.bytes)>>
                 [] d.st = "partial" -> PartialRead(d)
                 [] OTHER -> d.rest

\* to_captured_body
CapturedBody(d) ==
  CASE d.st = "full" -> [cap |-> "full", bytes |-> d.bytes]
    [] d.st = "partial" -> [cap |-> "exceeded", bytes |-> <<>>]
    [] OTHER -> [cap |-> "none", bytes |-> <<>>]

-------------------------------------------------------------------------------
(* InterceptModifier.                                                        *)

\* get_full_uri
FullUri(version, h, uri, port) ==
  CASE version = "1.1" ->
         IF Has(h, "host") /\ IsAscii(h["host"][1])
         THEN Some(<<IF port = 443 THEN "https://" ELSE "http://">>
                     \o h["host"][1] \o uri)
         ELSE None
    [] version = "2" -> Some(uri)
    [] OTHER -> None

\* generate_404 and generate_redirect
GeneratedResponse(e, url) ==
  [status  |-> e.code,
   headers |-> [k \in HeaderNames |->
      CASE k = "content-length" -> << <<"0">> >>
        [] k = "connection" -> << <<"close">> >>
        [] k = "location" /\ e.code # "404" -> <<Expand(e.reg, e.chunks, url)>>
        [] OTHER -> <<>>],
   frames  |-> <<>>]

\* The steps of one payload on a request and on a response, and those of all.
RequestStep(e, url, m) ==
  CASE e.kind = "script" -> TryRewriteScript(e, "req", url, m)
    [] e.kind \in {"header-req", "header-resp"} ->
         [m EXCEPT !.headers = TryRewriteHeader(e, "header-req", url, @)]
    [] OTHER -> m
ResponseStep(e, req, url, m) ==
  CASE e.kind = "script" ->
         IF url.some THEN TryRewriteScript(e, "resp", url.val, m) ELSE m
    [] e.kind \in {"header-req", "header-resp"} ->
         [m EXCEPT !.headers = TryRewriteHeader(e, "header-resp", req.uri, @)]
    [] OTHER -> m
RequestSteps(payloads, url, start) ==
  LET after[i \in 0 .. Len(payloads)] ==
        IF i = 0 THEN start ELSE RequestStep(payloads[i], url, after[i - 1])
  IN  after[Len(payloads)]
ResponseSteps(payloads, req, url, start) ==
  LET after[i \in 0 .. Len(payloads)] ==
        IF i = 0 THEN start ELSE ResponseStep(payloads[i], req, url, after[i - 1])
  IN  after[Len(payloads)]

\* modify_request: Some([fake, dump, headers, frames]) or None when the body
\* cannot be read.  The url is that of the request as it came; the payloads
\* apply in order up to the first url rule that matches, which answers.
UrlRuleOf(res, url) ==
  {i \in DOMAIN res.payloads : /\ res.payloads[i].kind = "url"
                               /\ IsMatch(res.payloads[i].reg, url)}
ModifyRequest(res, req, port) ==
  LET url  == FullUri(req.version, req.headers, req.uri, port)
      data == IF res.capture_request \/ res.contains_script
              THEN ReadAtMost(req.frames) ELSE NotRead(req.frames)
      hits == IF url.some THEN UrlRuleOf(res, url.val) ELSE {}
      hit  == CHOOSE i \in hits : \A j \in hits : i <= j
      seen == IF ~url.some THEN <<>>
              ELSE IF hits = {} THEN res.payloads
              ELSE SubSeq(res.payloads, 1, hit - 1)
      start == [status  |-> "", data |-> data,
                headers |-> IF url.some
                            THEN [req.headers EXCEPT !["content-length"] = <<>>]
                            ELSE req.headers]
      m    == RequestSteps(seen, url.val, start)
  IN  IF data.st = "error" THEN None
      ELSE Some([fake    |-> IF hits = {} THEN None
                             ELSE Some(GeneratedResponse(res.payloads[hit],
                                                         url.val)),
                 dump    |-> [uri  |-> IF hits = {} THEN req.uri ELSE url.val,
                              version |-> req.version, headers |-> m.headers,
                              body |-> CapturedBody(m.data)],
                 headers |-> m.headers,
                 frames  |-> IntoBody(m.data)])

\* modify_response, for the pending request's dump.
ModifyResponse(res, dump, resp, port) ==
  LET data == IF res.capture_response \/ res.contains_script
              THEN ReadAtMost(resp.frames) ELSE NotRead(resp.frames)
      url  == FullUri(dump.version, dump.headers, dump.uri, port)
      start == [status |-> resp.status, headers |-> resp.headers, data |-> data]
      m    == ResponseSteps(res.payloads, dump, url, start)
  IN  IF data.st = "error" THEN None
      ELSE Some([status  |-> m.status,
                 headers |-> m.headers,
                 frames  |-> IntoBody(m.data),
                 dump    |-> [status |-> m.status, headers |-> m.headers,
                              body |-> CapturedBody(m.data)]])
===============================================================================
