------------------------- MODULE RequestHandlerProofs -------------------------
(***************************************************************************)
(* The properties of RequestHandler for every set of options, requests and *)
(* resources.                                                              *)
(*                                                                         *)
(* GateInv says, for each stage of handle, what the stages before it have  *)
(* established, and that the URI is the request's own until the redirects  *)
(* are done with it.  HandlerInv adds the host after the rewrites and what *)
(* is true of an answer: each step of the post-processing has a lemma that *)
(* says which headers it touches and what it keeps.                        *)
(***************************************************************************)
EXTENDS RequestHandler, NegotiationProofs

NoRedirect ==
    \A i \in DOMAIN opts.redirects :
        ~ /\ opts.redirects[i].host \in {None, RequestHost(req)}
          /\ req.path \in opts.redirects[i].source

AfterMethod == {"health", "metrics", "cors", "auth", "maintenance", "redirects",
                "rewrites", "static"}
AfterCors == {"auth", "maintenance", "redirects", "rewrites", "static"}
AfterAuth == {"maintenance", "redirects", "rewrites", "static"}
AfterMaintenance == {"redirects", "rewrites", "static"}
AfterRedirects == {"rewrites", "static"}

GateInv ==
    /\ pc \in AfterMethod => req.method \in Methods
    /\ pc \in AfterCors => (opts.cors.enabled => CorsAllows(opts, req))
    /\ pc \in AfterAuth => (opts.basic_auth # "off" => Authorized(opts, req))
    /\ pc \in AfterMaintenance => ~opts.maintenance_mode
    /\ pc \in AfterRedirects => NoRedirect
    /\ pc \notin {"static", "done"} => uri = UriOf(req)
    /\ ContentGated

----------------------------------------------------------------------------
(***************************************************************************)
(* Setting a header does not change who answered.                          *)
(***************************************************************************)
LEMMA InsertBy ==
    ASSUME NEW by, NEW status, NEW payload, NEW n, NEW v, NEW m, NEW w
    PROVE  /\ Response(by, status, payload).by = by
           /\ Insert(Response(by, status, payload), n, v).by = by
           /\ Insert(Insert(Response(by, status, payload), n, v), m, w).by = by
BY DEF Insert, Response

(***************************************************************************)
(* A page, and a page with one more header, is from who made it.           *)
(***************************************************************************)
LEMMA PageBy ==
    ASSUME NEW by, NEW status, NEW payload, NEW method, NEW n, NEW v
    PROVE  /\ Page(by, status, payload, method).by = by
           /\ Insert(Page(by, status, payload, method), n, v).by = by
BY DEF Insert, Response, Page

(***************************************************************************)
(* The stages before the file answer under their own names, never under    *)
(* that of a file, and an answer is not taken for a pass.                  *)
(***************************************************************************)
LEMMA EarlyAnswers ==
    /\ Pass.by = "nobody"
    /\ \A status : error_response(status).by = "error"
    /\ health_pre_process.by \in {"nobody", "health"}
    /\ metrics_pre_process.by \in {"nobody", "metrics"}
    /\ cors_pre_process.by \in {"nobody", "error"}
    /\ basic_auth_pre_process.by \in {"nobody", "error"}
    /\ maintenance_pre_process.by \in {"nobody", "maintenance"}
    /\ redirects_pre_process.by \in {"nobody", "error", "redirect"}
    /\ rewrites_pre_process.by \in {"nobody", "error", "redirect"}
<1>1. Pass.by = "nobody"
  BY InsertBy DEF Pass, NoResponse
<1>2. \A status : error_response(status).by = "error"
  BY PageBy DEF error_response
<1>3. health_pre_process.by \in {"nobody", "health"}
  BY <1>1, InsertBy DEF health_pre_process
<1>4. metrics_pre_process.by \in {"nobody", "metrics"}
  BY <1>1, InsertBy DEF metrics_pre_process
<1>5. cors_pre_process.by \in {"nobody", "error"}
  BY <1>1, <1>2 DEF cors_pre_process
<1>6. basic_auth_pre_process.by \in {"nobody", "error"}
  BY <1>1, <1>2, PageBy DEF basic_auth_pre_process, error_response
<1>7. maintenance_pre_process.by \in {"nobody", "maintenance"}
  BY <1>1, PageBy DEF maintenance_pre_process
<1>8. \A status, location : Redirection(status, location).by = "redirect"
  BY InsertBy DEF Redirection
<1>9. redirects_pre_process.by \in {"nobody", "error", "redirect"}
  BY <1>1, <1>2, <1>8 DEF redirects_pre_process
<1>10. rewrites_pre_process.by \in {"nobody", "error", "redirect"}
  BY <1>1, <1>2, <1>8 DEF rewrites_pre_process
<1> QED
  BY <1>1, <1>2, <1>3, <1>4, <1>5, <1>6, <1>7, <1>9, <1>10

(***************************************************************************)
(* A stage that lets a request pass has found nothing against it.          *)
(***************************************************************************)
LEMMA PassMeans ==
    /\ cors_pre_process = Pass => (opts.cors.enabled => CorsAllows(opts, req))
    /\ basic_auth_pre_process = Pass =>
        (opts.basic_auth # "off" => Authorized(opts, req))
    /\ maintenance_pre_process = Pass => ~opts.maintenance_mode
    /\ redirects_pre_process = Pass /\ uri = UriOf(req) => NoRedirect
<1>1. cors_pre_process = Pass => (opts.cors.enabled => CorsAllows(opts, req))
  BY EarlyAnswers DEF cors_pre_process
<1>2. basic_auth_pre_process = Pass =>
        (opts.basic_auth # "off" => Authorized(opts, req))
  BY EarlyAnswers, PageBy DEF basic_auth_pre_process, error_response
<1>3. maintenance_pre_process = Pass => ~opts.maintenance_mode
  BY EarlyAnswers, PageBy DEF maintenance_pre_process
<1>4. redirects_pre_process = Pass => RedirectMatches = {}
  <2>1. \A status, location : Redirection(status, location).by = "redirect"
    BY InsertBy DEF Redirection
  <2> QED
    BY <2>1, EarlyAnswers DEF redirects_pre_process
<1>5. ASSUME RedirectMatches = {}, uri = UriOf(req)
      PROVE  NoRedirect
  BY <1>5 DEF NoRedirect, RedirectMatches, UriHost, UriOf, RequestHost
<1> QED
  BY <1>1, <1>2, <1>3, <1>4, <1>5
----------------------------------------------------------------------------
(***************************************************************************)
(* A stage answers under its own name and ends the request, or passes it   *)
(* on unanswered: no such step serves content.                             *)
(***************************************************************************)
LEMMA StageServesNothing ==
    ASSUME NEW stage, NEW answer, NEW next, next # "done",
           answer.by \in Early, Stage(stage, answer, next)
    PROVE  ContentGated'
BY DEF Stage, ContentGated, Served, Early

(***************************************************************************)
(* No idle connection has sent anything.                                   *)
(***************************************************************************)
LEMMA GateInit == Init => GateInv
BY DEF Init, GateInv, ContentGated, Served, AfterMethod, AfterCors, AfterAuth,
       AfterMaintenance, AfterRedirects

(***************************************************************************)
(* Each stage of handle establishes its part for the stages after it.      *)
(***************************************************************************)
LEMMA GateNext == GateInv /\ [Next]_vars => GateInv'
<1> SUFFICES ASSUME GateInv, [Next]_vars PROVE GateInv'
  OBVIOUS
<1> USE DEF AfterMethod, AfterCors, AfterAuth, AfterMaintenance, AfterRedirects
<1>1. ASSUME NEW r \in Requests[opts], NEW found \in Resources[opts], Receive(r, found)
      PROVE  GateInv'
  BY <1>1 DEF GateInv, Receive, ContentGated, Served
<1>2. CASE CheckMethod
  <2>1. pc' # "done" => req.method \in Methods
    BY <1>2, EarlyAnswers DEF CheckMethod, Stage
  <2>2. ContentGated'
    <3> DEFINE answer == IF req.method \in Methods THEN Pass ELSE error_response(405)
    <3>1. answer.by \in Early
      BY EarlyAnswers DEF Early
    <3>2. Stage("method", answer, "health")
      BY <1>2 DEF CheckMethod
    <3> HIDE DEF answer
    <3> QED BY <3>1, <3>2, StageServesNothing
  <2>3. pc = "method" /\ pc' \in {"health", "done"} /\ UNCHANGED <<opts, req, uri>>
    BY <1>2 DEF CheckMethod, Stage
  <2> QED
    BY <2>1, <2>2, <2>3 DEF GateInv
<1>3. CASE Health
  <2>1. ContentGated'
    BY <1>3, EarlyAnswers, StageServesNothing DEF Health, Early
  <2>2. pc = "health" /\ pc' \in {"metrics", "done"} /\ UNCHANGED <<opts, req, uri>>
    BY <1>3 DEF Health, Stage
  <2> QED
    BY <2>1, <2>2 DEF GateInv
<1>4. CASE Metrics
  <2>1. ContentGated'
    BY <1>4, EarlyAnswers, StageServesNothing DEF Metrics, Early
  <2>2. pc = "metrics" /\ pc' \in {"cors", "done"} /\ UNCHANGED <<opts, req, uri>>
    BY <1>4 DEF Metrics, Stage
  <2> QED
    BY <2>1, <2>2 DEF GateInv
<1>5. CASE Cors
  <2>1. ContentGated'
    BY <1>5, EarlyAnswers, StageServesNothing DEF Cors, Early
  <2>2. pc = "cors" /\ pc' \in {"auth", "done"} /\ UNCHANGED <<opts, req, uri>>
    BY <1>5 DEF Cors, Stage
  <2>3. pc' = "auth" => (opts.cors.enabled => CorsAllows(opts, req))
    BY <1>5, PassMeans DEF Cors, Stage
  <2> QED
    BY <2>1, <2>2, <2>3 DEF GateInv, CorsAllows
<1>6. CASE BasicAuth
  <2>1. ContentGated'
    BY <1>6, EarlyAnswers, StageServesNothing DEF BasicAuth, Early
  <2>2. pc = "auth" /\ pc' \in {"maintenance", "done"} /\ UNCHANGED <<opts, req, uri>>
    BY <1>6 DEF BasicAuth, Stage
  <2>3. pc' = "maintenance" => (opts.basic_auth # "off" => Authorized(opts, req))
    BY <1>6, PassMeans DEF BasicAuth, Stage
  <2> QED
    BY <2>1, <2>2, <2>3 DEF GateInv, CorsAllows, Authorized
<1>7. CASE Maintenance
  <2>1. ContentGated'
    BY <1>7, EarlyAnswers, StageServesNothing DEF Maintenance, Early
  <2>2. pc = "maintenance" /\ pc' \in {"redirects", "done"} /\ UNCHANGED <<opts, req, uri>>
    BY <1>7 DEF Maintenance, Stage
  <2>3. pc' = "redirects" => ~opts.maintenance_mode
    BY <1>7, PassMeans DEF Maintenance, Stage
  <2> QED
    BY <2>1, <2>2, <2>3 DEF GateInv, CorsAllows, Authorized
<1>8. CASE Redirects
  <2>1. ContentGated'
    BY <1>8, EarlyAnswers, StageServesNothing DEF Redirects, Early
  <2>2. pc = "redirects" /\ pc' \in {"rewrites", "done"} /\ UNCHANGED <<opts, req, uri>>
    BY <1>8 DEF Redirects, Stage
  <2>3. pc' = "rewrites" => NoRedirect
    BY <1>8, <2>2, PassMeans DEF Redirects, Stage, GateInv
  <2> QED
    BY <2>1, <2>2, <2>3 DEF GateInv, CorsAllows, Authorized, NoRedirect
<1>9. CASE Rewrites
  <2>1. ContentGated'
    BY <1>9, EarlyAnswers, StageServesNothing DEF Rewrites, Early
  <2>2. pc = "rewrites" /\ pc' \in {"static", "done"} /\ UNCHANGED <<opts, req>>
    BY <1>9 DEF Rewrites, Stage
  <2> QED
    BY <2>1, <2>2 DEF GateInv, CorsAllows, Authorized, NoRedirect
<1>10. CASE StaticFile
  <2>1. pc = "static" /\ pc' = "done" /\ UNCHANGED <<opts, req, uri>>
    BY <1>10 DEF StaticFile
  <2> QED
    BY <2>1 DEF GateInv, ContentGated, CorsAllows, Authorized, NoRedirect
<1>11. CASE Send
  BY <1>11 DEF Send, GateInv, ContentGated, Served
<1>12. CASE UNCHANGED vars
  BY <1>12 DEF vars, GateInv, ContentGated, Served, CorsAllows, Authorized, NoRedirect
<1> QED
  BY <1>1, <1>2, <1>3, <1>4, <1>5, <1>6, <1>7, <1>8, <1>9, <1>10, <1>11, <1>12 DEF Next

(***************************************************************************)
(* No content passes a check, for every configuration, request and         *)
(* resource: ContentGated always holds.                                    *)
(***************************************************************************)
THEOREM ContentGatedAlways == Spec => []ContentGated
<1>1. GateInv => ContentGated
  BY DEF GateInv
<1> QED
  BY <1>1, GateInit, GateNext, PTL DEF Spec

----------------------------------------------------------------------------
(***************************************************************************)
(* What the post-processing passes on: a response with all its headers.    *)
(***************************************************************************)
IsResponse(r) ==
    /\ r = [by |-> r.by, status |-> r.status, payload |-> r.payload,
            codings |-> r.codings, headers |-> r.headers]
    /\ r.headers = [n \in HeaderNames |-> r.headers[n]]

(***************************************************************************)
(* Its payload is encoded at most once, with a coding of the header a, the *)
(* headers say so, and for GET a length is that of the payload as it is.   *)
(***************************************************************************)
CodedOnce(r, a) ==
    \/ r.codings = << >>
    \/ \E coding \in ContentCoding : r.codings = <<coding>> /\ Accepts(a, coding)

SaysCoding(r) ==
    r.headers["content-encoding"] = IF r.codings = << >> THEN None ELSE r.codings

SaysLength(r) ==
    req.method = "GET" =>
        \/ r.headers["content-length"] = None
        \/ r.headers["content-length"] = r.payload /\ r.codings = << >>

Sound(r, a) == IsResponse(r) /\ CodedOnce(r, a) /\ SaysCoding(r) /\ SaysLength(r)

\* It allows no origin yet.
Bare(r) == r.headers["access-control-allow-origin"] = None

\* As all answers are but those with a pre-compressed variant.
Uncoded(r) ==
    IsResponse(r) /\ r.codings = << >> /\ SaysCoding(r) /\ SaysLength(r) /\ Bare(r)

\* q is r with the header n set to v.
Sets(q, r, n, v) ==
    /\ IsResponse(q)
    /\ q.by = r.by /\ q.status = r.status /\ q.payload = r.payload /\ q.codings = r.codings
    /\ \A m \in HeaderNames : q.headers[m] = IF m = n THEN v ELSE r.headers[m]

\* r is a response as it is made, with no header.
Fresh(r, by, status, payload) ==
    /\ IsResponse(r)
    /\ r.by = by /\ r.status = status /\ r.payload = payload /\ r.codings = << >>
    /\ \A n \in HeaderNames : r.headers[n] = None

(***************************************************************************)
(* Setting a header replaces that header alone.                            *)
(***************************************************************************)
LEMMA InsertMeans ==
    ASSUME NEW r, IsResponse(r), NEW n \in HeaderNames, NEW v
    PROVE  Sets(Insert(r, n, v), r, n, v)
BY DEF Sets, Insert, IsResponse

(***************************************************************************)
(* A response starts without headers and without coding.                   *)
(***************************************************************************)
LEMMA ResponseMeans ==
    ASSUME NEW by, NEW status, NEW payload
    PROVE  Fresh(Response(by, status, payload), by, status, payload)
BY DEF Fresh, Response, IsResponse, NoHeaders

(***************************************************************************)
(* The headers that the stages set are headers of a response.              *)
(***************************************************************************)
LEMMA NamedHeaders ==
    /\ "content-encoding" \in HeaderNames /\ "content-length" \in HeaderNames
    /\ "access-control-allow-origin" \in HeaderNames
    /\ "access-control-allow-origin" # "content-encoding"
    /\ "access-control-allow-origin" # "content-length"
    /\ "content-encoding" # "content-length"
    /\ {"content-type", "vary", "allow", "location", "cache-control", "www-authenticate",
        "access-control-allow-origin", "access-control-allow-methods",
        "access-control-allow-headers", "access-control-expose-headers"}
            \subseteq HeaderNames \ ({"content-encoding", "content-length"} \cup SecurityHeaders)
    /\ SecurityHeaders \subseteq HeaderNames \ {"content-encoding", "content-length"}
BY DEF HeaderNames, SecurityHeaders

(***************************************************************************)
(* A header other than Content-Encoding and Content-Length changes neither *)
(* what is said of the coding nor what is said of the length.              *)
(***************************************************************************)
LEMMA SetsKeeps ==
    ASSUME NEW q, NEW r, NEW n, NEW v, Sets(q, r, n, v),
           n # "content-encoding", n # "content-length"
    PROVE  /\ n # "access-control-allow-origin" /\ Uncoded(r) => Uncoded(q)
           /\ \A a : Sound(r, a) => Sound(q, a)
<1>1. /\ IsResponse(q) /\ q.codings = r.codings /\ q.payload = r.payload
      /\ q.headers["content-encoding"] = r.headers["content-encoding"]
      /\ q.headers["content-length"] = r.headers["content-length"]
      /\ n # "access-control-allow-origin" => (Bare(r) => Bare(q))
  BY NamedHeaders, Zenon DEF Sets, Bare
<1>2. /\ SaysCoding(r) => SaysCoding(q)
      /\ SaysLength(r) => SaysLength(q)
      /\ \A a : CodedOnce(r, a) => CodedOnce(q, a)
  BY <1>1, Zenon DEF SaysCoding, SaysLength, CodedOnce
<1> QED
  BY <1>1, <1>2, Zenon DEF Uncoded, Sound

(***************************************************************************)
(* The same, of a header that is inserted.                                 *)
(***************************************************************************)
LEMMA InsertKeeps ==
    ASSUME NEW r, NEW n \in HeaderNames \ {"content-encoding", "content-length"}, NEW v
    PROVE  /\ n # "access-control-allow-origin" /\ Uncoded(r) => Uncoded(Insert(r, n, v))
           /\ \A a : Sound(r, a) => Sound(Insert(r, n, v), a)
<1>1. IsResponse(r) => Sets(Insert(r, n, v), r, n, v)
  BY InsertMeans, Zenon
<1>2. n # "content-encoding" /\ n # "content-length"
  OBVIOUS
<1>3. (Uncoded(r) => IsResponse(r)) /\ \A a : Sound(r, a) => IsResponse(r)
  BY Zenon DEF Uncoded, Sound
<1> QED
  BY <1>1, <1>2, <1>3, SetsKeeps, Zenon

(***************************************************************************)
(* A response without a length is uncoded.                                 *)
(***************************************************************************)
LEMMA ResponseUncoded ==
    ASSUME NEW by, NEW status, NEW payload
    PROVE  Uncoded(Response(by, status, payload))
<1> DEFINE r == Response(by, status, payload)
<1>1. Fresh(r, by, status, payload)
  BY ResponseMeans
<1> HIDE DEF r
<1>2. Uncoded(r)
  BY <1>1, NamedHeaders, Zenon DEF Fresh, Uncoded, SaysCoding, SaysLength, Bare
<1> QED
  BY <1>2 DEF r

(***************************************************************************)
(* A page is uncoded, under the length of the payload that GET is sent.    *)
(***************************************************************************)
LEMMA PageUncoded ==
    ASSUME NEW by, NEW status, NEW payload, NEW method \in {req.method, "GET"}
    PROVE  /\ Uncoded(Page(by, status, payload, method))
           /\ Page(by, status, payload, method).by = by
           /\ Page(by, status, payload, method).status = status
           /\ \A n \in HeaderNames \ {"content-length", "content-type"} :
                Page(by, status, payload, method).headers[n] = None
<1> DEFINE sent == IF method = "HEAD" THEN "empty" ELSE payload
           f == Response(by, status, sent)
           r == Insert(f, "content-type", "text")
           p == Insert(r, "content-length", payload)
<1>1. req.method = "GET" => sent = payload
  OBVIOUS
<1>2. Page(by, status, payload, method) = p
  BY DEF Page
<1> HIDE DEF sent
<1>3. Fresh(f, by, status, sent)
  BY ResponseMeans
<1> HIDE DEF f
<1>4. Sets(r, f, "content-type", "text")
  BY <1>3, NamedHeaders, InsertMeans, Zenon DEF Fresh
<1> HIDE DEF r
<1>5. Sets(p, r, "content-length", payload)
  <2>1. IsResponse(r)
    BY <1>4, Zenon DEF Sets
  <2> QED
    BY <2>1, NamedHeaders, InsertMeans, Zenon
<1> HIDE DEF p
<1>6. "content-type" # "content-length" /\ "content-type" # "content-encoding"
  OBVIOUS
<1>7. /\ IsResponse(p) /\ p.codings = << >> /\ p.payload = sent
      /\ p.by = by /\ p.status = status
  BY <1>3, <1>4, <1>5, Zenon DEF Sets, Fresh
<1>8. /\ p.headers["content-encoding"] = None /\ p.headers["content-length"] = payload
      /\ p.headers["access-control-allow-origin"] = None
      /\ \A n \in HeaderNames \ {"content-length", "content-type"} : p.headers[n] = None
  <2>1. \A n \in HeaderNames \ {"content-type"} : r.headers[n] = None
    BY <1>3, <1>4, Zenon DEF Sets, Fresh
  <2>2. \A n \in HeaderNames : p.headers[n] =
            IF n = "content-length" THEN payload ELSE r.headers[n]
    BY <1>5, Zenon DEF Sets
  <2> QED
    BY <1>6, <2>1, <2>2, NamedHeaders
<1>9. Uncoded(p)
  BY <1>1, <1>7, <1>8, Zenon DEF Uncoded, SaysCoding, SaysLength, Bare
<1> QED
  BY <1>2, <1>7, <1>8, <1>9

(***************************************************************************)
(* What is uncoded says the truth of its coding and length.                *)
(***************************************************************************)
LEMMA UncodedSound ==
    ASSUME NEW r, NEW a, Uncoded(r)
    PROVE  Sound(r, a) /\ Bare(r)
BY Zenon DEF Uncoded, Sound, CodedOnce

(***************************************************************************)
(* The stages before the file answer without coding, under the length of   *)
(* what they send if under any.                                            *)
(***************************************************************************)
LEMMA EarlyUncoded ==
    /\ Uncoded(Pass)
    /\ \A status : Uncoded(error_response(status))
    /\ Uncoded(health_pre_process) /\ Uncoded(metrics_pre_process)
    /\ Uncoded(cors_pre_process) /\ Uncoded(basic_auth_pre_process)
    /\ Uncoded(maintenance_pre_process)
    /\ Uncoded(redirects_pre_process) /\ Uncoded(rewrites_pre_process)
<1>1. {"content-type", "www-authenticate", "location"}
        \subseteq HeaderNames \ {"content-encoding", "content-length"}
  BY NamedHeaders
<1>2. Uncoded(Pass)
  BY ResponseUncoded DEF Pass, NoResponse
<1>3. \A status : Uncoded(error_response(status))
  BY PageUncoded, Zenon DEF error_response
<1>4. \A by, status, payload :
        Uncoded(Insert(Response(by, status, payload), "content-type", "text"))
  <2>1. \A by, status, payload : Uncoded(Response(by, status, payload))
    BY ResponseUncoded, Zenon
  <2>2. \A r : Uncoded(r) => Uncoded(Insert(r, "content-type", "text"))
    BY <1>1, InsertKeeps, Zenon
  <2> QED
    BY <2>1, <2>2, Zenon
<1>5. Uncoded(health_pre_process)
  BY <1>2, <1>4 DEF health_pre_process
<1>6. Uncoded(metrics_pre_process)
  BY <1>2, <1>4 DEF metrics_pre_process
<1>7. Uncoded(cors_pre_process)
  BY <1>2, <1>3 DEF cors_pre_process
<1>8. Uncoded(basic_auth_pre_process)
  <2>1. Uncoded(Insert(error_response(401), "www-authenticate", "basic"))
    <3>1. \A r, v : Uncoded(r) => Uncoded(Insert(r, "www-authenticate", v))
      BY <1>1, InsertKeeps, Zenon
    <3> QED
      BY <1>3, <3>1
  <2> QED
    BY <1>2, <1>3, <2>1 DEF basic_auth_pre_process
<1>9. Uncoded(maintenance_pre_process)
  <2>1. \A status : Uncoded(Page("maintenance", status, "maintenance", req.method))
    BY PageUncoded, Zenon
  <2> QED
    BY <1>2, <2>1 DEF maintenance_pre_process
<1>10. \A status, location : Uncoded(Redirection(status, location))
  <2>1. \A status : Uncoded(Response("redirect", status, "empty"))
    BY ResponseUncoded, Zenon
  <2>2. \A r, v : Uncoded(r) => Uncoded(Insert(r, "location", v))
    BY <1>1, InsertKeeps, Zenon
  <2> QED
    BY <2>1, <2>2, Zenon DEF Redirection
<1>11. Uncoded(redirects_pre_process)
  BY <1>2, <1>3, <1>10 DEF redirects_pre_process
<1>12. Uncoded(rewrites_pre_process)
  BY <1>2, <1>3, <1>10 DEF rewrites_pre_process
<1> QED
  BY <1>2, <1>3, <1>5, <1>6, <1>7, <1>8, <1>9, <1>11, <1>12

----------------------------------------------------------------------------
(***************************************************************************)
(* file_reply answers without coding, whatever the conditional headers     *)
(* make of the file.                                                       *)
(***************************************************************************)
LEMMA FileUncoded ==
    ASSUME resource \in Resource
    PROVE  Uncoded(FileReply)
<1>1. \A by, status, payload : Uncoded(Typed(Page(by, status, payload, "GET")))
  <2>1. \A by, status, payload : Uncoded(Page(by, status, payload, "GET"))
    BY PageUncoded, Zenon
  <2>2. \A r, v : Uncoded(r) => Uncoded(Insert(r, "content-type", v))
    BY NamedHeaders, InsertKeeps, Zenon
  <2> QED
    BY <2>1, <2>2, Zenon DEF Typed
<1>2. \A by, status, payload : Uncoded(Response(by, status, payload))
  BY ResponseUncoded, Zenon
<1>3. resource.cond \in {"whole", "part", "unmodified", "unsatisfiable"}
  BY DEF Resource
<1> QED
  BY <1>1, <1>2, <1>3 DEF FileReply

(***************************************************************************)
(* The variant of a file is a response like that of the file, but coded.   *)
(***************************************************************************)
LEMMA VariantShape ==
    ASSUME resource \in Resource, NEW coding
    PROVE  /\ IsResponse(VariantReply(coding)) /\ Bare(VariantReply(coding))
           /\ VariantReply(coding).codings = <<coding>>
           /\ VariantReply(coding).by = FileReply.by
<1>1. IsResponse(FileReply) /\ Bare(FileReply)
  BY FileUncoded, Zenon DEF Uncoded
<1> DEFINE f == FileReply
           r == VariantReply(coding)
<1>2. r = [f EXCEPT !.codings = <<coding>>,
                    !.payload = IF @ = "empty" THEN @ ELSE "variant"]
  BY DEF VariantReply
<1> HIDE DEF f, r
<1>3. f = [by |-> f.by, status |-> f.status, payload |-> f.payload,
           codings |-> f.codings, headers |-> f.headers]
  BY <1>1, Zenon DEF IsResponse, f
<1>4. r = [by |-> f.by, status |-> f.status,
           payload |-> IF f.payload = "empty" THEN f.payload ELSE "variant",
           codings |-> <<coding>>, headers |-> f.headers]
  BY <1>2, <1>3, Zenon
<1>5. f.headers = [n \in HeaderNames |-> f.headers[n]]
  BY <1>1, Zenon DEF IsResponse, f
<1>6. IsResponse(r) /\ r.codings = <<coding>> /\ r.headers = f.headers /\ r.by = f.by
  BY <1>4, <1>5, Zenon DEF IsResponse
<1> QED
  BY <1>1, <1>6, Zenon DEF Bare, f, r

(***************************************************************************)
(* A pre-compressed variant is coded once, as its header says, and has     *)
(* lost the length of the file it stands for.                              *)
(***************************************************************************)
LEMMA VariantSound ==
    ASSUME resource \in Resource, NEW a, NEW coding \in ContentCoding, Accepts(a, coding)
    PROVE  Sound(EncodedReply(coding), a) /\ Bare(EncodedReply(coding))
<1> DEFINE r == VariantReply(coding)
           p == Insert(r, "content-length", None)
           q == Insert(p, "content-encoding", <<coding>>)
<1>1. IsResponse(r) /\ r.codings = <<coding>> /\ Bare(r)
  BY VariantShape, Zenon
<1>2. EncodedReply(coding) = q
  BY DEF EncodedReply
<1> HIDE DEF r
<1>3. Sets(p, r, "content-length", None)
  BY <1>1, NamedHeaders, InsertMeans, Zenon
<1> HIDE DEF p
<1>4. Sets(q, p, "content-encoding", <<coding>>)
  <2>1. IsResponse(p)
    BY <1>3, Zenon DEF Sets
  <2> QED
    BY <2>1, NamedHeaders, InsertMeans, Zenon
<1> HIDE DEF q
<1>5. /\ IsResponse(q) /\ q.codings = <<coding>>
      /\ q.headers["content-encoding"] = <<coding>> /\ q.headers["content-length"] = None
      /\ q.headers["access-control-allow-origin"] = None
  <2>1. \A m \in HeaderNames : p.headers[m] =
            IF m = "content-length" THEN None ELSE r.headers[m]
    BY <1>3, Zenon DEF Sets
  <2>2. \A m \in HeaderNames : q.headers[m] =
            IF m = "content-encoding" THEN <<coding>> ELSE p.headers[m]
    BY <1>4, Zenon DEF Sets
  <2>3. IsResponse(q) /\ q.codings = <<coding>>
    BY <1>1, <1>3, <1>4, Zenon DEF Sets
  <2> QED
    BY <1>1, <2>1, <2>2, <2>3, NamedHeaders, Zenon DEF Bare
<1>6. <<coding>> # << >>
  OBVIOUS
<1> QED
  BY <1>2, <1>5, <1>6, Zenon DEF Sound, CodedOnce, SaysCoding, SaysLength, Bare

(***************************************************************************)
(* static_files::handle says the truth of the coding and length of what it *)
(* answers with; without compression_static it uses no coding.             *)
(***************************************************************************)
LEMMA StaticSound ==
    ASSUME resource \in Resource, NEW a \in AcceptEncoding
    PROVE  /\ Sound(StaticReply(a), a) /\ Bare(StaticReply(a))
           /\ ~opts.compression_static => Uncoded(StaticReply(a))
<1> DEFINE missing == [error_response(404) EXCEPT !.by = "nofile"]
           forbidden == [error_response(403) EXCEPT !.by = "nofile"]
           slash == Insert(Response("root", 308, "empty"), "location", <<uri.path, "/">>)
           allow == Insert(Response("root", 204, "empty"), "allow", Methods)
           listing == Page("root", 200, "listing", req.method)
<1>1. ASSUME NEW status PROVE Uncoded([error_response(status) EXCEPT !.by = "nofile"])
  <2> DEFINE e == error_response(status)
             q == [e EXCEPT !.by = "nofile"]
  <2>1. Uncoded(e)
    BY EarlyUncoded, Zenon
  <2> HIDE DEF e
  <2>2. /\ IsResponse(q) /\ q.codings = e.codings /\ q.payload = e.payload
        /\ q.headers = e.headers
    BY <2>1 DEF Uncoded, IsResponse
  <2> HIDE DEF q
  <2>3. Uncoded(q)
    BY <2>1, <2>2, Zenon DEF Uncoded, SaysCoding, SaysLength, Bare
  <2> QED
    BY <2>3 DEF q, e
<1>2. Uncoded(missing) /\ Uncoded(forbidden)
  BY <1>1
<1>3. \A status : Uncoded(Response("root", status, "empty"))
  BY ResponseUncoded, Zenon
<1>4. \A r, v : Uncoded(r) => /\ Uncoded(Insert(r, "location", v))
                              /\ Uncoded(Insert(r, "allow", v))
  BY NamedHeaders, InsertKeeps, Zenon
<1>5. Uncoded(slash) /\ Uncoded(allow)
  BY <1>3, <1>4
<1>6. Uncoded(listing)
  <2>1. \A status : Uncoded(Page("root", status, "listing", req.method))
    BY PageUncoded, Zenon
  <2> QED
    BY <2>1
<1>7. Uncoded(FileReply)
  BY FileUncoded, Zenon
<1>8. ASSUME Variants(a) # {}
      PROVE  /\ opts.compression_static
             /\ Sound(EncodedReply(Foremost(a, Variants(a))), a)
             /\ Bare(EncodedReply(Foremost(a, Variants(a))))
  <2>1. opts.compression_static /\ Variants(a) \in SUBSET get_encodings(a)
    BY <1>8 DEF Variants
  <2>2. /\ Foremost(a, Variants(a)) \in ContentCoding
        /\ Accepts(a, Foremost(a, Variants(a)))
    BY <1>8, <2>1, ForemostListed, Zenon DEF ContentCoding
  <2> QED
    BY <2>1, <2>2, VariantSound, Zenon
<1>9. StaticReply(a) =
        IF resource.kind = "missing" THEN missing
        ELSE IF resource.kind = "forbidden" THEN forbidden
        ELSE IF resource.kind = "dir" /\ uri.path \notin DOMAIN IndexUri THEN slash
        ELSE IF req.method = "OPTIONS" THEN allow
        ELSE IF resource.kind = "dir" THEN listing
        ELSE IF Variants(a) = {} THEN FileReply
        ELSE EncodedReply(Foremost(a, Variants(a)))
  BY DEF StaticReply
<1> HIDE DEF missing, forbidden, slash, allow, listing
<1>10. CASE StaticReply(a) \in {missing, forbidden, slash, allow, listing, FileReply}
  <2>1. Uncoded(StaticReply(a))
    BY <1>2, <1>5, <1>6, <1>7, <1>10
  <2> QED
    BY <2>1, UncodedSound, Zenon
<1>11. CASE Variants(a) # {} /\ StaticReply(a) = EncodedReply(Foremost(a, Variants(a)))
  BY <1>8, <1>11, Zenon
<1> QED
  BY <1>9, <1>10, <1>11

----------------------------------------------------------------------------
\* q is r with at most the headers N changed.
Touches(q, r, N) ==
    /\ IsResponse(q)
    /\ q.by = r.by /\ q.status = r.status /\ q.payload = r.payload /\ q.codings = r.codings
    /\ \A m \in HeaderNames \ N : q.headers[m] = r.headers[m]

CorsHeaders ==
    {"access-control-allow-origin", "access-control-allow-methods",
     "access-control-allow-headers", "access-control-expose-headers", "allow"}

\* The headers the configuration sets for the URI.
Custom == {n \in HeaderNames : CustomEntries(n) # {}}

\* cors_post_process has an origin to announce.
Announcing == opts.cors.enabled /\ req.origin # None /\ CorsAllows(opts, req)

(***************************************************************************)
(* Changes of other headers leave what is said of coding and length.       *)
(***************************************************************************)
LEMMA TouchesKeeps ==
    ASSUME NEW q, NEW r, NEW N, Touches(q, r, N), NEW a
    PROVE  /\ CodedOnce(r, a) => CodedOnce(q, a)
           /\ "content-encoding" \notin N /\ SaysCoding(r) => SaysCoding(q)
           /\ "content-length" \notin N /\ SaysLength(r) => SaysLength(q)
<1>1. /\ q.codings = r.codings /\ q.payload = r.payload
      /\ "content-encoding" \notin N =>
            q.headers["content-encoding"] = r.headers["content-encoding"]
      /\ "content-length" \notin N =>
            q.headers["content-length"] = r.headers["content-length"]
  BY NamedHeaders, Zenon DEF Touches
<1> QED
  BY <1>1, Zenon DEF SaysCoding, SaysLength, CodedOnce

(***************************************************************************)
(* The changes of one step after another add up.                           *)
(***************************************************************************)
LEMMA TouchesChain ==
    ASSUME NEW p, NEW q, NEW r, NEW N, NEW M, Touches(p, q, N), Touches(q, r, M)
    PROVE  Touches(p, r, N \cup M)
BY Zenon DEF Touches

(***************************************************************************)
(* fallback_post_process replaces a whole response, by a page that says    *)
(* the truth of itself.                                                    *)
(***************************************************************************)
LEMMA FallbackPost ==
    ASSUME NEW r, NEW a, Sound(r, a), Bare(r)
    PROVE  /\ Sound(fallback_post_process(r), a) /\ Bare(fallback_post_process(r))
           /\ Uncoded(r) => Uncoded(fallback_post_process(r))
           /\ fallback_post_process(r).by \in {r.by, "fallback"}
<1> DEFINE page == Page("fallback", 200, "fallback", "GET")
<1>1. Uncoded(page) /\ page.by = "fallback"
  BY PageUncoded
<1>2. fallback_post_process(r) \in {r, page}
  BY DEF fallback_post_process
<1> HIDE DEF page
<1> QED
  BY <1>1, <1>2, UncodedSound

(***************************************************************************)
(* cors_post_process announces the origin of an allowed request and what   *)
(* it may do, and changes no other header.                                 *)
(***************************************************************************)
LEMMA CorsPost ==
    ASSUME NEW r, IsResponse(r)
    PROVE  /\ Touches(cors_post_process(r), r, CorsHeaders)
           /\ ~Announcing => cors_post_process(r) = r
           /\ Announcing =>
                /\ cors_post_process(r).headers["access-control-allow-origin"] = req.origin
                /\ cors_post_process(r).headers["access-control-allow-methods"] = Methods
                /\ cors_post_process(r).headers["access-control-allow-headers"]
                        = opts.cors.headers
<1>1. Touches(r, r, CorsHeaders)
  BY Zenon DEF Touches
<1>2. CASE ~Announcing
  BY <1>1, <1>2, Zenon DEF cors_post_process, Announcing
<1>3. CASE Announcing
  <2> DEFINE h == [n \in HeaderNames |->
            CASE n = "access-control-allow-origin" -> req.origin
              [] n = "access-control-allow-methods" -> Methods
              [] n = "access-control-allow-headers" -> opts.cors.headers
              [] n = "access-control-expose-headers" -> opts.cors.exposed
              [] n = "allow" -> None
              [] OTHER -> r.headers[n]]
             q == [by |-> r.by, status |-> r.status, payload |-> r.payload,
                   codings |-> r.codings, headers |-> h]
  <2>1. cors_post_process(r) =
            [r EXCEPT !.headers["access-control-allow-origin"] = req.origin,
                      !.headers["access-control-allow-methods"] = Methods,
                      !.headers["access-control-allow-headers"] = opts.cors.headers,
                      !.headers["access-control-expose-headers"] = opts.cors.exposed,
                      !.headers["allow"] = None]
    BY <1>3, Zenon DEF cors_post_process, Announcing
  <2>2. cors_post_process(r) = q
    <3> DEFINE g == r.headers
               k == [g EXCEPT !["access-control-allow-origin"] = req.origin,
                              !["access-control-allow-methods"] = Methods,
                              !["access-control-allow-headers"] = opts.cors.headers,
                              !["access-control-expose-headers"] = opts.cors.exposed,
                              !["allow"] = None]
    <3>1. cors_post_process(r) = [by |-> r.by, status |-> r.status, payload |-> r.payload,
                                  codings |-> r.codings, headers |-> k]
      BY <2>1, ZenonT(40) DEF IsResponse
    <3>2. g = [n \in HeaderNames |-> g[n]]
      BY Zenon DEF IsResponse
    <3>3. k = h
      <4> HIDE DEF g
      <4>1. k = [n \in HeaderNames |-> k[n]] /\ h = [n \in HeaderNames |-> h[n]]
        BY <3>2, Zenon
      <4>2. \A n \in HeaderNames : k[n] = h[n]
        BY <3>2 DEF g
      <4> HIDE DEF h, k
      <4> QED
        BY <4>1, <4>2
    <3> QED
      BY <3>1, <3>3
  <2>3. /\ h["access-control-allow-origin"] = req.origin
        /\ h["access-control-allow-methods"] = Methods
        /\ h["access-control-allow-headers"] = opts.cors.headers
        /\ \A m \in HeaderNames \ CorsHeaders : h[m] = r.headers[m]
        /\ h = [n \in HeaderNames |-> h[n]]
    BY NamedHeaders DEF CorsHeaders
  <2> HIDE DEF h
  <2>4. IsResponse(q) /\ q.headers = h
    BY <2>3 DEF IsResponse
  <2>5. Touches(q, r, CorsHeaders)
    BY <2>3, <2>4 DEF Touches
  <2> QED
    BY <1>3, <2>2, <2>3, <2>4, <2>5
<1> QED
  BY <1>2, <1>3

(***************************************************************************)
(* With compression_static every response varies by Accept-Encoding.       *)
(***************************************************************************)
LEMMA StaticVary ==
    ASSUME NEW r, IsResponse(r)
    PROVE  /\ Touches(compression_static_post_process(r), r, {"vary"})
           /\ opts.compression_static =>
                compression_static_post_process(r).headers["vary"] = "accept-encoding"
<1>1. Sets(Insert(r, "vary", "accept-encoding"), r, "vary", "accept-encoding")
  BY NamedHeaders, InsertMeans, Zenon
<1>2. Touches(r, r, {"vary"})
  BY Zenon DEF Touches
<1>3. /\ Touches(Insert(r, "vary", "accept-encoding"), r, {"vary"})
      /\ Insert(r, "vary", "accept-encoding").headers["vary"] = "accept-encoding"
  BY <1>1, NamedHeaders, Zenon DEF Touches, Sets
<1> QED
  BY <1>2, <1>3, Zenon DEF compression_static_post_process

(***************************************************************************)
(* The encoders code an uncoded payload once, replace its length by the    *)
(* coding and change no other header.                                      *)
(***************************************************************************)
LEMMA EncodeMeans ==
    ASSUME NEW r, NEW a, Sound(r, a), r.headers["content-encoding"] = None,
           NEW coding \in ContentCoding, Accepts(a, coding)
    PROVE  /\ Sound(Encode(r, coding), a)
           /\ Encode(r, coding).by = r.by
           /\ \A m \in HeaderNames \ {"content-encoding", "content-length"} :
                Encode(r, coding).headers[m] = r.headers[m]
<1> DEFINE x == [r EXCEPT !.codings = Append(@, coding)]
           p == Insert(x, "content-length", None)
           q == Insert(p, "content-encoding", <<coding>>)
<1>1. r.codings = << >>
  BY OptionsAssumption, Zenon DEF Sound, CodedOnce, SaysCoding
<1>2. /\ x = [by |-> r.by, status |-> r.status, payload |-> r.payload,
              codings |-> Append(r.codings, coding), headers |-> r.headers]
      /\ r.headers = [n \in HeaderNames |-> r.headers[n]]
  BY SMTT(40) DEF Sound, IsResponse
<1>3. Append(r.codings, coding) = <<coding>>
  BY <1>1
<1>4. IsResponse(x) /\ x.by = r.by /\ x.codings = <<coding>> /\ x.headers = r.headers
  <2> HIDE DEF x
  <2> QED
    BY <1>2, <1>3 DEF IsResponse
<1>5. Encode(r, coding) = q
  BY DEF Encode, create_encoding_header
<1> HIDE DEF x
<1>6. Sets(p, x, "content-length", None)
  BY <1>4, NamedHeaders, InsertMeans, Zenon
<1> HIDE DEF p
<1>7. Sets(q, p, "content-encoding", <<coding>>)
  <2>1. IsResponse(p)
    BY <1>6, Zenon DEF Sets
  <2> QED
    BY <2>1, NamedHeaders, InsertMeans, Zenon
<1> HIDE DEF q
<1>8. IsResponse(q) /\ q.codings = <<coding>> /\ q.by = r.by
  BY <1>4, <1>6, <1>7, Zenon DEF Sets
<1>9. /\ q.headers["content-encoding"] = <<coding>> /\ q.headers["content-length"] = None
      /\ \A m \in HeaderNames \ {"content-encoding", "content-length"} :
            q.headers[m] = r.headers[m]
  <2>1. \A m \in HeaderNames : p.headers[m] =
            IF m = "content-length" THEN None ELSE r.headers[m]
    BY <1>4, <1>6, Zenon DEF Sets
  <2>2. \A m \in HeaderNames : q.headers[m] =
            IF m = "content-encoding" THEN <<coding>> ELSE p.headers[m]
    BY <1>7, Zenon DEF Sets
  <2> QED
    BY <2>1, <2>2, NamedHeaders
<1>10. <<coding>> # << >>
  OBVIOUS
<1>11. Sound(q, a)
  BY <1>8, <1>9, <1>10, Zenon DEF Sound, CodedOnce, SaysCoding, SaysLength
<1> QED
  BY <1>5, <1>8, <1>9, <1>11

(***************************************************************************)
(* Compression on the fly never codes a payload again, and what it might   *)
(* have coded for another client varies by Accept-Encoding.                *)
(***************************************************************************)
LEMMA CompressionPost ==
    ASSUME NEW r, NEW a \in AcceptEncoding, Sound(r, a)
    PROVE  /\ Sound(compression_post_process(r, a), a)
           /\ compression_post_process(r, a).by = r.by
           /\ \A m \in HeaderNames \ {"content-encoding", "content-length", "vary"} :
                compression_post_process(r, a).headers[m] = r.headers[m]
           /\ compression_post_process(r, a).headers["vary"]
                \in {r.headers["vary"], "accept-encoding"}
           /\ opts.compression /\ r.headers["content-encoding"] = None =>
                compression_post_process(r, a).headers["vary"] = "accept-encoding"
           /\ ~opts.compression => compression_post_process(r, a) = r
<1> DEFINE v == Insert(r, "vary", "accept-encoding")
           q == auto(v, a)
           coding == get_preferred_encoding(a)
<1>1. CASE ~(opts.compression /\ r.headers["content-encoding"] = None)
  BY <1>1, Zenon DEF compression_post_process
<1>2. CASE opts.compression /\ r.headers["content-encoding"] = None
  <2>1. compression_post_process(r, a) = q
    BY <1>2, Zenon DEF compression_post_process
  <2>2. IsResponse(r)
    BY Zenon DEF Sound
  <2>3. Sets(v, r, "vary", "accept-encoding") /\ "vary" \in HeaderNames
        /\ "vary" # "content-encoding" /\ "vary" # "content-length"
    BY <2>2, NamedHeaders, InsertMeans
  <2>4. q = v \/ (coding # IDENTITY /\ q = Encode(v, coding))
    BY Zenon DEF auto
  <2> HIDE DEF v
  <2>5. Sound(v, a)
    BY <2>3, SetsKeeps, Zenon
  <2>6. /\ v.by = r.by /\ v.headers["vary"] = "accept-encoding"
        /\ v.headers["content-encoding"] = None
        /\ \A m \in HeaderNames \ {"vary"} : v.headers[m] = r.headers[m]
    BY <1>2, <2>3, NamedHeaders, Zenon DEF Sets
  <2>7. ASSUME coding # IDENTITY
        PROVE  coding \in ContentCoding /\ Accepts(a, coding)
    <3>1. get_encodings(a) # {} /\ coding = Foremost(a, get_encodings(a))
      BY <2>7, Zenon DEF get_preferred_encoding
    <3> HIDE DEF coding
    <3> QED
      BY <3>1, ForemostListed, Zenon DEF ContentCoding
  <2> HIDE DEF q, coding
  <2>8. /\ Sound(q, a) /\ q.by = v.by
        /\ \A m \in HeaderNames \ {"content-encoding", "content-length"} :
            q.headers[m] = v.headers[m]
    <3>1. CASE q = v
      BY <2>5, <3>1, Zenon
    <3>2. CASE coding # IDENTITY /\ q = Encode(v, coding)
      BY <2>5, <2>6, <2>7, <3>2, EncodeMeans, Zenon
    <3> QED
      BY <2>4, <3>1, <3>2
  <2>9. /\ q.headers["vary"] = "accept-encoding" /\ q.by = r.by
        /\ \A m \in HeaderNames \ {"content-encoding", "content-length", "vary"} :
            q.headers[m] = r.headers[m]
    BY <2>3, <2>6, <2>8
  <2> QED
    BY <1>2, <2>1, <2>8, <2>9
<1> QED
  BY <1>1, <1>2

(***************************************************************************)
(* The last stages set Cache-Control, the security headers and what the    *)
(* configuration adds for the URI.                                         *)
(***************************************************************************)
LEMMA LastPost ==
    ASSUME NEW r, IsResponse(r)
    PROVE  Touches(custom_headers_post_process(security_headers_post_process(
                        control_headers_post_process(r))),
                   r, Custom \cup (SecurityHeaders \cup {"cache-control"}))
<1> DEFINE p == control_headers_post_process(r)
           q == security_headers_post_process(p)
           x == custom_headers_post_process(q)
<1>1. Touches(p, r, {"cache-control"})
  <2>1. Sets(Insert(r, "cache-control", "max-age"), r, "cache-control", "max-age")
    BY NamedHeaders, InsertMeans, Zenon
  <2>2. Touches(Insert(r, "cache-control", "max-age"), r, {"cache-control"})
    BY <2>1, Zenon DEF Touches, Sets
  <2>3. Touches(r, r, {"cache-control"})
    BY Zenon DEF Touches
  <2> QED
    BY <2>2, <2>3, Zenon DEF control_headers_post_process
<1> HIDE DEF p
<1>2. Touches(q, p, SecurityHeaders)
  <2>1. IsResponse(p)
    BY <1>1, Zenon DEF Touches
  <2>2. CASE ~opts.security_headers
    BY <2>1, <2>2, Zenon DEF security_headers_post_process, Touches
  <2>3. CASE opts.security_headers
    BY <2>1, <2>3 DEF security_headers_post_process, Touches, IsResponse
  <2> QED
    BY <2>2, <2>3
<1> HIDE DEF q
<1>3. Touches(x, q, Custom)
  <2>1. IsResponse(q)
    BY <1>2, Zenon DEF Touches
  <2> QED
    BY <2>1 DEF custom_headers_post_process, Touches, IsResponse, Custom
<1> HIDE DEF x
<1>4. Touches(q, r, SecurityHeaders \cup {"cache-control"})
  BY <1>1, <1>2, TouchesChain, Zenon
<1>5. Touches(x, r, Custom \cup (SecurityHeaders \cup {"cache-control"}))
  BY <1>3, <1>4, TouchesChain, Zenon
<1> QED
  BY <1>5 DEF x, q, p

----------------------------------------------------------------------------
\* What is said in the answer to a request that reaches the file.
Answers(q, a) ==
    /\ CodedOnce(q, a)
    /\ "content-encoding" \notin Custom => SaysCoding(q)
    /\ "content-length" \notin Custom => SaysLength(q)
    /\ IF opts.compression \/ opts.compression_static
       THEN "vary" \notin Custom => q.headers["vary"] = "accept-encoding"
       ELSE q.codings = << >>
    /\ "access-control-allow-origin" \notin Custom =>
        q.headers["access-control-allow-origin"] = IF Announcing THEN req.origin ELSE None
    /\ Announcing =>
        /\ "access-control-allow-methods" \notin Custom =>
            q.headers["access-control-allow-methods"] = Methods
        /\ "access-control-allow-headers" \notin Custom =>
            q.headers["access-control-allow-headers"] = opts.cors.headers

(***************************************************************************)
(* What comes from the disk is answered by the root, an error page in its  *)
(* place by nobody's file.                                                 *)
(***************************************************************************)
LEMMA StaticBy ==
    ASSUME NEW a, resource \in Resource
    PROVE  StaticReply(a).by \in {"root", "nofile"}
<1>1. ASSUME NEW status PROVE [error_response(status) EXCEPT !.by = "nofile"].by = "nofile"
  <2>1. IsResponse(error_response(status))
    BY EarlyUncoded, Zenon DEF Uncoded
  <2> QED
    BY <2>1 DEF IsResponse
<1>2. \A status, payload, n, v :
        /\ Insert(Response("root", status, payload), n, v).by = "root"
        /\ Response("root", status, payload).by = "root"
        /\ Page("root", status, payload, req.method).by = "root"
  <2>1. \A status, payload : Response("root", status, payload).by = "root"
    BY DEF Response
  <2>2. \A status, payload, n, v : Insert(Response("root", status, payload), n, v).by = "root"
    BY DEF Insert, Response
  <2>3. \A status, payload : Page("root", status, payload, req.method).by = "root"
    BY PageBy
  <2> QED
    BY <2>1, <2>2, <2>3, Zenon
<1>3. FileReply.by = "root" /\ IsResponse(FileReply)
  <2>1. \A status, payload : Typed(Page("root", status, payload, "GET")).by = "root"
    BY PageBy DEF Typed
  <2>2. resource.cond \in {"whole", "part", "unmodified", "unsatisfiable"}
    BY DEF Resource
  <2>3. FileReply.by = "root"
    BY <1>2, <2>1, <2>2 DEF FileReply
  <2> QED
    BY <2>3, FileUncoded, Zenon DEF Uncoded
<1>4. \A coding : EncodedReply(coding).by = "root"
  <2>1. \A coding : /\ IsResponse(VariantReply(coding))
                    /\ VariantReply(coding).by = "root"
    BY <1>3, VariantShape, Zenon
  <2>2. \A r, n, m, v, w : IsResponse(r) => Insert(Insert(r, n, v), m, w).by = r.by
    BY DEF Insert, IsResponse
  <2>3. ASSUME NEW coding PROVE EncodedReply(coding).by = "root"
    <3> DEFINE r == VariantReply(coding)
    <3>1. EncodedReply(coding) =
            Insert(Insert(r, "content-length", None), "content-encoding", <<coding>>)
      BY DEF EncodedReply
    <3>2. IsResponse(r) /\ r.by = "root"
      BY <2>1, Zenon
    <3> HIDE DEF r
    <3> QED
      BY <2>2, <3>1, <3>2
  <2> QED
    BY <2>3
<1> QED
  BY <1>1, <1>2, <1>3, <1>4 DEF StaticReply

(***************************************************************************)
(* The answer to a request that reaches the file says the truth of its     *)
(* coding and length, varies where it was negotiated and announces the     *)
(* origin, except in headers the configuration overrides.                  *)
(***************************************************************************)
LEMMA AnswerMeans ==
    ASSUME NEW a \in AcceptEncoding, resource \in Resource
    PROVE  /\ IsResponse(StaticAnswer(a))
           /\ Answers(StaticAnswer(a), a)
           /\ StaticAnswer(a).by \in {"root", "nofile", "fallback"}
<1> DEFINE s == StaticReply(a)
           f == fallback_post_process(s)
           c == cors_post_process(f)
           v == compression_static_post_process(c)
           z == compression_post_process(v, a)
           q == custom_headers_post_process(security_headers_post_process(
                    control_headers_post_process(z)))
           N == Custom \cup (SecurityHeaders \cup {"cache-control"})
<1>1. StaticAnswer(a) = q
  BY DEF StaticAnswer, PostProcess
<1>2. /\ Sound(s, a) /\ Bare(s) /\ s.by \in {"root", "nofile"}
      /\ ~opts.compression_static => Uncoded(s)
  BY StaticSound, StaticBy, Zenon
<1> HIDE DEF s
<1>3. /\ Sound(f, a) /\ Bare(f) /\ f.by \in {"root", "nofile", "fallback"}
      /\ ~opts.compression_static => Uncoded(f)
  BY <1>2, FallbackPost
<1> HIDE DEF f
<1>4. /\ IsResponse(f)
      /\ Touches(c, f, CorsHeaders)
      /\ ~Announcing => c = f
      /\ Announcing =>
            /\ c.headers["access-control-allow-origin"] = req.origin
            /\ c.headers["access-control-allow-methods"] = Methods
            /\ c.headers["access-control-allow-headers"] = opts.cors.headers
  <2>1. IsResponse(f)
    BY <1>3, Zenon DEF Sound
  <2> QED
    BY <2>1, CorsPost, Zenon
<1> HIDE DEF c
<1>5. /\ Touches(v, c, {"vary"})
      /\ opts.compression_static => v.headers["vary"] = "accept-encoding"
  <2>1. IsResponse(c)
    BY <1>4, Zenon DEF Touches
  <2> QED
    BY <2>1, StaticVary, Zenon
<1> HIDE DEF v
<1>6. /\ "content-encoding" \notin CorsHeaders /\ "content-length" \notin CorsHeaders
      /\ "content-encoding" \notin {"vary"} /\ "content-length" \notin {"vary"}
  BY DEF CorsHeaders
<1>7. Sound(v, a)
  <2>1. CodedOnce(c, a) /\ SaysCoding(c) /\ SaysLength(c)
    BY <1>3, <1>4, <1>6, TouchesKeeps, Zenon DEF Sound
  <2>2. CodedOnce(v, a) /\ SaysCoding(v) /\ SaysLength(v)
    BY <1>5, <1>6, <2>1, TouchesKeeps, Zenon
  <2> QED
    BY <1>5, <2>2, Zenon DEF Sound, Touches
<1>8. ~opts.compression_static => v.codings = << >> /\ v.headers["content-encoding"] = None
  <2>1. v.codings = f.codings
    BY <1>4, <1>5, Zenon DEF Touches
  <2>2. ~opts.compression_static => f.codings = << >>
    BY <1>3, Zenon DEF Uncoded
  <2> QED
    BY <1>7, <2>1, <2>2, Zenon DEF Sound, SaysCoding
<1>9. /\ Sound(z, a) /\ z.by = v.by
      /\ \A m \in HeaderNames \ {"content-encoding", "content-length", "vary"} :
            z.headers[m] = v.headers[m]
      /\ z.headers["vary"] \in {v.headers["vary"], "accept-encoding"}
      /\ opts.compression /\ v.headers["content-encoding"] = None =>
            z.headers["vary"] = "accept-encoding"
      /\ ~opts.compression => z = v
  BY <1>7, CompressionPost, Zenon
<1> HIDE DEF z
<1>10. Touches(q, z, N)
  <2>1. IsResponse(z)
    BY <1>9, Zenon DEF Sound
  <2> QED
    BY <2>1, LastPost, Zenon
<1> HIDE DEF q
<1>11. \A m \in HeaderNames \ (SecurityHeaders \cup {"cache-control"}) :
            m \notin Custom => q.headers[m] = z.headers[m]
  BY <1>10, Zenon DEF Touches
<1>12. /\ {"content-encoding", "content-length", "vary", "access-control-allow-origin",
           "access-control-allow-methods", "access-control-allow-headers"}
            \subseteq HeaderNames \ (SecurityHeaders \cup {"cache-control"})
       /\ {"access-control-allow-origin", "access-control-allow-methods",
           "access-control-allow-headers"}
            \subseteq HeaderNames \ {"content-encoding", "content-length", "vary"}
  BY DEF HeaderNames, SecurityHeaders
<1> HIDE DEF N
<1>13. /\ CodedOnce(q, a)
       /\ "content-encoding" \notin Custom => SaysCoding(q)
       /\ "content-length" \notin Custom => SaysLength(q)
  <2>1. CodedOnce(z, a) /\ SaysCoding(z) /\ SaysLength(z)
    BY <1>9, Zenon DEF Sound
  <2>2. /\ "content-encoding" \notin Custom => "content-encoding" \notin N
        /\ "content-length" \notin Custom => "content-length" \notin N
    BY <1>12 DEF N
  <2> QED
    BY <1>10, <2>1, <2>2, TouchesKeeps, Zenon
<1>14. IF opts.compression \/ opts.compression_static
       THEN "vary" \notin Custom => q.headers["vary"] = "accept-encoding"
       ELSE q.codings = << >>
  <2>1. opts.compression \/ opts.compression_static =>
            z.headers["vary"] = "accept-encoding"
    BY <1>5, <1>8, <1>9
  <2>2. "vary" \notin Custom => q.headers["vary"] = z.headers["vary"]
    BY <1>11, <1>12
  <2>3. ~opts.compression /\ ~opts.compression_static => z.codings = << >>
    BY <1>8, <1>9
  <2>4. q.codings = z.codings
    BY <1>10, Zenon DEF Touches
  <2> QED
    BY <2>1, <2>2, <2>3, <2>4
<1>15. \A m \in {"access-control-allow-origin", "access-control-allow-methods",
                 "access-control-allow-headers"} :
            m \notin Custom => q.headers[m] = c.headers[m]
  <2>1. \A m \in HeaderNames \ {"vary"} : v.headers[m] = c.headers[m]
    BY <1>5, Zenon DEF Touches
  <2> QED
    BY <1>9, <1>11, <1>12, <2>1
<1>16. ~Announcing => c.headers["access-control-allow-origin"] = None
  BY <1>3, <1>4, Zenon DEF Bare
<1>17. q.by \in {"root", "nofile", "fallback"}
  <2>1. q.by = f.by
    BY <1>4, <1>5, <1>9, <1>10, Zenon DEF Touches
  <2> QED
    BY <1>3, <2>1
<1>18. IsResponse(q)
  BY <1>10, Zenon DEF Touches
<1>19. Answers(q, a)
  BY <1>4, <1>13, <1>14, <1>15, <1>16 DEF Answers
<1> QED
  BY <1>1, <1>17, <1>18, <1>19

----------------------------------------------------------------------------
(***************************************************************************)
(* The invariant behind the properties of the answer.  Where compression   *)
(* is on at all the answer varies by Accept-Encoding; where it is off      *)
(* nothing is coded.                                                       *)
(***************************************************************************)
VaryInv ==
    Served =>
        IF opts.compression \/ opts.compression_static
        THEN ~Overridden("vary") => resp.headers["vary"] = "accept-encoding"
        ELSE resp.codings = << >>

AnswerInv == LengthTruthful /\ EncodedOnce /\ VaryInv /\ CorsAnnounced /\ RewrittenRoot

\* The Host header after the rewrites, by which the root is chosen.
RouteInv ==
    pc = "static" =>
        \A i \in DOMAIN opts.rewrites :
            FirstRewrite(i) /\ req.authority \in {None, req.host} =>
                uri.host = IF opts.rewrites[i].host # None THEN opts.rewrites[i].host
                           ELSE req.host

KnownInv ==
    /\ opts \in Options
    /\ pc # "idle" => req \in Requests[opts] /\ resource \in Resources[opts]

HandlerInv == GateInv /\ KnownInv /\ RouteInv /\ AnswerInv

(***************************************************************************)
(* Where there is no answer nothing is said of one.                        *)
(***************************************************************************)
LEMMA NotAnswered ==
    ASSUME pc' # "done"
    PROVE  AnswerInv'
BY DEF AnswerInv, LengthTruthful, EncodedOnce, VaryInv, CorsAnnounced, RewrittenRoot, Served

(***************************************************************************)
(* A stage before the file that answers says the truth of its answer.      *)
(***************************************************************************)
LEMMA StageAnswers ==
    ASSUME NEW stage, NEW answer, NEW next, answer.by \in Early, Uncoded(answer),
           Stage(stage, answer, next)
    PROVE  AnswerInv'
<1>1. resp' = answer /\ req' = req
  BY DEF Stage
<1>2. ~Served'
  BY <1>1 DEF Served
<1>3. LengthTruthful'
  BY <1>1, Zenon DEF LengthTruthful, Uncoded, SaysLength
<1>4. EncodedOnce'
  <2>1. resp'.codings = << >> /\ resp'.headers["content-encoding"] = None
    BY <1>1, Zenon DEF Uncoded, SaysCoding
  <2>2. Len(<< >>) = 0 /\ DOMAIN << >> = {}
    OBVIOUS
  <2> QED
    BY <2>1, <2>2 DEF EncodedOnce
<1> QED
  BY <1>2, <1>3, <1>4, Zenon DEF AnswerInv, VaryInv, CorsAnnounced, RewrittenRoot

(***************************************************************************)
(* The root directory is the one of the Host header, and has a name of its *)
(* own.                                                                    *)
(***************************************************************************)
LEMMA RootMeans ==
    ASSUME opts \in Options
    PROVE  Root = RootOf(opts, uri.host) /\ Root \notin Early
<1>1. Root = RootOf(opts, uri.host)
  BY Zenon DEF Root, RootOf, HostMatches, First
<1>2. CASE HostMatches = {}
  <2>1. Root = opts.root_dir
    BY <1>2 DEF Root
  <2>2. opts.root_dir \notin Early
    BY OptionsAssumption, Zenon
  <2> QED
    BY <1>1, <2>1, <2>2, Zenon
<1>3. CASE HostMatches # {}
  <2> DEFINE i == CHOOSE i \in HostMatches : \A j \in HostMatches : i <= j
  <2>1. HostMatches \in SUBSET DOMAIN opts.virtual_hosts
    BY DEF HostMatches
  <2>2. DOMAIN opts.virtual_hosts \in SUBSET Nat
    BY OptionsAssumption
  <2>3. \E k \in HostMatches : \A j \in HostMatches : k <= j
    BY <1>3, <2>1, <2>2, LeastPlace
  <2>4. i \in HostMatches
    BY <2>3, Zenon
  <2>5. Root = opts.virtual_hosts[i].root
    BY <1>3 DEF Root, First
  <2> HIDE DEF i
  <2> QED
    BY <1>1, <2>1, <2>4, <2>5, OptionsAssumption
<1> QED
  BY <1>1, <1>2, <1>3

(***************************************************************************)
(* A rule that is the first to match is the one rewrites_pre_process takes *)
(***************************************************************************)
LEMMA FirstRewriteTaken ==
    ASSUME opts \in Options, uri = UriOf(req),
           NEW i \in DOMAIN opts.rewrites, FirstRewrite(i)
    PROVE  Rewritten /\ First(opts.rewrites, RewriteMatches) = opts.rewrites[i]
<1>1. DOMAIN opts.rewrites = 1 .. Len(opts.rewrites)
  BY OptionsAssumption
<1>2. uri.path = req.path
  BY DEF UriOf
<1>3. i \in RewriteMatches /\ RewriteMatches \in SUBSET DOMAIN opts.rewrites
  BY <1>2 DEF RewriteMatches, FirstRewrite
<1>4. ASSUME NEW j \in RewriteMatches PROVE i <= j
  <2>1. j \in DOMAIN opts.rewrites /\ req.path \in opts.rewrites[j].source
    BY <1>2 DEF RewriteMatches
  <2>2. ~(j \in 1 .. i - 1)
    BY <2>1, Zenon DEF FirstRewrite
  <2>3. i \in Nat /\ j \in Nat /\ 1 <= j
    BY <1>1, <2>1
  <2> QED
    BY <2>2, <2>3
<1> DEFINE k == CHOOSE k \in RewriteMatches : \A j \in RewriteMatches : k <= j
<1>5. k \in RewriteMatches /\ \A j \in RewriteMatches : k <= j
  BY <1>3, <1>4, Zenon
<1>6. First(opts.rewrites, RewriteMatches) = opts.rewrites[k]
  BY DEF First
<1> HIDE DEF k
<1>7. k = i
  BY <1>1, <1>3, <1>4, <1>5
<1> QED
  BY <1>3, <1>6, <1>7 DEF Rewritten

(***************************************************************************)
(* The internal rewrite leaves the Host header of its destination, or the  *)
(* one the request came for.                                               *)
(***************************************************************************)
LEMMA RewriteRoutes ==
    ASSUME HandlerInv, Rewrites
    PROVE  RouteInv'
<1>1. pc = "rewrites" /\ UNCHANGED <<opts, req>> /\ uri = UriOf(req) /\ opts \in Options
  BY DEF Rewrites, Stage, HandlerInv, GateInv, KnownInv
<1>2. SUFFICES ASSUME pc' = "static", NEW i \in DOMAIN opts.rewrites, FirstRewrite(i),
                      req.authority \in {None, req.host}
               PROVE  uri'.host = IF opts.rewrites[i].host # None THEN opts.rewrites[i].host
                                  ELSE req.host
  BY <1>1 DEF RouteInv, FirstRewrite
<1>3. Rewritten /\ First(opts.rewrites, RewriteMatches) = opts.rewrites[i]
  BY <1>1, <1>2, FirstRewriteTaken, Zenon
<1>4. rewrites_pre_process = Pass
  BY <1>2 DEF Rewrites, Stage
<1>5. uri' = RewrittenUri
  BY <1>3, <1>4 DEF Rewrites
<1>6. uri.authority = req.authority /\ uri.host = req.host
  BY <1>1 DEF UriOf
<1>7. uri'.host =
        LET authority == IF opts.rewrites[i].host # None THEN opts.rewrites[i].host
                         ELSE uri.authority
        IN  IF authority # None THEN authority ELSE uri.host
  BY <1>3, <1>5 DEF RewrittenUri
<1> QED
  BY <1>2, <1>6, <1>7

(***************************************************************************)
(* The static file stage answers as AnswerMeans says, from the root that   *)
(* the Host header names.                                                  *)
(***************************************************************************)
LEMMA FileAnswers ==
    ASSUME HandlerInv, StaticFile
    PROVE  AnswerInv'
<1> DEFINE q == StaticAnswer(req.accept)
<1>1. /\ pc = "static" /\ pc' = "done" /\ UNCHANGED <<opts, resource, req, uri>>
      /\ resp' = [q EXCEPT !.by = IF @ = "root" THEN Root ELSE @]
  BY DEF StaticFile
<1>2. /\ opts \in Options /\ req \in Requests[opts] /\ resource \in Resource
      /\ req.accept \in AcceptEncoding
  <2>1. opts \in Options /\ req \in Requests[opts] /\ resource \in Resources[opts]
    BY <1>1 DEF HandlerInv, KnownInv
  <2> QED
    BY <2>1, OptionsAssumption
<1>3. IsResponse(q) /\ Answers(q, req.accept) /\ q.by \in {"root", "nofile", "fallback"}
  BY <1>2, AnswerMeans, Zenon
<1>4. Root = RootOf(opts, uri.host) /\ Root \notin Early
  BY <1>2, RootMeans, Zenon
<1> HIDE DEF q
<1>5. /\ resp'.codings = q.codings /\ resp'.payload = q.payload /\ resp'.headers = q.headers
      /\ resp'.by = IF q.by = "root" THEN Root ELSE q.by
  BY <1>1, <1>3 DEF IsResponse
<1>6. Served'
  BY <1>1, <1>3, <1>4, <1>5 DEF Served, Early
<1>7. \A n \in HeaderNames : ~Overridden(n)' => n \notin Custom
  <2>1. HeaderUri' = HeaderUri
    BY <1>1 DEF HeaderUri, FileKnown
  <2>2. \A n : CustomEntries(n)' = CustomEntries(n)
    BY <1>1, <2>1 DEF CustomEntries
  <2> QED
    BY <1>6, <2>2 DEF Overridden, Custom
<1>8. {"content-length", "content-encoding", "vary", "access-control-allow-origin",
       "access-control-allow-methods", "access-control-allow-headers"} \subseteq HeaderNames
  BY NamedHeaders
<1>9. LengthTruthful'
  <2>1. ~Overridden("content-length")' => SaysLength(q)
    BY <1>3, <1>7, <1>8 DEF Answers
  <2> QED
    BY <1>1, <1>5, <2>1 DEF LengthTruthful, SaysLength
<1>10. EncodedOnce'
  <2>1. ~Overridden("content-encoding")' => SaysCoding(q)
    BY <1>3, <1>7, <1>8 DEF Answers
  <2>2. CodedOnce(q, req.accept)
    BY <1>3 DEF Answers
  <2>3. Len(q.codings) <= 1 /\ \A i \in DOMAIN q.codings : Accepts(req.accept, q.codings[i])
    <3>1. CASE q.codings = << >>
      BY <3>1
    <3>2. CASE \E coding \in ContentCoding : q.codings = <<coding>> /\ Accepts(req.accept, coding)
      BY <3>2
    <3> QED
      BY <2>2, <3>1, <3>2 DEF CodedOnce
  <2> QED
    BY <1>1, <1>5, <2>1, <2>3 DEF EncodedOnce, SaysCoding, Accepts
<1>11. VaryInv'
  BY <1>1, <1>3, <1>5, <1>7, <1>8 DEF VaryInv, Answers
<1>12. CorsAnnounced'
  <2>1. opts.cors.enabled => CorsAllows(opts, req)
    BY <1>1 DEF HandlerInv, GateInv, AfterCors
  <2>2. Announcing <=> (opts.cors.enabled /\ req.origin # None)
    BY <2>1 DEF Announcing
  <2>3. ~Overridden("access-control-allow-origin")' =>
            q.headers["access-control-allow-origin"] =
                IF opts.cors.enabled THEN req.origin ELSE None
    BY <1>3, <1>7, <1>8, <2>2 DEF Answers
  <2>4. opts.cors.enabled /\ req.origin # None =>
            /\ ~Overridden("access-control-allow-methods")' =>
                q.headers["access-control-allow-methods"] = Methods
            /\ ~Overridden("access-control-allow-headers")' =>
                q.headers["access-control-allow-headers"] = opts.cors.headers
    BY <1>3, <1>7, <1>8, <2>2 DEF Answers
  <2>5. opts.cors.enabled /\ req.method = "OPTIONS" /\ req.origin # None =>
            req.request_method \in Methods /\ req.request_headers \subseteq opts.cors.headers
    BY <2>1 DEF CorsAllows
  <2> QED
    BY <1>1, <1>5, <2>3, <2>4, <2>5 DEF CorsAnnounced
<1>13. RewrittenRoot'
  <2>1. SUFFICES ASSUME NEW i \in DOMAIN opts.rewrites, FirstRewrite(i),
                        resp'.by \notin {"nofile", "fallback"},
                        req.authority \in {None, req.host}
                 PROVE  resp'.by = RootOf(opts, IF opts.rewrites[i].host # None
                                                THEN opts.rewrites[i].host ELSE req.host)
    BY <1>1 DEF RewrittenRoot, FirstRewrite
  <2>2. uri.host = IF opts.rewrites[i].host # None THEN opts.rewrites[i].host ELSE req.host
    BY <1>1, <2>1 DEF HandlerInv, RouteInv
  <2>3. resp'.by = Root
    BY <1>3, <1>5, <2>1
  <2> QED
    BY <1>4, <2>2, <2>3, Zenon
<1> QED
  BY <1>9, <1>10, <1>11, <1>12, <1>13 DEF AnswerInv

(***************************************************************************)
(* The invariant holds of an idle connection.                              *)
(***************************************************************************)
LEMMA HandlerInit == Init => HandlerInv
<1> SUFFICES ASSUME Init PROVE HandlerInv
  OBVIOUS
<1>1. GateInv
  BY GateInit
<1>2. opts \in Options /\ pc = "idle"
  BY DEF Init
<1>3. KnownInv /\ RouteInv
  BY <1>2 DEF KnownInv, RouteInv
<1>4. AnswerInv
  BY <1>2 DEF AnswerInv, LengthTruthful, EncodedOnce, VaryInv, CorsAnnounced,
              RewrittenRoot, Served
<1> QED
  BY <1>1, <1>3, <1>4 DEF HandlerInv

(***************************************************************************)
(* A stage before the rewrites keeps the invariant.                        *)
(***************************************************************************)
LEMMA StageKeeps ==
    ASSUME HandlerInv, NEW stage, NEW answer, NEW next, stage # "idle", next # "static",
           answer.by \in Early, Uncoded(answer), Stage(stage, answer, next)
    PROVE  KnownInv' /\ RouteInv' /\ AnswerInv'
<1>1. AnswerInv'
  BY StageAnswers, Zenon
<1>2. /\ pc = stage /\ pc' # "static"
      /\ UNCHANGED <<opts, req, resource>>
  BY DEF Stage
<1>3. KnownInv'
  BY <1>2 DEF HandlerInv, KnownInv
<1>4. RouteInv'
  BY <1>2 DEF RouteInv
<1> QED
  BY <1>1, <1>3, <1>4

(***************************************************************************)
(* Every step of handle keeps the invariant.                               *)
(***************************************************************************)
LEMMA HandlerNext == HandlerInv /\ [Next]_vars => HandlerInv'
<1> SUFFICES ASSUME HandlerInv, [Next]_vars PROVE HandlerInv'
  OBVIOUS
<1>1. GateInv'
  BY GateNext DEF HandlerInv
<1>2. SUFFICES KnownInv' /\ RouteInv' /\ AnswerInv'
  BY <1>1 DEF HandlerInv
<1>3. opts \in Options
  BY DEF HandlerInv, KnownInv
<1>4. ASSUME NEW r \in Requests[opts], NEW found \in Resources[opts], Receive(r, found)
      PROVE  KnownInv' /\ RouteInv' /\ AnswerInv'
  <2>1. /\ req' = r /\ resource' = found /\ opts' = opts
        /\ pc' # "done" /\ pc' # "static" /\ pc' # "idle"
    BY <1>4 DEF Receive
  <2>2. AnswerInv'
    BY <2>1, NotAnswered, Zenon
  <2> QED
    BY <1>3, <2>1, <2>2 DEF KnownInv, RouteInv
<1>5. CASE CheckMethod
  <2> DEFINE answer == IF req.method \in Methods THEN Pass ELSE error_response(405)
  <2>1. answer.by \in Early
    BY EarlyAnswers DEF Early
  <2>2. Uncoded(answer)
    BY EarlyUncoded
  <2>3. Stage("method", answer, "health")
    BY <1>5 DEF CheckMethod
  <2> HIDE DEF answer
  <2> QED
    BY <2>1, <2>2, <2>3, StageKeeps
<1>6. CASE Health
  <2>1. health_pre_process.by \in Early
    BY EarlyAnswers DEF Early
  <2> QED
    BY <1>6, <2>1, EarlyUncoded, StageKeeps DEF Health
<1>7. CASE Metrics
  <2>1. metrics_pre_process.by \in Early
    BY EarlyAnswers DEF Early
  <2> QED
    BY <1>7, <2>1, EarlyUncoded, StageKeeps DEF Metrics
<1>8. CASE Cors
  <2>1. cors_pre_process.by \in Early
    BY EarlyAnswers DEF Early
  <2> QED
    BY <1>8, <2>1, EarlyUncoded, StageKeeps DEF Cors
<1>9. CASE BasicAuth
  <2>1. basic_auth_pre_process.by \in Early
    BY EarlyAnswers DEF Early
  <2> QED
    BY <1>9, <2>1, EarlyUncoded, StageKeeps DEF BasicAuth
<1>10. CASE Maintenance
  <2>1. maintenance_pre_process.by \in Early
    BY EarlyAnswers DEF Early
  <2> QED
    BY <1>10, <2>1, EarlyUncoded, StageKeeps DEF Maintenance
<1>11. CASE Redirects
  <2>1. redirects_pre_process.by \in Early
    BY EarlyAnswers DEF Early
  <2> QED
    BY <1>11, <2>1, EarlyUncoded, StageKeeps DEF Redirects
<1>12. CASE Rewrites
  <2>1. rewrites_pre_process.by \in Early
    BY EarlyAnswers DEF Early
  <2>2. Stage("rewrites", rewrites_pre_process, "static")
    BY <1>12 DEF Rewrites
  <2>3. AnswerInv'
    BY <2>1, <2>2, EarlyUncoded, StageAnswers
  <2>4. RouteInv'
    BY <1>12, RewriteRoutes
  <2>5. KnownInv'
    BY <2>2 DEF HandlerInv, KnownInv, Stage
  <2> QED
    BY <2>3, <2>4, <2>5
<1>13. CASE StaticFile
  <2>1. AnswerInv'
    BY <1>13, FileAnswers
  <2>2. pc = "static" /\ pc' = "done" /\ UNCHANGED <<opts, req, resource>>
    BY <1>13 DEF StaticFile
  <2> QED
    BY <2>1, <2>2 DEF HandlerInv, KnownInv, RouteInv
<1>14. CASE Send
  <2>1. pc' = "idle" /\ opts' = opts
    BY <1>14 DEF Send
  <2>2. AnswerInv'
    BY <2>1, NotAnswered
  <2> QED
    BY <1>3, <2>1, <2>2 DEF KnownInv, RouteInv
<1>15. CASE UNCHANGED vars
  <2>1. UNCHANGED <<opts, resource, req, uri, pc, resp>>
    BY <1>15 DEF vars
  <2>2. KnownInv' /\ RouteInv'
    BY <2>1 DEF HandlerInv, KnownInv, RouteInv, FirstRewrite
  <2>3. Served' <=> Served
    BY <2>1 DEF Served
  <2>4. \A n : Overridden(n)' <=> Overridden(n)
    <3>1. HeaderUri' = HeaderUri
      BY <2>1 DEF HeaderUri, FileKnown
    <3> QED
      BY <2>1, <2>3, <3>1 DEF Overridden, CustomEntries
  <2>5. LengthTruthful' /\ EncodedOnce' /\ VaryInv'
    BY <2>1, <2>3, <2>4
       DEF HandlerInv, AnswerInv, LengthTruthful, EncodedOnce, VaryInv, Accepts
  <2>6. CorsAnnounced'
    BY <2>1, <2>3, <2>4 DEF HandlerInv, AnswerInv, CorsAnnounced
  <2>7. RewrittenRoot'
    BY <2>1, <2>3 DEF HandlerInv, AnswerInv, RewrittenRoot, FirstRewrite
  <2> QED
    BY <2>2, <2>5, <2>6, <2>7 DEF AnswerInv
<1> QED
  BY <1>4, <1>5, <1>6, <1>7, <1>8, <1>9, <1>10, <1>11, <1>12, <1>13, <1>14, <1>15 DEF Next

(***************************************************************************)
(* The invariant of handle.                                                *)
(***************************************************************************)
LEMMA HandlerInvariance == Spec => []HandlerInv
BY HandlerInit, HandlerNext, PTL DEF Spec

(***************************************************************************)
(* Where every answer varies or none is coded, an answer whose coding      *)
(* another client would have changed varies.                               *)
(***************************************************************************)
LEMMA VaryMeans ==
    ASSUME HandlerInv
    PROVE  NegotiatedVaries
<1> SUFFICES ASSUME Served, ~Overridden("vary"), NEW r \in Requests[opts],
                    StaticAnswer(r.accept).codings # resp.codings
             PROVE  resp.headers["vary"] = "accept-encoding"
  BY Zenon DEF NegotiatedVaries, AcceptHeaders
<1>1. pc = "done" /\ VaryInv /\ KnownInv
  BY DEF Served, HandlerInv, AnswerInv
<1>2. opts \in Options /\ resource \in Resources[opts]
  BY <1>1 DEF KnownInv
<1>3. r.accept \in AcceptEncoding /\ resource \in Resource
  BY <1>2, OptionsAssumption
<1>4. Answers(StaticAnswer(r.accept), r.accept)
  BY <1>3, AnswerMeans, Zenon
<1>5. ~(opts.compression \/ opts.compression_static) =>
        StaticAnswer(r.accept).codings = << >> /\ resp.codings = << >>
  BY <1>1, <1>4 DEF Answers, VaryInv
<1> QED
  BY <1>1, <1>5 DEF VaryInv

(***************************************************************************)
(* A Content-Length in the answer to a GET is that of the payload sent,    *)
(* whichever stages of handle replaced or encoded it.                      *)
(***************************************************************************)
THEOREM LengthTruthfulAlways == Spec => []LengthTruthful
<1>1. HandlerInv => LengthTruthful
  BY DEF HandlerInv, AnswerInv
<1> QED
  BY <1>1, HandlerInvariance, PTL

(***************************************************************************)
(* No payload is encoded twice, or with a coding the client did not list,  *)
(* and Content-Encoding names the coding.                                  *)
(***************************************************************************)
THEOREM EncodedOnceAlways == Spec => []EncodedOnce
<1>1. HandlerInv => EncodedOnce
  BY DEF HandlerInv, AnswerInv
<1> QED
  BY <1>1, HandlerInvariance, PTL

(***************************************************************************)
(* An answer whose coding depends on Accept-Encoding says that it does.    *)
(***************************************************************************)
THEOREM NegotiatedVariesAlways == Spec => []NegotiatedVaries
<1>1. HandlerInv => NegotiatedVaries
  BY VaryMeans
<1> QED
  BY <1>1, HandlerInvariance, PTL

(***************************************************************************)
(* Every answer past the checks announces the origin that asked, and a     *)
(* preflight is told what it asked for.                                    *)
(***************************************************************************)
THEOREM CorsAnnouncedAlways == Spec => []CorsAnnounced
<1>1. HandlerInv => CorsAnnounced
  BY DEF HandlerInv, AnswerInv
<1> QED
  BY <1>1, HandlerInvariance, PTL

(***************************************************************************)
(* An internal rewrite serves from the virtual host of its destination.    *)
(***************************************************************************)
THEOREM RewrittenRootAlways == Spec => []RewrittenRoot
<1>1. HandlerInv => RewrittenRoot
  BY DEF HandlerInv, AnswerInv
<1> QED
  BY <1>1, HandlerInvariance, PTL

=============================================================================
