---------------------------- MODULE RequestHandler ----------------------------
(***************************************************************************)
(* The way of one request through RequestHandler::handle                   *)
(* (src/src/handler.rs): the checks that may answer it early, the internal *)
(* rewrite, the static file, and the post-processing of the response.      *)
(*                                                                         *)
(* A resource stands for what static_files::handle finds (StaticFiles) and *)
(* what its conditional headers make of it (RangeReply).  A header value   *)
(* is abstract: Content-Length names the payload it is the length of.      *)
(***************************************************************************)
EXTENDS Negotiation

CONSTANTS
    None,           \* a header, host or authority that is not there
    Options,        \* the values of RequestHandlerOpts
    Requests,       \* Requests[o]: what clients send to a server with the options o
    Resources,      \* Resources[o]: what may be found there at the path asked for
    IndexUri        \* IndexUri[p]: p with the index file, for p with a slash

\* What static_files::handle may find.
Resource ==
    [kind : {"missing", "forbidden", "dir", "file"}, type : {"text", "binary"},
     variants : SUBSET AVAILABLE_ENCODINGS,
     cond : {"whole", "part", "unmodified", "unsatisfiable"}]

\* Who answers before the file is looked for.
Early == {"nobody", "error", "health", "metrics", "maintenance", "redirect"}

\* The rules are lists, roots have names of their own, and no header is no list.
ASSUME OptionsAssumption ==
    /\ \A o \in Options :
        /\ DOMAIN o.rewrites = 1 .. Len(o.rewrites)
        /\ DOMAIN o.virtual_hosts = 1 .. Len(o.virtual_hosts)
        /\ o.root_dir \notin Early
        /\ \A i \in DOMAIN o.virtual_hosts : o.virtual_hosts[i].root \notin Early
        /\ Resources[o] \subseteq Resource
        /\ \A r \in Requests[o] : r.accept \in AcceptEncoding
    /\ \A coding \in ContentCoding : None # <<coding>>

VARIABLES
    opts,       \* RequestHandlerOpts
    resource,   \* what is on disk for the request
    req,        \* the request as it came in
    uri,        \* its path, authority and Host header, after the rewrites
    pc,         \* the next stage of handle
    resp        \* the response

vars == <<opts, resource, req, uri, pc, resp>>

----------------------------------------------------------------------------
\* Responses: who answered, the payload, the codings applied, the headers.
SecurityHeaders == {"hsts", "x-frame-options", "x-content-type-options", "csp"}
HeaderNames ==
    SecurityHeaders \cup
    {"content-length", "content-type", "content-encoding", "vary", "allow", "location",
     "access-control-allow-origin", "access-control-allow-methods",
     "access-control-allow-headers", "access-control-expose-headers",
     "cache-control", "www-authenticate"}

NoHeaders == [n \in HeaderNames |-> None]

Response(by, status, payload) ==
    [by |-> by, status |-> status, payload |-> payload, codings |-> << >>,
     headers |-> NoHeaders]

Insert(r, name, value) == [r EXCEPT !.headers[name] = value]

\* A payload under its type and length; HEAD gets the headers only.
Page(by, status, payload, method) ==
    Insert(Insert(Response(by, status, IF method = "HEAD" THEN "empty" ELSE payload),
                  "content-type", "text"),
           "content-length", payload)

NoResponse == Response("nobody", 0, "empty")
Pass == NoResponse

error_response(status) == Page("error", status, "error", req.method)

\* The first entry of a list that matches, as the loops over rules find it.
First(rules, matches) == rules[CHOOSE i \in matches : \A j \in matches : i <= j]

----------------------------------------------------------------------------
\* The stages before the file: each answers, or lets the request pass.
Methods == {"OPTIONS", "HEAD", "GET"}

Endpoint(enabled, path) ==
    enabled /\ uri.path = path /\ req.method \in {"GET", "HEAD"}

health_pre_process ==
    IF Endpoint(opts.health, "/health")
    THEN Insert(Response("health", 200, IF req.method = "GET" THEN "ok" ELSE "empty"),
                "content-type", "text")
    ELSE Pass

metrics_pre_process ==
    IF Endpoint(opts.metrics, "/metrics")
    THEN Insert(Response("metrics", 200,
                         IF req.method = "GET" THEN "metrics" ELSE "empty"),
                "content-type", "text")
    ELSE Pass

(***************************************************************************)
(* Configured::check_request: an Origin must be allowed (all of them are,  *)
(* with "*"); a preflight must also name an allowed method, and allowed    *)
(* headers if any.                                                         *)
(***************************************************************************)
CorsAllows(o, r) ==
    r.origin # None =>
        /\ r.origin \in o.cors.origins
        /\ r.method = "OPTIONS" =>
            /\ r.request_method \in Methods
            /\ r.request_headers \subseteq o.cors.headers

cors_pre_process ==
    IF opts.cors.enabled /\ ~CorsAllows(opts, req) THEN error_response(403) ELSE Pass

\* basic_auth: preflights come without credentials.
Authorized(o, r) ==
    r.method = "OPTIONS" \/ (o.basic_auth = "pair" /\ r.credentials = "good")

\* Mutant: HEAD passes as well.
basic_auth_bodiless ==
    IF opts.basic_auth = "off" \/ Authorized(opts, req) \/ req.method = "HEAD" THEN Pass
    ELSE Insert(error_response(401), "www-authenticate", "basic")

basic_auth_pre_process ==
    IF opts.basic_auth = "off" \/ Authorized(opts, req) THEN Pass
    ELSE IF opts.basic_auth = "pair"
    THEN Insert(error_response(401), "www-authenticate", "basic")
    ELSE error_response(500)

maintenance_pre_process ==
    IF opts.maintenance_mode THEN Page("maintenance", 503, "maintenance", req.method)
    ELSE Pass

----------------------------------------------------------------------------
\* The rules: a source is the set of paths its glob matches.
Redirection(status, location) ==
    Insert(Response("redirect", status, "empty"), "location", location)

\* The host a redirect entry is compared with: the URI's, or else Host.
UriHost == IF uri.authority # None THEN uri.authority ELSE uri.host

RedirectMatches ==
    {i \in DOMAIN opts.redirects :
        LET rule == opts.redirects[i]
        IN  rule.host \in {None, UriHost} /\ uri.path \in rule.source}

redirects_pre_process ==
    IF RedirectMatches = {} THEN Pass
    ELSE LET rule == First(opts.redirects, RedirectMatches)
         IN  IF rule.destination = None THEN error_response(500)
             ELSE Redirection(rule.kind, rule.destination)

RewriteMatches ==
    {i \in DOMAIN opts.rewrites : uri.path \in opts.rewrites[i].source}
Rewritten == RewriteMatches # {}

rewrites_pre_process ==
    IF ~Rewritten THEN Pass
    ELSE LET rule == First(opts.rewrites, RewriteMatches)
         IN  IF rule.path = None THEN error_response(500)
             ELSE IF rule.redirect # None THEN Redirection(rule.redirect, rule.path)
             ELSE Pass

\* Mutant: the Host header is left as it came.
RewrittenUriKeepsHost ==
    LET rule == First(opts.rewrites, RewriteMatches)
    IN  [path |-> rule.path,
         authority |-> IF rule.host # None THEN rule.host ELSE uri.authority,
         host |-> uri.host]

\* merge_uris, and the Host header set from the authority of the result.
RewrittenUri ==
    LET rule == First(opts.rewrites, RewriteMatches)
        authority == IF rule.host # None THEN rule.host ELSE uri.authority
    IN  [path |-> rule.path,
         authority |-> authority,
         host |-> IF authority # None THEN authority ELSE uri.host]

\* virtual_hosts::get_real_root: by the Host header alone.
HostMatches ==
    {i \in DOMAIN opts.virtual_hosts : opts.virtual_hosts[i].host = uri.host}

Root ==
    IF HostMatches = {} THEN opts.root_dir
    ELSE First(opts.virtual_hosts, HostMatches).root
----------------------------------------------------------------------------
(***************************************************************************)
(* static_files::handle, for a path that is missing, forbidden, a          *)
(* directory without index file (trailing slash redirect and listings on)  *)
(* or a file; a file may have pre-compressed variants, and the conditional *)
(* headers may ask for a part of it, or for nothing.                       *)
(***************************************************************************)
Variants(accept) ==
    {i \in get_encodings(accept) :
        opts.compression_static /\ accept[i].coding \in resource.variants}

Typed(r) == Insert(r, "content-type", resource.type)

FileReply ==
    CASE resource.cond = "whole"         -> Typed(Page("root", 200, "file", "GET"))
      [] resource.cond = "part"          -> Typed(Page("root", 206, "part", "GET"))
      [] resource.cond = "unmodified"    -> Response("root", 304, "empty")
      [] resource.cond = "unsatisfiable" -> Response("root", 416, "empty")

VariantReply(coding) ==
    [FileReply EXCEPT !.codings = <<coding>>,
                      !.payload = IF @ = "empty" THEN @ ELSE "variant"]

\* Mutant: the length of the original is announced for a variant.
EncodedReplyKeepsLength(coding) ==
    Insert(VariantReply(coding), "content-encoding", <<coding>>)

EncodedReply(coding) ==
    Insert(Insert(VariantReply(coding), "content-length", None),
           "content-encoding", <<coding>>)

StaticReply(accept) ==
    IF resource.kind = "missing" THEN [error_response(404) EXCEPT !.by = "nofile"]
    ELSE IF resource.kind = "forbidden" THEN [error_response(403) EXCEPT !.by = "nofile"]
    ELSE IF resource.kind = "dir" /\ uri.path \notin DOMAIN IndexUri
    THEN Insert(Response("root", 308, "empty"), "location", <<uri.path, "/">>)
    ELSE IF req.method = "OPTIONS"
    THEN Insert(Response("root", 204, "empty"), "allow", Methods)
    ELSE IF resource.kind = "dir" THEN Page("root", 200, "listing", req.method)
    ELSE IF Variants(accept) = {} THEN FileReply
    ELSE EncodedReply(Foremost(accept, Variants(accept)))

\* Is the file path of the response known to the post-processing?
FileKnown == resource.kind \in {"dir", "file"}

----------------------------------------------------------------------------
\* Post-processing, in the order of handle.
fallback_post_process(r) ==
    IF req.method = "GET" /\ r.status = 404 /\ opts.page_fallback
    THEN Page("fallback", 200, "fallback", "GET") ELSE r

cors_post_process(r) ==
    IF opts.cors.enabled /\ req.origin # None /\ CorsAllows(opts, req)
    THEN [r EXCEPT !.headers["access-control-allow-origin"] = req.origin,
                   !.headers["access-control-allow-methods"] = Methods,
                   !.headers["access-control-allow-headers"] = opts.cors.headers,
                   !.headers["access-control-expose-headers"] = opts.cors.exposed,
                   !.headers["allow"] = None]
    ELSE r

compression_static_post_process(r) ==
    IF opts.compression_static THEN Insert(r, "vary", "accept-encoding") ELSE r

create_encoding_header(existing, coding) ==
    IF existing = None THEN <<coding>> ELSE Append(existing, coding)

\* The encoders (gzip, deflate, brotli, zstd) replace the length by the coding.
Encode(r, coding) ==
    Insert(Insert([r EXCEPT !.codings = Append(@, coding)], "content-length", None),
           "content-encoding",
           create_encoding_header(r.headers["content-encoding"], coding))

Compressible(r) == r.headers["content-type"] \in {None, "text"}

auto(r, accept) ==
    LET coding == get_preferred_encoding(accept)
    IN  IF req.method = "GET" /\ coding # IDENTITY /\ Compressible(r)
        THEN Encode(r, coding) ELSE r

\* Mutants: Vary only on what was compressed; a variant compressed again.
VaryIfCompressed(r, accept) ==
    IF opts.compression /\ r.headers["content-encoding"] = None
    THEN IF auto(r, accept).codings # r.codings
         THEN Insert(auto(r, accept), "vary", "accept-encoding") ELSE r
    ELSE r

CompressAgain(r, accept) ==
    IF opts.compression THEN auto(Insert(r, "vary", "accept-encoding"), accept) ELSE r

compression_post_process(r, accept) ==
    IF opts.compression /\ r.headers["content-encoding"] = None
    THEN auto(Insert(r, "vary", "accept-encoding"), accept)
    ELSE r

control_headers_post_process(r) ==
    IF opts.cache_control_headers THEN Insert(r, "cache-control", "max-age") ELSE r

security_headers_post_process(r) ==
    IF opts.security_headers
    THEN [r EXCEPT !.headers = [n \in HeaderNames |->
            IF n \in SecurityHeaders THEN "default" ELSE @[n]]]
    ELSE r

\* The URI custom headers are matched with; a later entry overrides.
HeaderUri ==
    IF FileKnown /\ uri.path \in DOMAIN IndexUri THEN IndexUri[uri.path] ELSE uri.path

CustomEntries(n) ==
    {i \in DOMAIN opts.headers :
        HeaderUri \in opts.headers[i].source /\ opts.headers[i].name = n}

CustomValue(n) ==
    opts.headers[CHOOSE i \in CustomEntries(n) :
                    \A j \in CustomEntries(n) : j <= i].value

custom_headers_post_process(r) ==
    [r EXCEPT !.headers = [n \in HeaderNames |->
        IF CustomEntries(n) # {} THEN CustomValue(n) ELSE @[n]]]

\* Mutant: the fallback page after the CORS headers.
PostProcessLateFallback(r, accept) ==
    LET r1 == compression_static_post_process(fallback_post_process(cors_post_process(r)))
    IN  custom_headers_post_process(security_headers_post_process(
            control_headers_post_process(compression_post_process(r1, accept))))

PostProcess(r, accept) ==
    LET r1 == compression_static_post_process(cors_post_process(fallback_post_process(r)))
    IN  custom_headers_post_process(security_headers_post_process(
            control_headers_post_process(compression_post_process(r1, accept))))

\* The answer to a request that reaches the file, under an Accept-Encoding.
StaticAnswer(accept) == PostProcess(StaticReply(accept), accept)

----------------------------------------------------------------------------
UriOf(r) == [path |-> r.path, authority |-> r.authority, host |-> r.host]

\* What an idle connection holds.
AnyRequest == CHOOSE r \in Requests[opts] : TRUE
AnyResource == CHOOSE x \in Resources[opts] : TRUE

Init ==
    /\ opts \in Options
    /\ resource = AnyResource
    /\ req = AnyRequest
    /\ uri = UriOf(AnyRequest)
    /\ pc = "idle"
    /\ resp = NoResponse

\* A request arrives, for whatever is on disk by then.
Receive(r, found) ==
    /\ pc = "idle"
    /\ req' = r
    /\ resource' = found
    /\ uri' = UriOf(r)
    /\ pc' = "method"
    /\ UNCHANGED <<opts, resp>>

\* A stage that answers ends the request; none of the post-processing is done.
Stage(stage, answer, next) ==
    /\ pc = stage
    /\ pc' = IF answer = Pass THEN next ELSE "done"
    /\ resp' = answer
    /\ UNCHANGED <<opts, resource, req>>

CheckMethod ==
    /\ Stage("method",
             IF req.method \in Methods THEN Pass ELSE error_response(405), "health")
    /\ UNCHANGED uri

Health == Stage("health", health_pre_process, "metrics") /\ UNCHANGED uri
Metrics == Stage("metrics", metrics_pre_process, "cors") /\ UNCHANGED uri
Cors == Stage("cors", cors_pre_process, "auth") /\ UNCHANGED uri
BasicAuth == Stage("auth", basic_auth_pre_process, "maintenance") /\ UNCHANGED uri
Maintenance == Stage("maintenance", maintenance_pre_process, "redirects") /\ UNCHANGED uri
Redirects == Stage("redirects", redirects_pre_process, "rewrites") /\ UNCHANGED uri

Rewrites ==
    /\ Stage("rewrites", rewrites_pre_process, "static")
    /\ uri' = IF Rewritten /\ rewrites_pre_process = Pass THEN RewrittenUri ELSE uri

StaticFile ==
    /\ pc = "static"
    /\ pc' = "done"
    /\ resp' = [StaticAnswer(req.accept) EXCEPT !.by = IF @ = "root" THEN Root ELSE @]
    /\ UNCHANGED <<opts, resource, req, uri>>

\* hyper sends the response.
Send ==
    /\ pc = "done"
    /\ resource' = AnyResource
    /\ req' = AnyRequest
    /\ uri' = UriOf(AnyRequest)
    /\ pc' = "idle"
    /\ resp' = NoResponse
    /\ UNCHANGED opts

Next ==
    \/ \E r \in Requests[opts], found \in Resources[opts] : Receive(r, found)
    \/ CheckMethod
    \/ Health
    \/ Metrics
    \/ Cors
    \/ BasicAuth
    \/ Maintenance
    \/ Redirects
    \/ Rewrites
    \/ StaticFile
    \/ Send

Spec == Init /\ [][Next]_vars
----------------------------------------------------------------------------
\* Properties.

\* The answer of the static file stage.
Served == pc = "done" /\ resp.by \notin Early

AcceptHeaders == {r.accept : r \in Requests[opts]}

RequestHost(r) == IF r.authority # None THEN r.authority ELSE r.host

RootOf(o, host) ==
    LET is == {i \in DOMAIN o.virtual_hosts : o.virtual_hosts[i].host = host}
    IN  IF is = {} THEN o.root_dir
        ELSE o.virtual_hosts[CHOOSE i \in is : \A j \in is : i <= j].root

(***************************************************************************)
(* Nothing from the disk or the fallback page is sent past a check:        *)
(* whatever other features are on, the method is allowed, the origin is    *)
(* allowed, the credentials are right (but for OPTIONS), the server is not *)
(* in maintenance and no redirect applies to the request as it came in.    *)
(***************************************************************************)
ContentGated ==
    Served =>
        /\ req.method \in Methods
        /\ opts.cors.enabled => CorsAllows(opts, req)
        /\ opts.basic_auth # "off" => Authorized(opts, req)
        /\ ~opts.maintenance_mode
        /\ \A i \in DOMAIN opts.redirects :
            ~ /\ opts.redirects[i].host \in {None, RequestHost(req)}
              /\ req.path \in opts.redirects[i].source

\* The configuration sets this header for the URI, whatever the server put in it.
Overridden(n) == Served /\ CustomEntries(n) # {}

(***************************************************************************)
(* A Content-Length in the answer to a GET is the length of the payload    *)
(* that is sent, whichever of the stages replaced or encoded it, unless    *)
(* the configuration overrides it.                                         *)
(***************************************************************************)
LengthTruthful ==
    pc = "done" /\ req.method = "GET" /\ ~Overridden("content-length") =>
        \/ resp.headers["content-length"] = None
        \/ resp.headers["content-length"] = resp.payload /\ resp.codings = << >>

(***************************************************************************)
(* A payload is encoded at most once, by a variant on disk or on the fly,  *)
(* with a coding the client listed, and Content-Encoding says so unless    *)
(* the configuration overrides it.                                         *)
(***************************************************************************)
EncodedOnce ==
    pc = "done" =>
        /\ Len(resp.codings) <= 1
        /\ \A i \in DOMAIN resp.codings : Accepts(req.accept, resp.codings[i])
        /\ ~Overridden("content-encoding") => resp.headers["content-encoding"] =
            IF resp.codings = << >> THEN None ELSE resp.codings

(***************************************************************************)
(* If another Accept-Encoding would have changed the encoding of a         *)
(* response, the response varies by it unless the configuration overrides  *)
(* Vary: a shared cache must not hand a compressed body to a client that   *)
(* cannot decode it.                                                       *)
(***************************************************************************)
NegotiatedVaries ==
    Served /\ ~Overridden("vary") =>
        \A accept \in AcceptHeaders :
            StaticAnswer(accept).codings # resp.codings
                => resp.headers["vary"] = "accept-encoding"

(***************************************************************************)
(* Every response past the checks, a fallback or error page included,      *)
(* allows exactly the origin that asked for it, if CORS is on.  A          *)
(* preflight is told of the method and of every header it asked for.       *)
(* Headers that the configuration overrides are excepted.                  *)
(***************************************************************************)
CorsAnnounced ==
    Served =>
        /\ ~Overridden("access-control-allow-origin") =>
            resp.headers["access-control-allow-origin"] =
                IF opts.cors.enabled THEN req.origin ELSE None
        /\ opts.cors.enabled /\ req.method = "OPTIONS" /\ req.origin # None =>
            /\ ~Overridden("access-control-allow-methods") =>
                req.request_method \in resp.headers["access-control-allow-methods"]
            /\ ~Overridden("access-control-allow-headers") =>
                req.request_headers \subseteq resp.headers["access-control-allow-headers"]

(***************************************************************************)
(* An internal rewrite serves from the virtual host its destination names, *)
(* and from the one the client asked for if it names none.                 *)
(***************************************************************************)
FirstRewrite(i) ==
    /\ req.path \in opts.rewrites[i].source
    /\ \A j \in 1 .. i - 1 : req.path \notin opts.rewrites[j].source

RewrittenRoot ==
    \A i \in DOMAIN opts.rewrites :
        /\ Served /\ resp.by \notin {"nofile", "fallback"}
        /\ FirstRewrite(i)
        /\ req.authority \in {None, req.host}
        => resp.by = RootOf(opts, IF opts.rewrites[i].host # None
                                  THEN opts.rewrites[i].host ELSE req.host)

=============================================================================
