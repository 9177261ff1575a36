--------------------------- MODULE MCRequestHandler ---------------------------
(***************************************************************************)
(* Small instances of RequestHandler for TLC: the checks with every kind   *)
(* of request, and the post-processing with every kind of file.            *)
(***************************************************************************)
EXTENDS RequestHandler

MCIndexUri == [p \in {"/d/"} |-> "/d//index.html"]

\* The defaults of the server, and a request for a page.
NoCors == [enabled |-> FALSE, origins |-> {}, headers |-> {}, exposed |-> {}]
MCCors == [enabled |-> TRUE, origins |-> {"o1"}, headers |-> {"h1"}, exposed |-> {"h2"}]

Defaults ==
    [health |-> FALSE, metrics |-> FALSE, cors |-> NoCors, basic_auth |-> "off",
     maintenance_mode |-> FALSE, page_fallback |-> FALSE, compression |-> FALSE,
     compression_static |-> FALSE, cache_control_headers |-> FALSE,
     security_headers |-> FALSE, root_dir |-> "www", redirects |-> << >>,
     rewrites |-> << >>, virtual_hosts |-> << >>, headers |-> << >>]

Get(path) ==
    [method |-> "GET", path |-> path, authority |-> None, host |-> "a",
     origin |-> None, request_method |-> None, request_headers |-> {},
     credentials |-> "none", accept |-> NoHeader]

File == [kind |-> "file", type |-> "text", variants |-> {}, cond |-> "whole"]
Missing == [File EXCEPT !.kind = "missing"]

----------------------------------------------------------------------------
\* The checks: which requests reach the disk.
MCRedirects ==
    <<[host |-> "b", source |-> {"/page"}, destination |-> "/new", kind |-> 301],
      [host |-> None, source |-> {"/old"}, destination |-> "/new", kind |-> 302],
      [host |-> None, source |-> {"/bad"}, destination |-> None, kind |-> 302]>>

MCRewrites ==
    <<[source |-> {"/page"}, path |-> "/old", host |-> None, redirect |-> None],
      [source |-> {"/away", "/page"}, path |-> "/page", host |-> "b", redirect |-> None],
      [source |-> {"/gone"}, path |-> "/page", host |-> None, redirect |-> 301],
      [source |-> {"/broken"}, path |-> None, host |-> None, redirect |-> None]>>

MCVirtualHosts == <<[host |-> "b", root |-> "www-b"], [host |-> "c", root |-> "www-c"]>>

MCOptionsGates ==
    {[Defaults EXCEPT !.health = on, !.metrics = on, !.cors = c, !.basic_auth = a,
                      !.maintenance_mode = m, !.page_fallback = f,
                      !.redirects = MCRedirects, !.rewrites = MCRewrites,
                      !.virtual_hosts = MCVirtualHosts] :
        on \in BOOLEAN, c \in {NoCors, MCCors}, a \in {"off", "pair", "malformed"},
        m \in BOOLEAN, f \in BOOLEAN}

MCRequestsGates ==
    {[Get(p) EXCEPT !.method = m, !.host = h, !.origin = o, !.credentials = c] :
        p \in {"/page", "/old", "/bad", "/health", "/metrics"},
        m \in {"GET", "HEAD", "OPTIONS", "POST"},
        h \in {"a", "b"}, o \in {None, "o1", "o2"}, c \in {"none", "bad", "good"}}
    \cup
    {[Get("/page") EXCEPT !.method = "OPTIONS", !.origin = "o1",
                          !.request_method = m, !.request_headers = h] :
        m \in {None, "GET", "PUT"}, h \in {{}, {"h1"}, {"h1", "h2"}}}
    \cup
    {[Get(p) EXCEPT !.host = h, !.authority = a] :
        p \in {"/page", "/away", "/gone", "/broken", "/other"},
        h \in {None, "a", "b", "c"}, a \in {None, "a", "b", "c"}}

MCResourcesGates == {File, Missing}

----------------------------------------------------------------------------
\* The post-processing: what is sent.
MCHeaders ==
    <<[source |-> {"/page", "/d//index.html"}, name |-> "cache-control",
       value |-> "no-store"],
      [source |-> {"/page"}, name |-> "cache-control", value |-> "private"],
      [source |-> {"/page"}, name |-> "csp", value |-> "self"],
      [source |-> {"/d//index.html"}, name |-> "access-control-allow-origin",
       value |-> "any"]>>

MCOptionsContent ==
    {[Defaults EXCEPT !.cors = c, !.page_fallback = f, !.compression = d,
                      !.compression_static = s, !.cache_control_headers = h,
                      !.security_headers = h, !.headers = MCHeaders] :
        c \in {NoCors, MCCors}, f \in BOOLEAN, d \in BOOLEAN, s \in BOOLEAN,
        h \in BOOLEAN}

Accept(coding, quality) == [coding |-> coding, quality |-> quality]

MCAccepts ==
    {NoHeader, <<Accept("gzip", 1000)>>, <<Accept("br", 500), Accept("gzip", 800)>>,
     <<Accept(IDENTITY, 1000), Accept("br", 500)>>}

MCRequestsContent ==
    {[Get("/page") EXCEPT !.method = m, !.origin = o, !.request_method = "GET",
                          !.accept = a] :
        m \in Methods, o \in {None, "o1"}, a \in MCAccepts}
    \cup {[Get("/d/") EXCEPT !.method = m, !.accept = a] : m \in Methods, a \in MCAccepts}

MCResourcesContent ==
    {[File EXCEPT !.kind = k] : k \in {"missing", "forbidden", "dir"}}
    \cup [kind : {"file"}, type : {"text", "binary"},
          variants : {{}, {"gzip"}, {"gzip", "br"}},
          cond : {"whole", "part", "unsatisfiable"}]
    \cup {[File EXCEPT !.cond = "unmodified"]}

----------------------------------------------------------------------------
MCOptions == MCOptionsGates \cup MCOptionsContent

Either(gates, content) == [o \in MCOptions |-> IF o \in MCOptionsGates THEN gates ELSE content]
MCRequests == Either(MCRequestsGates, MCRequestsContent)
MCResources == Either(MCResourcesGates, MCResourcesContent)

=============================================================================
