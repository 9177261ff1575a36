------------------------------- MODULE Startup -------------------------------
(***************************************************************************)
(* A server process from its first instruction on: main                    *)
(* (src/src/bin/server.rs), Server::new and start_server                   *)
(* (src/src/server.rs), with the clients that connect meanwhile and after, *)
(* the TLS handshake of src/src/tls.rs and the redirect of                 *)
(* src/src/https_redirect.rs.                                              *)
(*                                                                         *)
(* start_server is a sequence of steps any of which may fail.  A listener  *)
(* bound by one step is open, and the kernel queues connections to it,     *)
(* while the steps after it are taken.  The tasks that take a server from  *)
(* a signal to its end are the subject of Shutdown; here a server that     *)
(* heard of it closes its listener, drains, and the process ends.          *)
(***************************************************************************)
EXTENDS Settings, Tls

CONSTANTS
    Ports,          \* the TCP ports
    Scenarios,      \* [windows, args, file, passed]: the platform, the command line,
                    \* the configuration file, and the port of the socket, if any,
                    \* the parent process passes
    Pem,            \* the PEM files, by path
    Origins,        \* the strings that are origins: scheme://host
    HeaderNames,    \* the strings that are names of headers
    Clients,
    Honest          \* the clients that say what the server waits for

AnyPort == 0

ASSUME StartupAssumption ==
    /\ Ports \subseteq Nat \ {AnyPort}
    /\ \A s \in Scenarios : s.passed \in Ports \cup {AnyPort}
    /\ Honest \subseteq Clients
    /\ NoPath \notin DOMAIN Pem
    /\ "*" \notin Origins
    /\ \A s \in Scenarios : \A opts \in {s.args, s.file.general} :
        "http2" \in DOMAIN opts => opts["http2"] \in BOOLEAN

VARIABLES
    windows,    \* the platform: Windows or Unix
    args,       \* the command line
    file,       \* the configuration file
    pc,         \* the step of the process that comes next
    settings,   \* the settings in use
    source,     \* the file they were read from
    service,    \* whether main went on as a Windows service
    exit,       \* the exit status
    asked,      \* whether the process was asked to stop
    heard,      \* the servers that know
    ctrlc,      \* whether the handler of ctrl+c is installed (Windows)
    ports,      \* who listens on each port
    client      \* client[c]: the connection of c

envVars == <<windows, args, file>>
optVars == <<settings, source, service>>
netVars == <<ports, client>>
sigVars == <<asked, heard, ctrlc>>
startupVars == <<envVars, optVars, netVars, sigVars, pc, exit>>

Servers == {"main", "redirect"}
Connected == {"handshaking", "streaming"}
Idle == [st |-> "idle", at |-> AnyPort, server |-> "none", sent |-> FALSE,
         location |-> AnyPort]
Ended(st) == [Idle EXCEPT !.st = st]

Running == 256      \* exit: none yet
Killed == 143       \* by a signal nobody handles
Aborted == 134      \* a panic (panic = "abort")

StartupInit ==
    /\ \E s \in Scenarios :
        /\ windows = s.windows
        /\ args = s.args
        /\ file = s.file
        /\ ports = [p \in Ports |-> IF p = s.passed THEN "parent" ELSE "free"]
    /\ pc = "main"
    /\ settings = Defaults
    /\ source = file
    /\ service = FALSE
    /\ exit = Running
    /\ asked = FALSE
    /\ heard = {}
    /\ ctrlc = FALSE
    /\ client = [c \in Clients |-> Idle]

----------------------------------------------------------------------------
\* The listeners of some servers are closed; an inherited one the parent has too.
Closed(servers) ==
    [p \in Ports |-> IF ports[p] \notin servers THEN ports[p]
                     ELSE IF ports[p] = "main" /\ settings.fd # NoFd THEN "parent"
                     ELSE "free"]

\* The kernel resets what is queued at a port nobody listens on any more.
Reset(owner, sts) ==
    [c \in Clients |->
        IF \/ client[c].st \in sts
           \/ client[c].st = "queued" /\ owner[client[c].at] = "free"
        THEN Ended("reset") ELSE client[c]]

End(code) ==
    /\ pc' = "exited"
    /\ exit' = code
    /\ ports' = Closed(Servers)
    /\ client' = Reset(Closed(Servers), Connected)
    /\ UNCHANGED <<envVars, optVars, heard, ctrlc>>

Die(code) == End(code) /\ UNCHANGED asked

Advance(from, to) ==
    /\ pc = from
    /\ pc' = to
    /\ UNCHANGED <<envVars, optVars, netVars, sigVars, exit>>

----------------------------------------------------------------------------
\* main and Server::new.

ReadSettings ==
    /\ pc = "main"
    /\ IF ParseFails(args) THEN Die(2)
       ELSE IF ReadFails(args, file, TRUE) THEN Die(1)
       ELSE /\ pc' = "dispatch"
            /\ settings' = read(args, file)
            /\ source' = file
            /\ UNCHANGED <<envVars, service, netVars, sigVars, exit>>

\* --version and the commands end the process; a command may fail.
Dispatch ==
    /\ pc = "dispatch"
    /\ \/ (settings.version \/ settings.commands) /\ Die(0)
       \/ ~settings.version /\ settings.commands /\ Die(1)
       \/ /\ ~settings.version /\ ~settings.commands
          /\ service' = (windows /\ settings.windows_service)
          /\ pc' = IF service' THEN "service" ELSE "new"
          /\ UNCHANGED <<envVars, settings, source, netVars, sigVars, exit>>

\* available_parallelism or the runtime may fail.
NewServer == Advance("new", "listen") \/ (pc = "new" /\ ~service /\ Die(1))
----------------------------------------------------------------------------
\* start_server, one step for each call that can fail.

\* Mutant: run_server_on_rt returns whatever became of start_server.
StartFailsQuietly == Die(0)

\* run_server_on_rt: an error of start_server ends the process.
StartFails == Die(1)

RedirectOn == settings.http2 /\ settings.https_redirect
Configured == IF RedirectOn THEN Servers ELSE {"main"}

\* TcpListener::bind: the kernel picks a port for port 0.
Bindable(port) == {p \in Ports : ports[p] = "free" /\ port \in {AnyPort, p}}

ListenOn(p, server, to) ==
    /\ ports' = [ports EXCEPT ![p] = server]
    /\ pc' = to
    /\ UNCHANGED <<envVars, optVars, client, sigVars, exit>>

\* The parent passes one socket at most, as its descriptor 0.
Inherited == IF settings.fd = 0 THEN {p \in Ports : ports[p] = "parent"} ELSE {}

\* The host may also not parse, or be no address of this machine.
Listen ==
    /\ pc = "listen"
    /\ \/ settings.fd # NoFd /\ \E p \in Inherited : ListenOn(p, "main", "root")
       \/ settings.fd # NoFd /\ Inherited = {} /\ StartFails
       \/ settings.fd = NoFd /\ \E p \in Bindable(settings.port) : ListenOn(p, "main", "root")
       \/ settings.fd = NoFd /\ StartFails

\* get_valid_dirpath.
CheckRoot == Advance("root", "options") \/ (pc = "root" /\ StartFails)

\* cors::new: an origin or a header that is none is a panic.
CorsPanics(opts) ==
    LET legal(list, all) == \A i \in DOMAIN list : list[i] \in all
    IN  /\ opts.cors_allow_origins # << >>
        /\ \/ opts.cors_allow_origins # <<"*">> /\ ~legal(opts.cors_allow_origins, Origins)
           \/ ~legal(opts.cors_allow_headers, HeaderNames)
           \/ ~legal(opts.cors_expose_headers, HeaderNames)

InitOptions ==
    \/ /\ ~CorsPanics(settings)
       /\ Advance("options", IF settings.http2 THEN "tls" ELSE "signals")
    \/ /\ pc = "options"
       /\ CorsPanics(settings)
       /\ Die(Aborted)

TlsFails ==
    \/ settings.http2_tls_cert \notin DOMAIN Pem
    \/ settings.http2_tls_key \notin DOMAIN Pem
    \/ build(Pem[settings.http2_tls_cert], Pem[settings.http2_tls_key]) # "none"

\* The listener may also fail to become one of tokio's.
BuildTls == (~TlsFails /\ Advance("tls", "signals")) \/ (pc = "tls" /\ StartFails)

\* Mutant: the redirect server is left for later.
CreateSignalsThenServe ==
    \/ Advance("signals", "serving")
    \/ pc = "signals" /\ (~windows \/ ~settings.http2) /\ StartFails

\* Unix only; for HTTP/1 the listener then becomes one of tokio's.
CreateSignals ==
    \/ Advance("signals", IF RedirectOn THEN "redirect" ELSE "serving")
    \/ pc = "signals" /\ (~windows \/ ~settings.http2) /\ StartFails

ListenRedirect ==
    /\ pc = "redirect"
    /\ \/ \E p \in Bindable(settings.https_redirect_from_port) :
              ListenOn(p, "redirect", "redirect_signals")
       \/ StartFails

CreateRedirectSignals ==
    \/ Advance("redirect_signals", "serving")
    \/ pc = "redirect_signals" /\ ~windows /\ StartFails

Start ==
    \/ ReadSettings \/ Dispatch \/ NewServer \/ Listen \/ CheckRoot \/ InitOptions \/ BuildTls
    \/ CreateSignals \/ ListenRedirect \/ CreateRedirectSignals

----------------------------------------------------------------------------
\* The end of the process.

\* ctrlc_task, spawned once the options are there, is polled some time later.
InstallCtrlC ==
    /\ windows /\ ~settings.windows_service
    /\ pc \in {"tls", "signals", "redirect", "redirect_signals", "serving"}
    /\ ~ctrlc
    /\ ctrlc' = TRUE
    /\ UNCHANGED <<envVars, optVars, netVars, asked, heard, pc, exit>>

(***************************************************************************)
(* The servers whose handlers are in place: on Unix each has a signal      *)
(* stream of its own (create_signals), on Windows one task waits for       *)
(* ctrl+c for both.                                                        *)
(***************************************************************************)
Catchers ==
    IF windows THEN (IF ctrlc THEN Configured ELSE {})
    ELSE IF pc = "serving" THEN Configured
    ELSE IF pc \in {"redirect", "redirect_signals"} THEN {"main"}
    ELSE {}

\* SIGTERM, SIGINT or SIGQUIT, or ctrl+c.  Without a handler it kills.
Signal ==
    /\ pc # "exited"
    /\ ~service
    /\ asked' = TRUE
    /\ IF Catchers = {} THEN End(Killed)
       ELSE /\ heard' = heard \cup Catchers
            /\ UNCHANGED <<envVars, optVars, netVars, ctrlc, pc, exit>>

Listening(s) == \E p \in Ports : ports[p] = s

Drain(s) ==
    /\ pc = "serving"
    /\ s \in heard
    /\ Listening(s)
    /\ ports' = Closed({s})
    /\ client' = Reset(Closed({s}), {})
    /\ UNCHANGED <<envVars, optVars, sigVars, pc, exit>>

\* Mutant: select! instead of try_join!.
DrainedOne == \E s \in Configured : ~Listening(s)

\* try_join! of the servers.
Drained == \A s \in Configured : ~Listening(s)

\* Mutant: the connections are not waited for.
ReturnNow ==
    /\ pc = "serving"
    /\ Drained
    /\ IF service THEN Advance("serving", "stop_pending") ELSE Die(0)

Return ==
    /\ pc = "serving"
    /\ Drained
    /\ \A c \in Clients : client[c].st \notin Connected
    /\ IF service THEN Advance("serving", "stop_pending") ELSE Die(0)
----------------------------------------------------------------------------
\* The connections.

OnlyClient(c, conn) ==
    /\ client' = [client EXCEPT ![c] = conn]
    /\ UNCHANGED <<envVars, optVars, ports, sigVars, pc, exit>>

\* A client connects, where a redirect sent it or anywhere.
Connect(c, p) ==
    /\ pc # "exited"
    /\ client[c].st = "idle" \/ (client[c].st = "redirected" /\ client[c].location = p)
    /\ OnlyClient(c, CASE ports[p] = "free"  -> Ended("refused")
                       [] ports[p] = "other" -> Ended("elsewhere")
                       [] OTHER -> [Idle EXCEPT !.st = "queued", !.at = p])

\* It sends its part of the handshake, or its request.
Speak(c) ==
    /\ client[c].st \in Connected
    /\ ~client[c].sent
    /\ OnlyClient(c, [client[c] EXCEPT !.sent = TRUE])

\* Mutant: the handshake is part of accepting, which is done for one at a time.
AcceptBlocking(c) ==
    /\ pc = "serving"
    /\ client[c].st = "queued"
    /\ ports[client[c].at] \in Servers
    /\ \A d \in Clients : client[d].st # "handshaking"
    /\ LET s == ports[client[c].at]
       IN  OnlyClient(c, [client[c] EXCEPT !.server = s,
              !.st = IF s = "main" /\ settings.http2 THEN "handshaking" ELSE "streaming"])

\* poll_accept: a TLS connection is accepted before its handshake.
Accept(c) ==
    /\ pc = "serving"
    /\ client[c].st = "queued"
    /\ ports[client[c].at] \in Servers
    /\ LET s == ports[client[c].at]
       IN  OnlyClient(c, [client[c] EXCEPT !.server = s,
              !.st = IF s = "main" /\ settings.http2 THEN "handshaking" ELSE "streaming"])

\* poll_read and poll_write drive the handshake of their own connection.
Handshake(c) ==
    /\ pc = "serving"
    /\ client[c].st = "handshaking"
    /\ client[c].sent
    /\ \/ OnlyClient(c, [client[c] EXCEPT !.st = "streaming", !.sent = FALSE])
       \/ c \notin Honest /\ OnlyClient(c, Ended("closed"))

\* Mutant: the redirect names the port it came from.
redirect_to_https_back == [Ended("redirected") EXCEPT !.location = settings.https_redirect_from_port]

\* redirect_to_https, for a Host that is allowed.
redirect_to_https == [Ended("redirected") EXCEPT !.location = settings.port]

\* The main server answers; the redirect server redirects, or rejects the Host.
Answer(c) ==
    /\ pc = "serving"
    /\ client[c].st = "streaming"
    /\ client[c].sent
    /\ \/ client[c].server = "main" /\ OnlyClient(c, Ended("answered"))
       \/ client[c].server = "redirect" /\ OnlyClient(c, redirect_to_https)
       \/ client[c].server = "redirect" /\ OnlyClient(c, Ended("rejected"))

\* A client gives up.
Leave(c) == c \notin Honest /\ client[c].st \in Connected /\ OnlyClient(c, Ended("closed"))

Settled == {"answered", "rejected", "redirected", "refused", "elsewhere", "reset", "closed"}

\* A client is done with what it got, and may come again.
Again(c) == client[c].st \in Settled /\ OnlyClient(c, Idle)

Serve(c) == Accept(c) \/ Handshake(c) \/ Answer(c)
Visit(c) == (\E p \in Ports : Connect(c, p)) \/ Speak(c) \/ Leave(c) \/ Again(c)

----------------------------------------------------------------------------
\* Another program of the machine takes a port, or gives it back.
TakePort(p) ==
    /\ pc # "exited"
    /\ \/ ports[p] = "free" /\ ports' = [ports EXCEPT ![p] = "other"]
       \/ ports[p] = "other" /\ ports' = [ports EXCEPT ![p] = "free"]
    /\ UNCHANGED <<envVars, optVars, client, sigVars, pc, exit>>

StartupNext ==
    \/ Start \/ InstallCtrlC \/ Signal \/ Return
    \/ \E s \in Servers : Drain(s)
    \/ \E c \in Clients : Serve(c) \/ Visit(c)
    \/ \E p \in Ports : TakePort(p)

(***************************************************************************)
(* Start-up runs to its end, the runtime polls every task that can go on,  *)
(* and an honest client sends what the server waits for.                   *)
(***************************************************************************)
StartupFairness ==
    /\ WF_startupVars(Start)
    /\ WF_startupVars(Return)
    /\ \A s \in Servers : WF_startupVars(Drain(s))
    /\ \A c \in Clients : WF_startupVars(Serve(c))
    /\ \A c \in Honest : WF_startupVars(Speak(c))
----------------------------------------------------------------------------
\* Properties.

(***************************************************************************)
(* start_server serves everything it was configured to or nothing at all:  *)
(* no client gets past the queue of a listener before every listener of    *)
(* the configuration is bound, whatever fails in between.                  *)
(***************************************************************************)
AllOrNothing ==
    \A c \in Clients :
        client[c].st \in Connected \cup {"answered", "redirected"} =>
            asked \/ \A s \in Configured : Listening(s)

(***************************************************************************)
(* The Location of redirect_to_https names a port on which this process    *)
(* serves HTTPS, until it is asked to stop.  It does not if the listener   *)
(* was inherited or its port left to the kernel: the port option is then   *)
(* not the port of the listener.                                           *)
(***************************************************************************)
RedirectLeads ==
    settings.fd = NoFd /\ settings.port # AnyPort /\ ~asked =>
        \A c \in Clients : client[c].st = "redirected" =>
            settings.http2 /\ ports[client[c].location] = "main"

(***************************************************************************)
(* A server that speaks HTTP/2 over TLS sends the security headers unless  *)
(* an option says otherwise, be it the command line or the file that       *)
(* turned HTTP/2 on, and on the second reading of a service too.           *)
(***************************************************************************)
SecureByDefault ==
    pc = "serving" /\ settings.http2 /\ ~settings.security_headers =>
        \/ "security_headers" \in DOMAIN args
        \/ HasGeneral(source) /\ "security_headers" \in DOMAIN source.general

(***************************************************************************)
(* A process that ends though nobody asked it to says so by its exit       *)
(* status, at whichever step start_server failed.                          *)
(***************************************************************************)
FailureReported ==
    exit = 0 => asked \/ service \/ settings.version \/ settings.commands

(***************************************************************************)
(* A client that says what the server waits for is not kept waiting: what  *)
(* it queued for during start-up is answered or reset in the end, and a    *)
(* peer that leaves its handshake unfinished holds up nobody (poll_accept  *)
(* does not wait for it).                                                  *)
(***************************************************************************)
HonestSettled ==
    \A c \in Honest :
        client[c].st \in {"queued"} \cup Connected ~>
            \/ client[c].st \in Settled
            \/ client[c].st = "queued" /\ ports[client[c].at] = "parent"

(***************************************************************************)
(* What the documentation says of a termination signal that is caught: the *)
(* server stops.                                                           *)
(***************************************************************************)
TermStops == asked /\ ~service ~> pc = "exited"

=============================================================================
