---------------------------- MODULE StartupProofs ----------------------------
(***************************************************************************)
(* AllOrNothing, RedirectLeads, SecureByDefault, FailureReported and       *)
(* StoppedMeansReleased for any ports, scenarios and clients, and that the *)
(* process implements ServerLife, but for its fairness.                    *)
(*                                                                         *)
(* The invariant says which listeners are open at each step of             *)
(* start_server, and how far a connection can have come by then.           *)
(***************************************************************************)
EXTENDS WinService, TLAPS

\* The steps before the main listener is bound, those with it, and the end.
Unbound == {"main", "dispatch", "service", "service_main", "given_up", "register",
            "running", "new", "listen"}
Bound == {"root", "options", "tls", "signals", "redirect", "redirect_signals"}
Ending == {"stop_pending", "stopped", "dispatcher", "exited"}

\* The steps only a service takes.
AsService == {"service", "service_main", "given_up", "register", "running",
              "stop_pending", "stopped", "dispatcher"}

Lines == {s.args : s \in Scenarios}
Confs == {s.file : s \in Scenarios}
Locations == {AnyPort} \cup {read(x, y).port : x \in Lines, y \in Confs}

Stages == {"idle", "queued"} \cup Connected \cup Settled

Conn == [st : Stages, at : Ports \cup {AnyPort}, server : Servers \cup {"none"},
         sent : BOOLEAN, location : Locations]

TypeOK ==
    /\ pc \in Unbound \cup Bound \cup Ending \cup {"serving"}
    /\ args \in Lines /\ file \in Confs /\ source \in Confs
    /\ ports \in [Ports -> Servers \cup {"free", "other", "parent"}]
    /\ client \in [Clients -> Conn]
    /\ asked \in BOOLEAN
    /\ heard \subseteq Servers

\* The settings in use are those of the last reading.
Sourced == pc \notin {"main", "exited"} => settings = read(args, source)

\* Which listeners are open at which step.
Wired ==
    /\ pc \in Unbound \cup Ending => \A s \in Servers : ~Listening(s)
    /\ pc \in Bound => Listening("main")
    /\ pc \in {"redirect", "redirect_signals"} => RedirectOn
    /\ pc = "redirect_signals" => Listening("redirect")
    /\ Listening("redirect") => RedirectOn
    /\ pc = "serving" => asked \/ \A s \in Configured : Listening(s)
    /\ heard # {} => asked

\* The main listener has the port that is configured, if it is to be known.
OnPort ==
    /\ pc \in Bound \cup {"serving"}
    /\ settings.fd = NoFd
    /\ settings.port # AnyPort
    /\ ~asked
    => settings.port \in Ports /\ ports[settings.port] = "main"

\* How far a connection can have come.
Reached(c) ==
    /\ client[c].st = "queued" => client[c].at \in Ports
    /\ client[c].st \in Connected => pc = "serving"
    /\ client[c].st \in Connected /\ client[c].server = "redirect" => RedirectOn
    /\ client[c].st \in {"answered", "redirected"} =>
        pc = "serving" \/ (pc \in Ending /\ asked)
    /\ client[c].st = "redirected" => RedirectOn /\ client[c].location = settings.port

\* What the exit status and the service manager say.
Told ==
    /\ pc \in AsService => service
    /\ exit = 0 => pc = "exited" /\ FailureReported
    /\ scm = "stopped" => pc \in {"dispatcher", "exited"}

StartInv == TypeOK /\ Sourced /\ Wired /\ OnPort /\ (\A c \in Clients : Reached(c)) /\ Told

----------------------------------------------------------------------------
\* The settings.

(***************************************************************************)
(* However the command line and the file turn HTTP/2 on (default_value_if  *)
(* of cli.rs, the second half of Settings::read), the security headers     *)
(* come with it unless one of the two names them.                          *)
(***************************************************************************)
LEMMA ReadSecure ==
    ASSUME NEW x \in Lines, NEW y \in Confs,
           read(x, y).http2, ~read(x, y).security_headers
    PROVE  \/ "security_headers" \in DOMAIN x
           \/ HasGeneral(y) /\ "security_headers" \in DOMAIN y.general
<1>1. "http2" \in DOMAIN x => x["http2"] \in BOOLEAN
  BY StartupAssumption DEF Lines
<1>2. SUFFICES ASSUME "security_headers" \notin DOMAIN x,
                      HasGeneral(y) => "security_headers" \notin DOMAIN y.general
               PROVE  FALSE
  OBVIOUS
<1> DEFINE base == [Defaults EXCEPT !.security_headers = Given(x, "http2", TRUE)]
<1>3. /\ DOMAIN base = DOMAIN Defaults
      /\ "http2" \in DOMAIN base /\ "security_headers" \in DOMAIN base
      /\ base["http2"] = FALSE
      /\ base["security_headers"] = Given(x, "http2", TRUE)
  BY DEF Defaults
<1> HIDE DEF base
<1>4. /\ "http2" \in DOMAIN General(x) /\ "security_headers" \in DOMAIN General(x)
      /\ General(x)["security_headers"] = Given(x, "http2", TRUE)
      /\ General(x)["http2"] = IF "http2" \in DOMAIN x THEN x["http2"] ELSE FALSE
  BY <1>2, <1>3, Zenon DEF General, Over, base
<1>5. CASE ~HasGeneral(y)
  BY <1>1, <1>4, <1>5, Zenon DEF read, WithFile, Given
<1>6. CASE HasGeneral(y)
  <2> DEFINE all == Over(y.general, General(x))
  <2>1. "security_headers" \in DOMAIN all
    BY <1>4 DEF Over
  <2>2. read(x, y) = IF all.http2 THEN [all EXCEPT !.security_headers = TRUE] ELSE all
    BY <1>2, <1>6 DEF read, WithFile, Merged
  <2> QED
    BY <2>1, <2>2
<1> QED
  BY <1>5, <1>6

----------------------------------------------------------------------------
\* The steps that the actions are made of.

\* A connection that is over, as Ended has it, names no server and no port.
LEMMA EndedConn ==
    ASSUME NEW st \in Stages
    PROVE  /\ Idle \in Conn /\ Ended(st) \in Conn
           /\ Ended(st).st = st /\ Ended(st).server = "none"
<1>1. AnyPort \in Locations
  BY DEF Locations
<1>2. Idle \in Conn
  <2>1. "idle" \in Stages /\ AnyPort \in Ports \cup {AnyPort}
    BY DEF Stages
  <2>2. FALSE \in BOOLEAN
    OBVIOUS
  <2> QED
    BY <1>1, <2>1, <2>2, Zenon DEF Idle, Conn
<1> QED
  BY <1>2, Zenon DEF Ended, Conn, Idle

(***************************************************************************)
(* The process may end at any step: every listener is closed with it.      *)
(***************************************************************************)
LEMMA EndKeeps ==
    ASSUME StartInv, NEW code, End(code), asked' \in BOOLEAN, asked => asked',
           pc = "serving" => asked',
           code = 0 => asked' \/ service \/ settings.version \/ settings.commands
    PROVE  StartInv'
<1>1. pc' = "exited" /\ UNCHANGED <<args, file, source, settings, service, heard>>
  BY DEF End, envVars, optVars
<1>2. /\ ports' \in [Ports -> Servers \cup {"free", "other", "parent"}]
      /\ \A p \in Ports : ports'[p] \notin Servers
  <2>1. ports' = Closed(Servers)
    BY DEF End
  <2>2. \A p \in Ports : Closed(Servers)[p] \in {"free", "other", "parent"}
    BY DEF Closed, StartInv, TypeOK
  <2>3. \A x \in {"free", "other", "parent"} : x \notin Servers
    BY DEF Servers
  <2>4. Closed(Servers) = [p \in Ports |-> Closed(Servers)[p]]
    BY DEF Closed
  <2> QED
    BY <2>1, <2>2, <2>3, <2>4
<1>3. \A c \in Clients : client'[c] = Ended("reset") \/ client'[c] = client[c]
  BY DEF End, Reset
<1>4. Ended("reset") \in Conn /\ Ended("reset").st = "reset"
  <2>1. "reset" \in Stages
    BY DEF Stages, Settled
  <2> QED  BY <2>1, EndedConn
<1>5. TypeOK'
  <2>1. client' = [c \in Clients |-> client'[c]]
    BY DEF End, Reset
  <2> QED
    BY <1>1, <1>2, <1>3, <1>4, <2>1 DEF StartInv, TypeOK, Ending
<1>6. \A c \in Clients : client'[c].st \notin Connected
  BY DEF End, Reset, Ended, Idle, Connected
<1>7. Sourced' /\ Wired' /\ OnPort'
  BY <1>1, <1>2 DEF StartInv, Sourced, Wired, OnPort, Listening, Servers, Unbound, Bound, Ending
<1>8. \A c \in Clients : Reached(c)'
  BY <1>1, <1>3, <1>4, <1>6 DEF StartInv, Reached, Ending, RedirectOn
<1>9. Told'
  BY <1>1 DEF End, Told, FailureReported, AsService
<1> QED
  BY <1>5, <1>7, <1>8, <1>9 DEF StartInv

(***************************************************************************)
(* A step of one connection keeps the invariant if only a process that     *)
(* serves accepts and answers, and only the redirect server redirects.     *)
(***************************************************************************)
LEMMA ClientKeeps ==
    ASSUME StartInv, NEW c \in Clients, NEW conn \in Conn, OnlyClient(c, conn),
           UNCHANGED scm,
           conn.st = "queued" => conn.at \in Ports,
           conn.st \in Connected \cup {"answered", "redirected"} => pc = "serving",
           conn.st \in Connected /\ conn.server = "redirect" => RedirectOn,
           conn.st = "redirected" => RedirectOn /\ conn.location = settings.port
    PROVE  StartInv'
<1>1. UNCHANGED <<pc, args, file, source, settings, service, ports, asked, heard, exit>>
  BY DEF OnlyClient, envVars, optVars, sigVars
<1>2. client' = [client EXCEPT ![c] = conn]
  BY DEF OnlyClient
<1>3. TypeOK'
  BY <1>1, <1>2 DEF StartInv, TypeOK
<1>4. Sourced' /\ Wired' /\ OnPort'
  BY <1>1 DEF StartInv, Sourced, Wired, OnPort, Listening, Configured, RedirectOn
<1>5. ASSUME NEW d \in Clients PROVE Reached(d)'
  <2>1. CASE d = c
    BY <1>1, <1>2, <2>1 DEF StartInv, TypeOK, Reached, RedirectOn
  <2>2. CASE d # c
    BY <1>1, <1>2, <2>2 DEF StartInv, TypeOK, Reached, RedirectOn
  <2> QED  BY <2>1, <2>2
<1>6. Told'
  BY <1>1 DEF StartInv, Told, FailureReported
<1> QED
  BY <1>3, <1>4, <1>5, <1>6 DEF StartInv

(***************************************************************************)
(* A step that succeeds keeps the invariant: serving begins when every     *)
(* server of the configuration listens, and ends when none does.           *)
(***************************************************************************)
LEMMA AdvanceKeeps ==
    ASSUME StartInv, NEW from, NEW to, Advance(from, to),
           \/ from \in Unbound \ {"main"} /\ to \in ({"stopped"} \cup Unbound) \ {"main"}
           \/ /\ from \in Bound /\ to \in Bound \ {"redirect_signals"}
              /\ to = "redirect" => RedirectOn
           \/ from = "signals" /\ ~RedirectOn /\ to = "serving"
           \/ from = "redirect_signals" /\ to = "serving"
           \/ from = "serving" /\ Return /\ to = "stop_pending"
           \/ from \in {"stop_pending", "stopped"} /\ to \in {"stopped", "dispatcher"},
           to \in AsService => service,
           scm' = "stopped" => scm = "stopped" \/ to = "dispatcher"
    PROVE  StartInv'
<1>1. /\ pc = from /\ pc' = to
      /\ UNCHANGED <<args, file, source, settings, service, ports, client, asked, heard, exit>>
  BY DEF Advance, envVars, optVars, netVars, sigVars
<1>2. from \notin {"main", "dispatcher", "exited"} /\ to \notin {"main", "exited"}
  BY DEF Unbound, Bound
<1>3. TypeOK'
  <2>1. to \in Unbound \cup Bound \cup Ending \cup {"serving"}
    BY DEF Unbound, Bound, Ending
  <2> QED
    BY <1>1, <2>1 DEF StartInv, TypeOK
<1>4. Sourced'
  BY <1>1, <1>2 DEF StartInv, Sourced
<1>5. Wired'
  <2>1. \A s \in Servers : Listening(s)' <=> Listening(s)
    BY <1>1 DEF Listening
  <2>2. from = "serving" /\ to = "stop_pending" => \A s \in Servers : ~Listening(s)
    BY <1>1 DEF StartInv, Wired, Return, Drained, Configured, Servers, Unbound, Bound
  <2> QED
    BY <1>1, <2>1, <2>2
    DEF StartInv, Wired, Configured, RedirectOn, Servers, Unbound, Bound, Ending
<1>6. OnPort'
  <2>1. from \in Bound \cup {"serving"} \/ to \notin Bound \cup {"serving"}
    BY DEF Unbound, Bound
  <2> QED
    BY <1>1, <2>1 DEF StartInv, OnPort
<1>7. ASSUME NEW c \in Clients PROVE Reached(c)'
  <2>1. from = "serving" => asked /\ client[c].st \notin Connected
    BY <1>1 DEF StartInv, Wired, Return, Drained, Configured, Servers, Unbound, Bound
  <2>2. from \in Ending => to \in Ending
    BY DEF Ending, Unbound, Bound
  <2>3. from = "serving" => to \in Ending
    BY DEF Ending, Unbound, Bound
  <2>4. from \in Unbound \cup Bound \cup {"serving"} \cup Ending
    BY <1>1 DEF StartInv, TypeOK
  <2> QED
    BY <1>1, <2>1, <2>2, <2>3, <2>4 DEF StartInv, Reached, RedirectOn, Ending
<1>8. Told'
  BY <1>1, <1>2 DEF StartInv, Told, FailureReported
<1> QED
  BY <1>3, <1>4, <1>5, <1>6, <1>7, <1>8 DEF StartInv

(***************************************************************************)
(* A listener is bound, by start_server: the main one, then the redirect.  *)
(***************************************************************************)
LEMMA ListenKeeps ==
    ASSUME StartInv, NEW p \in Ports, NEW s \in Servers, NEW to, ListenOn(p, s, to),
           UNCHANGED scm,
           ports[p] \in {"free", "parent"},
           \/ /\ pc = "listen" /\ s = "main" /\ to = "root"
              /\ settings.fd = NoFd => settings.port \in {AnyPort, p}
           \/ pc = "redirect" /\ s = "redirect" /\ to = "redirect_signals"
    PROVE  StartInv'
<1>1. /\ pc' = to
      /\ UNCHANGED <<args, file, source, settings, service, client, asked, heard, exit>>
  BY DEF ListenOn, envVars, optVars, sigVars
<1>2. ports' = [ports EXCEPT ![p] = s]
  BY DEF ListenOn
<1>3. ports \in [Ports -> Servers \cup {"free", "other", "parent"}]
  BY DEF StartInv, TypeOK
<1>4. TypeOK'
  BY <1>1, <1>2, <1>3 DEF StartInv, TypeOK, Bound
<1>5. ports[p] \notin Servers
  BY DEF Servers
<1>6. \A t \in Servers : Listening(t)' <=> Listening(t) \/ t = s
  BY <1>2, <1>3, <1>5 DEF Listening
<1>7. Sourced' /\ Wired'
  BY <1>1, <1>6
  DEF StartInv, Sourced, Wired, Configured, RedirectOn, Servers, Unbound, Bound, Ending
<1>8. OnPort'
  <2>1. CASE pc = "listen"
    BY <1>1, <1>2, <1>3, <2>1 DEF OnPort
  <2>2. CASE pc = "redirect"
    BY <1>1, <1>2, <1>3, <1>5, <2>2 DEF StartInv, OnPort, Bound, Servers
  <2> QED  BY <2>1, <2>2
<1>9. \A c \in Clients : Reached(c)'
  BY <1>1 DEF StartInv, Reached, RedirectOn, Ending
<1>10. Told'
  BY <1>1 DEF StartInv, Told, FailureReported, AsService
<1> QED
  BY <1>4, <1>7, <1>8, <1>9, <1>10 DEF StartInv

(***************************************************************************)
(* A server that heard of the stop closes its listener.                    *)
(***************************************************************************)
LEMMA DrainKeeps ==
    ASSUME StartInv, NEW s \in Servers, Drain(s), UNCHANGED scm
    PROVE  StartInv'
<1>1. /\ pc = "serving" /\ asked
      /\ UNCHANGED <<pc, args, file, source, settings, service, asked, heard, exit>>
  BY DEF StartInv, Wired, Drain, envVars, optVars, sigVars
<1>2. /\ ports' \in [Ports -> Servers \cup {"free", "other", "parent"}]
      /\ \A p \in Ports : ports'[p] \in Servers => ports'[p] = ports[p]
  BY DEF StartInv, TypeOK, Drain, Closed, Servers
<1>3. \A c \in Clients : client'[c] = Ended("reset") \/ client'[c] = client[c]
  BY DEF Drain, Reset
<1>4. Ended("reset") \in Conn /\ Ended("reset").st = "reset"
  <2>1. "reset" \in Stages
    BY DEF Stages, Settled
  <2> QED  BY <2>1, EndedConn
<1>5. TypeOK'
  <2>1. client' = [c \in Clients |-> client'[c]]
    BY DEF Drain, Reset
  <2> QED
    BY <1>1, <1>2, <1>3, <1>4, <2>1 DEF StartInv, TypeOK
<1>6. Sourced' /\ Wired' /\ OnPort'
  BY <1>1, <1>2
  DEF StartInv, Sourced, Wired, OnPort, Listening, RedirectOn, Servers, Unbound, Bound, Ending
<1>7. \A c \in Clients : Reached(c)'
  BY <1>1, <1>3, <1>4 DEF StartInv, Reached, Connected, RedirectOn
<1>8. Told'
  BY <1>1 DEF StartInv, Told, FailureReported
<1> QED
  BY <1>5, <1>6, <1>7, <1>8 DEF StartInv

(***************************************************************************)
(* Another program takes or leaves a port of its own.                      *)
(***************************************************************************)
LEMMA TakePortKeeps ==
    ASSUME StartInv, NEW p \in Ports, TakePort(p), UNCHANGED scm
    PROVE  StartInv'
<1>1. UNCHANGED <<pc, args, file, source, settings, service, client, asked, heard, exit>>
  BY DEF TakePort, envVars, optVars, sigVars
<1>2. /\ ports' \in [Ports -> Servers \cup {"free", "other", "parent"}]
      /\ \A q \in Ports, s \in Servers : ports'[q] = s <=> ports[q] = s
  BY DEF StartInv, TypeOK, TakePort, Servers
<1>3. \A s \in Servers : Listening(s)' <=> Listening(s)
  BY <1>2 DEF Listening
<1>4. TypeOK' /\ Sourced' /\ Wired'
  BY <1>1, <1>2, <1>3
  DEF StartInv, TypeOK, Sourced, Wired, Configured, RedirectOn, Servers
<1>5. OnPort'
  BY <1>1, <1>2 DEF StartInv, OnPort, Servers
<1>6. (\A c \in Clients : Reached(c)') /\ Told'
  BY <1>1 DEF StartInv, Reached, RedirectOn, Told, FailureReported
<1> QED
  BY <1>4, <1>5, <1>6 DEF StartInv

(***************************************************************************)
(* Before anything is bound the settings may be read, and read again.      *)
(***************************************************************************)
LEMMA ConfigureKeeps ==
    ASSUME StartInv, pc \in Unbound, pc' \in Unbound \ {"main"},
           UNCHANGED <<args, ports, client, asked, heard, exit, scm>>,
           file' \in Confs, source' \in Confs,
           settings' = read(args, source'),
           pc' \in AsService => service'
    PROVE  StartInv'
<1>1. TypeOK' /\ Sourced'
  BY DEF StartInv, TypeOK, Sourced
<1>2. pc # "serving" /\ pc \notin Bound \cup Ending /\ pc' \notin Bound \cup Ending \cup {"serving"}
  BY DEF Unbound, Bound, Ending
<1>3. \A s \in Servers : ~Listening(s) /\ ~Listening(s)'
  BY DEF StartInv, Wired, Listening
<1>4. Wired' /\ OnPort'
  BY <1>2, <1>3 DEF StartInv, Wired, OnPort, Bound, Servers
<1>5. \A c \in Clients : Reached(c)'
  BY <1>2 DEF StartInv, Reached
<1>6. Told'
  BY <1>2 DEF StartInv, Told, Ending
<1> QED
  BY <1>1, <1>4, <1>5, <1>6 DEF StartInv

(***************************************************************************)
(* The process learns that it is to stop, and goes on.                     *)
(***************************************************************************)
LEMMA AskedKeeps ==
    ASSUME StartInv, asked' = TRUE, heard' \subseteq Servers,
           UNCHANGED <<pc, args, file, source, settings, service, ports, client, exit, scm>>
    PROVE  StartInv'
<1>1. TypeOK' /\ Sourced' /\ Wired' /\ OnPort'
  BY DEF StartInv, TypeOK, Sourced, Wired, OnPort, Listening, RedirectOn
<1>2. (\A c \in Clients : Reached(c)') /\ Told'
  BY DEF StartInv, Reached, RedirectOn, Told, FailureReported
<1> QED
  BY <1>1, <1>2 DEF StartInv

(***************************************************************************)
(* A step that changes nothing the invariant is about.                     *)
(***************************************************************************)
LEMMA Unseen ==
    ASSUME StartInv,
           UNCHANGED <<pc, args, file, source, settings, service, ports, client, asked, heard,
                       exit>>,
           scm' = "stopped" => scm = "stopped" \/ pc = "exited"
    PROVE  StartInv'
<1>1. TypeOK' /\ Sourced' /\ Wired' /\ OnPort'
  BY DEF StartInv, TypeOK, Sourced, Wired, OnPort, Listening, Configured, RedirectOn
<1>2. (\A c \in Clients : Reached(c)') /\ Told'
  BY DEF StartInv, Reached, RedirectOn, Told, FailureReported
<1> QED
  BY <1>1, <1>2 DEF StartInv

----------------------------------------------------------------------------
\* The actions.

\* The first state: nothing is read, bound or accepted yet.
LEMMA StartInit == Init => StartInv
<1> SUFFICES ASSUME Init PROVE StartInv
  OBVIOUS
<1> USE DEF Init, StartupInit
<1>1. /\ ports \in [Ports -> {"free", "parent"}]
      /\ args \in Lines /\ file \in Confs /\ source \in Confs
  BY DEF Lines, Confs
<1>2. client \in [Clients -> Conn] /\ \A c \in Clients : client[c].st = "idle"
  <2>1. "idle" \in Stages
    BY DEF Stages
  <2> QED  BY <2>1, EndedConn, Zenon DEF Idle
<1>3. TypeOK
  <2>1. pc \in Unbound /\ asked \in BOOLEAN /\ heard \subseteq Servers
    BY Zenon DEF Unbound
  <2>2. ports \in [Ports -> Servers \cup {"free", "other", "parent"}]
    BY <1>1
  <2> QED
    BY <1>1, <1>2, <2>1, <2>2, Zenon DEF TypeOK
<1>4. Sourced /\ Wired /\ OnPort
  <2>1. \A s \in Servers : ~Listening(s)
    BY <1>1 DEF Listening, Servers
  <2>2. pc = "main" /\ pc \notin Bound /\ heard = {}
    BY DEF Bound
  <2> QED
    BY <2>1, <2>2, Zenon DEF Sourced, Wired, OnPort, Servers
<1>5. (\A c \in Clients : Reached(c)) /\ Told
  BY <1>2 DEF Reached, Connected, Told, AsService, Running
<1> QED
  BY <1>3, <1>4, <1>5 DEF StartInv

\* A failed step of start_server, or of main, ends the process.
LEMMA DieKeeps ==
    ASSUME StartInv, NEW code, Die(code), pc # "serving",
           code = 0 => service \/ settings.version \/ settings.commands
    PROVE  StartInv'
<1>1. End(code) /\ asked' = asked
  BY DEF Die
<1>2. asked \in BOOLEAN
  BY DEF StartInv, TypeOK
<1> QED
  BY <1>1, <1>2, EndKeeps

(***************************************************************************)
(* Every step of main and start_server keeps the invariant, whether it     *)
(* succeeds or fails.                                                      *)
(***************************************************************************)
LEMMA StartKeeps ==
    ASSUME StartInv, Start, UNCHANGED scm
    PROVE  StartInv'
<1> USE DEF StartFails
<1>1. CASE ReadSettings
  <2>1. pc = "main" /\ file \in Confs
    BY <1>1 DEF ReadSettings, StartInv, TypeOK
  <2>2. CASE Die(1) \/ Die(2)
    BY <2>1, <2>2, DieKeeps
  <2>3. CASE ~(Die(1) \/ Die(2))
    <3>1. /\ pc' = "dispatch" /\ settings' = read(args, file) /\ source' = file
          /\ UNCHANGED <<args, file, ports, client, asked, heard, exit>>
      BY <1>1, <2>3, Zenon DEF ReadSettings, envVars, netVars, sigVars
    <3> QED
      BY <2>1, <3>1, ConfigureKeeps DEF Unbound, AsService
  <2> QED  BY <2>2, <2>3
<1>2. CASE Dispatch
  <2>1. pc = "dispatch"
    BY <1>2 DEF Dispatch
  <2>2. CASE Die(1) \/ ((settings.version \/ settings.commands) /\ Die(0))
    BY <2>1, <2>2, DieKeeps
  <2>3. CASE ~(Die(1) \/ ((settings.version \/ settings.commands) /\ Die(0)))
    <3>1. /\ pc' = (IF service' THEN "service" ELSE "new")
          /\ UNCHANGED <<args, file, source, settings, ports, client, asked, heard, exit>>
      BY <1>2, <2>3 DEF Dispatch, envVars, netVars, sigVars
    <3>2. settings' = read(args, source') /\ file' \in Confs /\ source' \in Confs
      BY <2>1, <3>1 DEF StartInv, TypeOK, Sourced
    <3> QED
      BY <2>1, <3>1, <3>2, ConfigureKeeps DEF Unbound, AsService
  <2> QED  BY <2>2, <2>3
<1>3. CASE NewServer
  <2>1. CASE Advance("new", "listen")
    BY <2>1, AdvanceKeeps DEF Unbound, AsService
  <2>2. CASE pc = "new" /\ Die(1)
    BY <2>2, DieKeeps
  <2> QED  BY <1>3, <2>1, <2>2 DEF NewServer
<1>4. CASE Listen
  <2>1. pc = "listen"
    BY <1>4 DEF Listen
  <2>2. CASE Die(1)
    BY <2>1, <2>2, DieKeeps
  <2>3. CASE ~Die(1)
    <3>1. PICK p \in Inherited \cup Bindable(settings.port) :
            /\ ListenOn(p, "main", "root")
            /\ settings.fd = NoFd => p \in Bindable(settings.port)
      BY <1>4, <2>3 DEF Listen
    <3>2. /\ p \in Ports /\ ports[p] \in {"free", "parent"}
          /\ settings.fd = NoFd => settings.port \in {AnyPort, p}
      BY <3>1 DEF Inherited, Bindable
    <3> QED
      BY <2>1, <3>1, <3>2, ListenKeeps DEF Servers
  <2> QED  BY <2>2, <2>3
<1>5. CASE CheckRoot
  <2>1. CASE Advance("root", "options")
    BY <2>1, AdvanceKeeps DEF Bound, AsService
  <2>2. CASE pc = "root" /\ Die(1)
    BY <2>2, DieKeeps
  <2> QED  BY <1>5, <2>1, <2>2 DEF CheckRoot
<1>6. CASE InitOptions
  <2>1. CASE Advance("options", IF settings.http2 THEN "tls" ELSE "signals")
    BY <2>1, AdvanceKeeps DEF Bound, AsService
  <2>2. CASE pc = "options" /\ Die(Aborted)
    BY <2>2, DieKeeps DEF Aborted
  <2> QED  BY <1>6, <2>1, <2>2 DEF InitOptions
<1>7. CASE BuildTls
  <2>1. CASE Advance("tls", "signals")
    BY <2>1, AdvanceKeeps DEF Bound, AsService
  <2>2. CASE pc = "tls" /\ Die(1)
    BY <2>2, DieKeeps
  <2> QED  BY <1>7, <2>1, <2>2 DEF BuildTls
<1>8. CASE CreateSignals
  <2>1. CASE Advance("signals", IF RedirectOn THEN "redirect" ELSE "serving")
    <3>1. CASE RedirectOn
      BY <2>1, <3>1, AdvanceKeeps DEF Bound, AsService
    <3>2. CASE ~RedirectOn
      BY <2>1, <3>2, AdvanceKeeps DEF AsService
    <3> QED  BY <3>1, <3>2
  <2>2. CASE pc = "signals" /\ Die(1)
    BY <2>2, DieKeeps
  <2> QED  BY <1>8, <2>1, <2>2 DEF CreateSignals
<1>9. CASE ListenRedirect
  <2>1. CASE \E p \in Bindable(settings.https_redirect_from_port) :
               ListenOn(p, "redirect", "redirect_signals")
    <3>1. PICK p \in Bindable(settings.https_redirect_from_port) :
            ListenOn(p, "redirect", "redirect_signals")
      BY <2>1
    <3>2. pc = "redirect" /\ p \in Ports /\ ports[p] = "free"
      BY <1>9, <3>1 DEF ListenRedirect, Bindable
    <3> QED
      BY <3>1, <3>2, ListenKeeps DEF Servers
  <2>2. CASE pc = "redirect" /\ Die(1)
    BY <2>2, DieKeeps
  <2> QED  BY <1>9, <2>1, <2>2 DEF ListenRedirect
<1>10. CASE CreateRedirectSignals
  <2>1. CASE Advance("redirect_signals", "serving")
    BY <2>1, AdvanceKeeps DEF AsService
  <2>2. CASE pc = "redirect_signals" /\ Die(1)
    BY <2>2, DieKeeps
  <2> QED  BY <1>10, <2>1, <2>2 DEF CreateRedirectSignals
<1> QED
  BY <1>1, <1>2, <1>3, <1>4, <1>5, <1>6, <1>7, <1>8, <1>9, <1>10 DEF Start

(***************************************************************************)
(* So does every step of a connection.                                     *)
(***************************************************************************)
LEMMA VisitKeeps ==
    ASSUME StartInv, NEW c \in Clients, Serve(c) \/ Visit(c), UNCHANGED scm
    PROVE  StartInv'
<1> DEFINE k == client[c]
<1>1. k \in Conn /\ Reached(c)
  BY DEF StartInv, TypeOK
<1>2. ASSUME NEW st \in Stages \ (Connected \cup {"queued", "answered", "redirected"}),
             OnlyClient(c, Ended(st))
      PROVE  StartInv'
  BY <1>2, EndedConn, ClientKeeps
<1>3. CASE \E p \in Ports : Connect(c, p)
  <2>1. PICK p \in Ports : Connect(c, p)
    BY <1>3
  <2>2. CASE ports[p] \in {"free", "other"}
    <3>1. OnlyClient(c, Ended("refused")) \/ OnlyClient(c, Ended("elsewhere"))
      BY <2>1, <2>2 DEF Connect
    <3> QED
      BY <1>2, <3>1 DEF Stages, Settled, Connected
  <2>3. CASE ports[p] \notin {"free", "other"}
    <3> DEFINE conn == [Idle EXCEPT !.st = "queued", !.at = p]
    <3>1. OnlyClient(c, conn)
      BY <2>1, <2>3 DEF Connect
    <3>2. conn \in Conn /\ conn.st = "queued" /\ conn.at = p
      <4>1. Idle \in Conn /\ "queued" \in Stages
        BY EndedConn DEF Stages
      <4> QED  BY <4>1, Zenon DEF Conn
    <3>3. conn.st \notin Connected
      BY <3>2 DEF Connected
    <3> HIDE DEF conn
    <3> QED
      BY <3>1, <3>2, <3>3, ClientKeeps
  <2> QED  BY <2>2, <2>3
<1>4. CASE Speak(c)
  <2> DEFINE conn == [k EXCEPT !.sent = TRUE]
  <2>1. OnlyClient(c, conn) /\ k.st \in Connected
    BY <1>4 DEF Speak
  <2>2. conn \in Conn /\ conn.st = k.st /\ conn.server = k.server
    BY <1>1, Zenon DEF Conn
  <2>3. k.st \notin {"queued", "answered", "redirected"}
    BY <2>1 DEF Connected
  <2> HIDE DEF conn
  <2> QED
    BY <1>1, <2>1, <2>2, <2>3, ClientKeeps DEF Reached
<1>5. CASE Accept(c)
  <2> DEFINE s == ports[k.at]
             conn == [k EXCEPT !.server = s,
                        !.st = IF s = "main" /\ settings.http2 THEN "handshaking" ELSE "streaming"]
  <2>1. OnlyClient(c, conn) /\ pc = "serving" /\ k.at \in Ports /\ s \in Servers
    BY <1>1, <1>5 DEF Accept, Reached
  <2>2. /\ conn \in Conn /\ conn.server = s
        /\ conn.st \in Connected /\ conn.st \notin {"queued", "redirected"}
    BY <1>1, <2>1, Zenon DEF Conn, Stages, Connected
  <2>3. s = "redirect" => RedirectOn
    BY <2>1 DEF StartInv, Wired, Listening
  <2> HIDE DEF conn
  <2> QED
    BY <2>1, <2>2, <2>3, ClientKeeps
<1>6. CASE Handshake(c)
  <2> DEFINE conn == [k EXCEPT !.st = "streaming", !.sent = FALSE]
  <2>1. CASE OnlyClient(c, conn)
    <3>1. k.st \in Connected /\ pc = "serving"
      BY <1>6 DEF Handshake, Connected
    <3>2. conn \in Conn /\ conn.st = "streaming" /\ conn.server = k.server
      BY <1>1, Zenon DEF Conn, Stages, Connected
    <3> HIDE DEF conn
    <3> QED
      BY <1>1, <2>1, <3>1, <3>2, ClientKeeps DEF Reached
  <2>2. CASE OnlyClient(c, Ended("closed"))
    BY <1>2, <2>2 DEF Stages, Settled, Connected
  <2> QED  BY <1>6, <2>1, <2>2 DEF Handshake
<1>7. CASE Answer(c)
  <2>1. pc = "serving" /\ k.st \in Connected
    BY <1>7 DEF Answer, Connected
  <2>2. CASE OnlyClient(c, Ended("answered"))
    BY <2>1, <2>2, EndedConn, ClientKeeps DEF Stages, Settled, Connected
  <2>3. CASE k.server = "redirect" /\ OnlyClient(c, redirect_to_https)
    <3>1. settings.port \in Locations
      BY <2>1 DEF StartInv, TypeOK, Sourced, Locations
    <3>2. Ended("redirected") \in Conn /\ Ended("redirected").st = "redirected"
      BY EndedConn DEF Stages, Settled
    <3>3. /\ redirect_to_https \in Conn /\ redirect_to_https.st = "redirected"
          /\ redirect_to_https.location = settings.port
      BY <3>1, <3>2 DEF redirect_to_https, Conn
    <3>4. RedirectOn
      BY <1>1, <2>1, <2>3 DEF Reached
    <3> QED
      BY <2>1, <2>3, <3>3, <3>4, ClientKeeps DEF Connected
  <2>4. CASE OnlyClient(c, Ended("rejected"))
    BY <1>2, <2>4 DEF Stages, Settled, Connected
  <2> QED  BY <1>7, <2>2, <2>3, <2>4 DEF Answer
<1>8. CASE Leave(c)
  BY <1>2, <1>8 DEF Leave, Stages, Settled, Connected
<1>9. CASE Again(c)
  <2>1. OnlyClient(c, Idle) /\ Idle.st = "idle"
    BY <1>9 DEF Again, Idle
  <2>2. Idle \in Conn
    BY EndedConn DEF Stages
  <2> QED
    BY <2>1, <2>2, ClientKeeps DEF Connected
<1> QED
  BY <1>3, <1>4, <1>5, <1>6, <1>7, <1>8, <1>9 DEF Serve, Visit

(***************************************************************************)
(* The process returns only when asked: its servers close their listeners  *)
(* for no other reason.                                                    *)
(***************************************************************************)
LEMMA ReturnAsked ==
    ASSUME StartInv, Return
    PROVE  asked /\ \A s \in Servers : ~Listening(s)
<1>1. pc = "serving" /\ Drained
  BY DEF Return
<1>2. "main" \in Configured
  BY DEF Configured, Servers
<1>3. asked
  BY <1>1, <1>2 DEF StartInv, Wired, Drained
<1>4. \A s \in Servers \ Configured : ~Listening(s)
  BY DEF StartInv, Wired, Configured, Servers
<1> QED
  BY <1>1, <1>3, <1>4 DEF Drained

(***************************************************************************)
(* Signals, the return of the servers and the steps of the machine.        *)
(***************************************************************************)
LEMMA StartupKeeps ==
    ASSUME StartInv, StartupNext, UNCHANGED scm
    PROVE  StartInv'
<1>1. CASE InstallCtrlC
  BY <1>1, Unseen DEF InstallCtrlC, envVars, optVars, netVars
<1>2. CASE Signal
  <2>1. CASE Catchers = {}
    <3>1. End(Killed) /\ asked' = TRUE
      BY <1>2, <2>1 DEF Signal
    <3> QED
      BY <3>1, EndKeeps DEF Killed
  <2>2. CASE Catchers # {}
    <3>1. Catchers \subseteq Servers
      BY DEF Catchers, Configured, Servers
    <3>2. heard' \subseteq Servers
      BY <1>2, <2>2, <3>1 DEF Signal, StartInv, TypeOK
    <3>3. /\ asked' = TRUE
          /\ UNCHANGED <<pc, args, file, source, settings, service, ports, client, exit>>
      BY <1>2, <2>2, Zenon DEF Signal, envVars, optVars, netVars
    <3> QED
      BY <3>2, <3>3, AskedKeeps
  <2> QED  BY <2>1, <2>2
<1>3. CASE Return
  <2>1. CASE service
    BY <1>3, <2>1, AdvanceKeeps DEF Return
  <2>2. CASE ~service
    <3>1. Die(0)
      BY <1>3, <2>2 DEF Return
    <3> QED
      BY <1>3, <3>1, ReturnAsked, EndKeeps DEF Die, StartInv, TypeOK
  <2> QED  BY <2>1, <2>2
<1> QED
  BY <1>1, <1>2, <1>3, StartKeeps, DrainKeeps, VisitKeeps, TakePortKeeps DEF StartupNext

(***************************************************************************)
(* The steps of run_service, and of the service manager.                   *)
(***************************************************************************)
LEMMA ServiceKeeps ==
    ASSUME StartInv, Service \/ Notice \/ Stop
    PROVE  StartInv'
<1>1. pc \in AsService => service
  BY DEF StartInv, Told
<1>2. CASE EnterService
  <2>1. /\ pc = "service" /\ pc' = "service_main" /\ file' \in Confs
        /\ UNCHANGED <<args, source, settings, service, ports, client, asked, heard, exit, scm>>
    BY <1>2 DEF EnterService, optVars, netVars, sigVars, Confs
  <2>2. settings' = read(args, source') /\ source' \in Confs
    BY <2>1 DEF StartInv, TypeOK, Sourced
  <2> QED
    BY <1>1, <2>1, <2>2, ConfigureKeeps DEF Unbound, AsService
<1>3. CASE ReadAgain
  <2>1. /\ pc = "service_main" /\ pc' \in {"given_up", "register"}
        /\ UNCHANGED <<args, file, service, ports, client, asked, heard, exit, scm>>
    BY <1>3, Zenon DEF ReadAgain, envVars, netVars, sigVars
  <2>2. settings' = read(args, source') /\ source' \in Confs /\ file' \in Confs
    BY <1>3, <2>1, Zenon DEF ReadAgain, StartInv, TypeOK, Sourced
  <2> QED
    BY <1>1, <2>1, <2>2, ConfigureKeeps DEF Unbound, AsService
<1>4. CASE Register
  <2>1. /\ Advance("register", "running") \/ Advance("register", "given_up")
        /\ pc = "register" /\ UNCHANGED scm
    BY <1>4 DEF Register, Advance
  <2> QED
    BY <1>1, <2>1, AdvanceKeeps DEF Unbound, AsService
<1>5. CASE ReportRunning
  <2>1. /\ Advance("running", "new") \/ Advance("running", "given_up")
        /\ pc = "running" /\ (scm' = "running" \/ scm' = scm)
    BY <1>5 DEF ReportRunning, set_service_state, Advance
  <2> QED
    BY <1>1, <2>1, AdvanceKeeps DEF Unbound, AsService
<1>6. CASE NewFails
  BY <1>6, AdvanceKeeps DEF NewFails, Unbound
<1>7. CASE StopHandler
  <2>1. /\ Advance("stop_pending", "stopped") /\ pc = "stop_pending"
        /\ scm' = "stop_pending" \/ scm' = scm
    BY <1>7 DEF StopHandler, set_service_state, Advance
  <2> QED
    BY <1>1, <2>1, AdvanceKeeps DEF AsService
<1>8. CASE ReportStopped
  <2>1. Advance("stopped", "dispatcher") /\ pc = "stopped"
    BY <1>8 DEF ReportStopped, set_service_state, Advance
  <2> QED
    BY <1>1, <2>1, AdvanceKeeps DEF AsService
<1>9. CASE DispatcherReturns
  BY <1>1, <1>9, DieKeeps DEF DispatcherReturns, AsService
<1>10. CASE Notice
  <2>1. CASE pc = "given_up" /\ Die(0)
    BY <1>1, <2>1, DieKeeps DEF AsService
  <2>2. CASE pc = "exited" /\ UNCHANGED startupVars
    BY <2>2, Unseen DEF startupVars, envVars, optVars, netVars, sigVars
  <2> QED  BY <1>10, <2>1, <2>2 DEF Notice
<1>11. CASE Stop
  <2>1. CASE pc = "dispatcher" /\ End(Aborted)
    BY <1>11, <2>1, EndKeeps DEF Stop, Aborted
  <2>2. CASE ~(pc = "dispatcher" /\ End(Aborted))
    <3>1. /\ asked' = TRUE /\ (heard' = Configured \/ heard' = heard)
          /\ UNCHANGED <<pc, args, file, source, settings, service, ports, client, exit, scm>>
      BY <1>11, <2>2 DEF Stop, envVars, optVars, netVars
    <3>2. heard' \subseteq Servers
      BY <3>1, Zenon DEF StartInv, TypeOK, Configured, Servers
    <3> QED
      BY <3>1, <3>2, AskedKeeps
  <2> QED  BY <2>1, <2>2
<1> QED
  BY <1>2, <1>3, <1>4, <1>5, <1>6, <1>7, <1>8, <1>9, <1>10, <1>11 DEF Service

\* The invariant holds throughout.
LEMMA StartInvariant == Spec => []StartInv
<1>1. StartInv /\ [Next]_vars => StartInv'
  <2>1. ASSUME StartInv, UNCHANGED vars PROVE StartInv'
    BY <2>1, Unseen DEF vars, startupVars, envVars, optVars, netVars, sigVars
  <2> QED
    BY <2>1, StartupKeeps, ServiceKeeps DEF Next
<1> QED
  BY <1>1, StartInit, PTL DEF Spec

----------------------------------------------------------------------------
\* The theorems.

(***************************************************************************)
(* AllOrNothing: whatever step of start_server fails, and however the      *)
(* steps interleave with connecting clients, no client gets past a queue   *)
(* before every listener of the configuration is bound.                    *)
(***************************************************************************)
THEOREM AllOrNothingAlways == Spec => []AllOrNothing
<1>1. StartInv => AllOrNothing
  <2> SUFFICES ASSUME StartInv, ~asked, NEW c \in Clients,
                      client[c].st \in Connected \cup {"answered", "redirected"}
               PROVE  \A s \in Configured : Listening(s)
    BY DEF AllOrNothing
  <2>1. pc = "serving"
    BY DEF StartInv, Reached
  <2> QED  BY <2>1 DEF StartInv, Wired
<1> QED
  BY <1>1, StartInvariant, PTL

(***************************************************************************)
(* RedirectLeads: redirect_to_https sends a client to the port on which    *)
(* start_server bound the HTTPS listener.                                  *)
(***************************************************************************)
THEOREM RedirectLeadsAlways == Spec => []RedirectLeads
<1>1. StartInv => RedirectLeads
  <2> SUFFICES ASSUME StartInv, settings.fd = NoFd, settings.port # AnyPort, ~asked,
                      NEW c \in Clients, client[c].st = "redirected"
               PROVE  settings.http2 /\ ports[client[c].location] = "main"
    BY DEF RedirectLeads
  <2>1. pc = "serving" /\ RedirectOn /\ client[c].location = settings.port
    BY DEF StartInv, Reached
  <2> QED  BY <2>1 DEF StartInv, OnPort, RedirectOn
<1> QED
  BY <1>1, StartInvariant, PTL

(***************************************************************************)
(* SecureByDefault: the settings a process serves with were made by        *)
(* Settings::read, of whichever file it read last.                         *)
(***************************************************************************)
THEOREM SecureByDefaultAlways == Spec => []SecureByDefault
<1>1. StartInv => SecureByDefault
  <2> SUFFICES ASSUME StartInv, pc = "serving", settings.http2, ~settings.security_headers
               PROVE  \/ "security_headers" \in DOMAIN args
                      \/ HasGeneral(source) /\ "security_headers" \in DOMAIN source.general
    BY DEF SecureByDefault
  <2>1. settings = read(args, source) /\ args \in Lines /\ source \in Confs
    BY DEF StartInv, TypeOK, Sourced
  <2> QED  BY <2>1, ReadSecure
<1> QED
  BY <1>1, StartInvariant, PTL

(***************************************************************************)
(* FailureReported: no failing step of start_server ends the process with  *)
(* the status of success.                                                  *)
(***************************************************************************)
THEOREM FailureReportedAlways == Spec => []FailureReported
<1>1. StartInv => FailureReported
  BY DEF StartInv, Told, FailureReported
<1> QED
  BY <1>1, StartInvariant, PTL

(***************************************************************************)
(* StoppedMeansReleased: run_service reports Stopped after start_server    *)
(* returned, and start_server returns with no listener and no connection.  *)
(***************************************************************************)
THEOREM StoppedMeansReleasedAlways == Spec => []StoppedMeansReleased
<1>1. StartInv => StoppedMeansReleased
  <2> SUFFICES ASSUME StartInv, scm = "stopped"
               PROVE  /\ \A s \in Servers : ~Listening(s)
                      /\ \A c \in Clients : client[c].st \notin Connected
    BY DEF StoppedMeansReleased
  <2>1. pc \in {"dispatcher", "exited"}
    BY DEF StartInv, Told
  <2> QED  BY <2>1 DEF StartInv, Wired, Reached, Ending
<1> QED
  BY <1>1, StartInvariant, PTL

----------------------------------------------------------------------------
(***************************************************************************)
(* The process implements ServerLife.  A signal kills only a process that  *)
(* was not asked to stop before: once a handler is in place it stays.      *)
(***************************************************************************)
Caught ==
    /\ pc \in {"main", "dispatch"} => ~service
    /\ sender => service
    /\ ctrlc => pc \notin Unbound
    /\ asked /\ ~service /\ pc # "exited" =>
        IF windows THEN ctrlc ELSE pc \in {"redirect", "redirect_signals", "serving"}

\* The end of the process keeps Caught: nothing is caught after it.
LEMMA CaughtEnd ==
    ASSUME Caught, NEW code, End(code), sender' => sender
    PROVE  Caught'
  BY DEF Caught, End, envVars, optVars, Unbound

\* A step of start-up that succeeds keeps Caught: the handlers only get more.
LEMMA CaughtAdvance ==
    ASSUME Caught, NEW from, NEW to, Advance(from, to), sender' => sender \/ service,
           from # "exited", to \notin {"main", "dispatch"},
           to \in Unbound => from \in Unbound,
           from \in {"redirect", "redirect_signals", "serving"} =>
                service \/ to \in {"redirect", "redirect_signals", "serving"}
    PROVE  Caught'
  BY DEF Caught, Advance, envVars, optVars, sigVars

\* A step that takes the process from one step of start-up to another.
LEMMA CaughtStart ==
    ASSUME StartInv, Caught, Start, UNCHANGED sender
    PROVE  Caught'
<1> USE DEF StartFails, Die
<1>1. CASE \E code \in {0, 1, 2, Aborted} : Die(code)
  BY <1>1, CaughtEnd
<1>2. CASE ~\E code \in {0, 1, 2, Aborted} : Die(code)
  <2>1. CASE ReadSettings
    <3>1. pc = "main" /\ pc' = "dispatch" /\ UNCHANGED <<windows, service, asked, ctrlc>>
      BY <1>2, <2>1, Zenon DEF ReadSettings, envVars, sigVars
    <3> QED  BY <3>1 DEF Caught, Unbound
  <2>2. CASE Dispatch
    <3>1. /\ pc = "dispatch" /\ pc' \in {"service", "new"}
          /\ UNCHANGED <<windows, asked, ctrlc>>
      BY <1>2, <2>2 DEF Dispatch, envVars, sigVars
    <3> QED  BY <3>1 DEF Caught, Unbound
  <2>3. CASE Listen
    <3>1. pc = "listen" /\ pc' = "root" /\ UNCHANGED <<windows, service, asked, ctrlc>>
      BY <1>2, <2>3 DEF Listen, ListenOn, envVars, optVars, sigVars
    <3> QED  BY <3>1 DEF Caught, Unbound
  <2>4. CASE ListenRedirect
    <3>1. /\ pc = "redirect" /\ pc' = "redirect_signals"
          /\ UNCHANGED <<windows, service, asked, ctrlc>>
      BY <1>2, <2>4 DEF ListenRedirect, ListenOn, envVars, optVars, sigVars
    <3> QED  BY <3>1 DEF Caught, Unbound
  <2>5. CASE NewServer
    BY <1>2, <2>5, CaughtAdvance DEF NewServer, Unbound
  <2>6. CASE CheckRoot
    BY <1>2, <2>6, CaughtAdvance DEF CheckRoot, Unbound
  <2>7. CASE InitOptions
    BY <1>2, <2>7, CaughtAdvance DEF InitOptions, Unbound
  <2>8. CASE BuildTls
    BY <1>2, <2>8, CaughtAdvance DEF BuildTls, Unbound
  <2>9. CASE CreateSignals
    BY <1>2, <2>9, CaughtAdvance DEF CreateSignals, Unbound
  <2>10. CASE CreateRedirectSignals
    BY <1>2, <2>10, CaughtAdvance DEF CreateRedirectSignals, Unbound
  <2> QED
    BY <2>1, <2>2, <2>3, <2>4, <2>5, <2>6, <2>7, <2>8, <2>9, <2>10 DEF Start
<1> QED  BY <1>1, <1>2

\* Handlers stay in place, whatever the process does.
LEMMA CaughtInvariant == Spec => []Caught
<1>1. Init => Caught
  BY DEF Init, StartupInit, Caught
<1>2. StartInv /\ Caught /\ [Next]_vars => Caught'
  <2> SUFFICES ASSUME StartInv, Caught, [Next]_vars PROVE Caught'
    OBVIOUS
  <2> USE DEF Die
  <2>1. pc \in AsService => service
    BY DEF StartInv, Told
  <2>2. CASE UNCHANGED <<windows, service, pc, asked, ctrlc, sender>>
    BY <2>2 DEF Caught
  <2>3. CASE InstallCtrlC /\ UNCHANGED sender
    BY <2>3 DEF Caught, InstallCtrlC, envVars, optVars, Unbound
  <2>4. CASE Signal /\ UNCHANGED sender
    <3>1. CASE Catchers = {}
      BY <2>4, <3>1, CaughtEnd DEF Signal
    <3>2. CASE Catchers # {}
      <4>1. UNCHANGED <<windows, service, pc, ctrlc>>
        BY <2>4, <3>2 DEF Signal, envVars, optVars
      <4>2. IF windows THEN ctrlc ELSE pc \in {"redirect", "redirect_signals", "serving"}
        BY <3>2 DEF Catchers
      <4> QED  BY <2>4, <4>1, <4>2 DEF Caught
    <3> QED  BY <3>1, <3>2
  <2>5. CASE Return /\ UNCHANGED sender
    BY <2>5, CaughtEnd, CaughtAdvance DEF Return, Unbound
  <2>6. CASE EnterService \/ ReadAgain
    <3>1. /\ pc \in {"service", "service_main"}
          /\ pc' \in {"service_main", "given_up", "register"}
          /\ UNCHANGED <<windows, service, asked, ctrlc, sender>>
      BY <2>6, Zenon DEF EnterService, ReadAgain, envVars, optVars, sigVars
    <3> QED  BY <2>1, <3>1 DEF Caught, Unbound, AsService
  <2>7. CASE Register \/ ReportRunning \/ NewFails \/ StopHandler \/ ReportStopped
    <3>1. service
      BY <2>1, <2>7 DEF Register, ReportRunning, NewFails, StopHandler, ReportStopped,
                        set_service_state, Advance, AsService
    <3> QED
      BY <2>7, <3>1, CaughtAdvance
      DEF Register, ReportRunning, NewFails, StopHandler, ReportStopped, set_service_state,
          Unbound
  <2>8. CASE DispatcherReturns \/ (Notice /\ pc = "given_up" /\ Die(0))
    BY <2>8, CaughtEnd DEF DispatcherReturns, Notice
  <2>9. CASE Stop
    <3>1. service /\ ~sender'
      BY <2>9 DEF Stop, Caught
    <3>2. CASE pc = "dispatcher"
      BY <2>9, <3>1, <3>2, CaughtEnd DEF Stop
    <3>3. CASE pc # "dispatcher"
      <4>1. UNCHANGED <<windows, service, pc, ctrlc>>
        BY <2>9, <3>3, Zenon DEF Stop, envVars, optVars
      <4> QED  BY <3>1, <4>1 DEF Caught
    <3> QED  BY <3>2, <3>3
  <2>10. ASSUME \/ \E s \in Servers : Drain(s)
                \/ \E c \in Clients : Serve(c) \/ Visit(c)
                \/ \E p \in Ports : TakePort(p),
                UNCHANGED sender
         PROVE  UNCHANGED <<windows, service, pc, asked, ctrlc, sender>>
    BY <2>10, Zenon
    DEF Drain, TakePort, Serve, Visit, Accept, Handshake, Answer, Connect, Speak, Leave,
        Again, OnlyClient, envVars, optVars, sigVars
  <2>11. CASE (Notice /\ ~(pc = "given_up" /\ Die(0))) \/ UNCHANGED vars
    BY <2>2, <2>11 DEF Notice, vars, startupVars, envVars, optVars, sigVars
  <2> QED
    BY <2>2, <2>3, <2>4, <2>5, <2>6, <2>7, <2>8, <2>9, <2>10, <2>11, CaughtStart
    DEF Next, StartupNext, Service
<1> QED
  BY <1>1, <1>2, StartInvariant, PTL DEF Spec

----------------------------------------------------------------------------
\* What ServerLife sees of the steps.

\* A process that does not serve accepts nothing and has accepted nothing,
\* before a step and after it.
LEMMA Down ==
    /\ StartInv /\ pc # "serving" => Accepting = {} /\ Accepted = {}
    /\ StartInv' /\ pc' # "serving" => Accepting' = {} /\ Accepted' = {}
  BY DEF StartInv, Reached, Accepting, Accepted

\* The phases of the steps, before a step and after it.
LEMMA Phases ==
    /\ pc \in Unbound \cup Bound => Phase = "starting" /\ pc # "serving"
    /\ pc' \in Unbound \cup Bound => Phase' = "starting" /\ pc' # "serving"
    /\ pc \in Ending => Phase = "over" /\ pc # "serving"
    /\ pc' \in Ending => Phase' = "over" /\ pc' # "serving"
    /\ pc = "serving" => Phase = "serving"
    /\ pc' = "serving" => Phase' = "serving"
    /\ Configured \in SUBSET Servers
    /\ Configured' \in SUBSET Servers
  BY DEF Unbound, Bound, Ending, Phase, Configured, Servers

\* Start-up goes on, with the settings it has or with others.
LEMMA LifeConfigure ==
    ASSUME StartInv, StartInv', pc \in Unbound \cup Bound, pc' \in Unbound \cup Bound,
           UNCHANGED asked
    PROVE  Life!Next
<1>1. Life!Configure
  BY Down, Phases, Zenon DEF Life!Configure
<1> QED
  BY <1>1 DEF Life!Next

\* Start-up is given up.
LEMMA LifeFail ==
    ASSUME StartInv, StartInv', pc \in Unbound \cup Bound, pc' \in Ending,
           UNCHANGED <<asked, settings>>
    PROVE  Life!Next
<1>1. Life!Fail
  BY Down, Phases DEF Life!Fail, Configured, RedirectOn
<1> QED
  BY <1>1 DEF Life!Next

\* Serving begins, with every server of the configuration.
LEMMA LifeBegin ==
    ASSUME StartInv, StartInv', pc' = "serving", UNCHANGED <<asked, settings, ports, client>>,
           \/ pc = "signals" /\ ~RedirectOn
           \/ pc = "redirect_signals"
    PROVE  Life!Next
<1>1. pc \in Bound
  BY DEF Bound
<1>2. \A s \in Servers : Listening(s)' <=> s \in Configured
  BY <1>1 DEF StartInv, Wired, Listening, Configured, Servers
<1>3. Accepting' = Configured
  BY <1>2, Phases DEF Accepting
<1>4. UNCHANGED <<Configured, Accepted>>
  BY DEF Configured, RedirectOn, Accepted
<1>5. Life!Begin
  BY <1>1, <1>3, <1>4, Phases DEF Life!Begin
<1> QED
  BY <1>5 DEF Life!Next

\* A step of main and start_server goes on, gives up or begins.
LEMMA LifeStart ==
    ASSUME StartInv, StartInv', Start
    PROVE  Life!Next
<1> USE DEF StartFails
<1>1. pc \in Unbound \cup Bound /\ UNCHANGED asked
  BY Zenon DEF Start, ReadSettings, Dispatch, NewServer, Listen, CheckRoot, InitOptions, BuildTls,
         CreateSignals, ListenRedirect, CreateRedirectSignals, Advance, ListenOn, Die, sigVars,
         Unbound, Bound
<1>2. CASE \E code \in {0, 1, 2, Aborted} : Die(code)
  BY <1>1, <1>2, LifeFail DEF Die, End, optVars, Ending
<1>3. CASE ~\E code \in {0, 1, 2, Aborted} : Die(code)
  <2>1. CASE CreateSignals /\ ~RedirectOn
    BY <1>3, <2>1, LifeBegin DEF CreateSignals, Advance, optVars, netVars, sigVars
  <2>2. CASE CreateRedirectSignals
    BY <1>3, <2>2, LifeBegin DEF CreateRedirectSignals, Advance, optVars, netVars, sigVars
  <2>3. CASE ~(CreateSignals /\ ~RedirectOn) /\ ~CreateRedirectSignals
    <3>1. pc' \in Unbound \cup Bound
      <4>1. CASE ReadSettings \/ Dispatch \/ NewServer \/ Listen
        BY <1>3, <4>1, Zenon
        DEF ReadSettings, Dispatch, NewServer, Listen, Advance, ListenOn, Unbound, Bound
      <4>2. CASE CheckRoot \/ InitOptions \/ BuildTls \/ ListenRedirect
        BY <1>3, <4>2
        DEF CheckRoot, InitOptions, BuildTls, ListenRedirect, Advance, ListenOn, Bound
      <4>3. CASE CreateSignals
        BY <1>3, <2>3, <4>3 DEF CreateSignals, Advance, Bound
      <4> QED  BY <2>3, <4>1, <4>2, <4>3 DEF Start
    <3> QED
      BY <1>1, <3>1, LifeConfigure
  <2> QED  BY <2>1, <2>2, <2>3
<1> QED  BY <1>2, <1>3

\* What ServerLife sees of the process depends on nothing else.
LEMMA LifeSame ==
    ASSUME UNCHANGED <<pc, asked, settings>>, UNCHANGED Accepting, UNCHANGED Accepted
    PROVE  UNCHANGED Life!lifeVars
  BY DEF Life!lifeVars, Phase, Configured, RedirectOn

\* A connection is accepted, goes on or ends.
LEMMA LifeVisit ==
    ASSUME StartInv, NEW c \in Clients, Serve(c) \/ Visit(c)
    PROVE  Life!Next \/ UNCHANGED Life!lifeVars
<1>1. /\ UNCHANGED <<pc, asked, settings, ports>>
      /\ UNCHANGED <<Phase, Configured, Accepting>>
  <2>1. UNCHANGED <<pc, asked, settings, ports>>
    BY Zenon DEF Serve, Visit, Accept, Handshake, Answer, Connect, Speak, Leave, Again, OnlyClient,
                 optVars, sigVars
  <2> QED  BY <2>1 DEF Phase, Configured, RedirectOn, Accepting, Listening
<1>2. \A conn : OnlyClient(c, conn) =>
        Accepted' = IF conn.st \in Connected THEN Accepted \cup {c} ELSE Accepted \ {c}
  BY DEF OnlyClient, Accepted, StartInv, TypeOK
<1>3. ASSUME NEW conn, OnlyClient(c, conn), conn.st \notin Connected PROVE Life!Next
  <2>1. Life!Close(c)
    BY <1>1, <1>2, <1>3 DEF Life!Close
  <2> QED  BY <2>1 DEF Life!Next
<1>4. ASSUME NEW conn, OnlyClient(c, conn), conn.st \in Connected, client[c].st \in Connected
      PROVE  UNCHANGED Life!lifeVars
  <2>1. Accepted' = Accepted
    BY <1>2, <1>4 DEF Accepted
  <2> QED  BY <1>1, <2>1, LifeSame
<1>5. client[c] \in Conn
  BY DEF StartInv, TypeOK
<1>6. CASE Accept(c)
  <2> DEFINE s == ports[client[c].at]
             conn == [client[c] EXCEPT !.server = s,
                        !.st = IF s = "main" /\ settings.http2 THEN "handshaking" ELSE "streaming"]
  <2>1. OnlyClient(c, conn) /\ pc = "serving" /\ client[c].at \in Ports /\ s \in Servers
    BY <1>6 DEF Accept, StartInv, Reached
  <2>2. conn.st \in Connected
    BY <1>5 DEF Conn, Connected
  <2>3. Accepting # {}
    BY <2>1, Zenon DEF Accepting, Listening
  <2> HIDE DEF conn
  <2>4. Life!Open(c)
    BY <1>1, <1>2, <2>1, <2>2, <2>3, Phases, Zenon DEF Life!Open
  <2> QED  BY <2>4 DEF Life!Next
<1>7. CASE Speak(c)
  <2> DEFINE conn == [client[c] EXCEPT !.sent = TRUE]
  <2>1. OnlyClient(c, conn) /\ client[c].st \in Connected
    BY <1>7 DEF Speak
  <2>2. conn.st = client[c].st
    BY <1>5 DEF Conn
  <2> HIDE DEF conn
  <2> QED  BY <1>4, <2>1, <2>2
<1>8. CASE Handshake(c)
  <2> DEFINE conn == [client[c] EXCEPT !.st = "streaming", !.sent = FALSE]
  <2>1. client[c].st \in Connected /\ conn.st \in Connected
    BY <1>5, <1>8 DEF Handshake, Connected, Conn
  <2>2. Ended("closed").st \notin Connected
    BY Zenon DEF Ended, Idle, Connected
  <2> HIDE DEF conn
  <2> QED  BY <1>3, <1>4, <1>8, <2>1, <2>2 DEF Handshake, conn
<1>9. CASE Answer(c)
  <2>1. /\ Ended("answered").st \notin Connected /\ Ended("rejected").st \notin Connected
        /\ redirect_to_https.st \notin Connected
    BY DEF Ended, redirect_to_https, Idle, Connected
  <2> QED  BY <1>3, <1>9, <2>1 DEF Answer
<1>10. CASE Leave(c) \/ Again(c)
  <2>1. Ended("closed").st \notin Connected /\ Idle.st \notin Connected
    BY DEF Ended, Idle, Connected
  <2> QED  BY <1>3, <1>10, <2>1 DEF Leave, Again
<1>11. CASE \E p \in Ports : Connect(c, p)
  <2>1. PICK p \in Ports : Connect(c, p)
    BY <1>11
  <2> DEFINE conn == [Idle EXCEPT !.st = "queued", !.at = p]
  <2>2. /\ Ended("refused").st \notin Connected /\ Ended("elsewhere").st \notin Connected
        /\ conn.st \notin Connected
    BY DEF Ended, Idle, Connected
  <2>3. OnlyClient(c, Ended("refused")) \/ OnlyClient(c, Ended("elsewhere")) \/ OnlyClient(c, conn)
    BY <2>1 DEF Connect
  <2> HIDE DEF conn
  <2> QED  BY <1>3, <2>2, <2>3
<1> QED
  BY <1>6, <1>7, <1>8, <1>9, <1>10, <1>11 DEF Serve, Visit

\* A listener is closed: no connection that was accepted ends with it.
LEMMA LifeDrain ==
    ASSUME StartInv, NEW s \in Servers, Drain(s)
    PROVE  Life!Next
<1>1. pc = "serving" /\ asked /\ UNCHANGED <<pc, asked, settings>>
  BY DEF Drain, StartInv, Wired, optVars, sigVars
<1>2. \A t \in Servers : Listening(t)' <=> Listening(t) /\ t # s
  BY DEF Drain, Closed, Listening, Servers, StartInv, TypeOK
<1>3. Accepting' = Accepting \ {s}
  BY <1>1, <1>2 DEF Accepting
<1>4. Accepted' = Accepted
  <2>1. \A c \in Clients : client'[c].st \in Connected <=> client[c].st \in Connected
    BY DEF Drain, Reset, Ended, Idle, Connected
  <2> QED  BY <2>1 DEF Accepted
<1>5. Life!StopAccepting(s)
  BY <1>1, <1>3, <1>4, Phases DEF Life!StopAccepting, Configured, RedirectOn, Phase
<1> QED
  BY <1>5 DEF Life!Next

\* A request to stop is one ServerLife knows: asked for, or the end of a process
\* that nobody had asked before.
LEMMA LifeAsk ==
    ASSUME StartInv, StartInv', Caught, Signal \/ Stop
    PROVE  Life!Next
<1>1. asked' = TRUE /\ UNCHANGED settings
  BY Zenon DEF Signal, Stop, End, optVars
<1>2. UNCHANGED Configured
  BY <1>1 DEF Configured, RedirectOn
<1>3. CASE UNCHANGED <<pc, ports, client>>
  <2>1. Life!Ask
    BY <1>1, <1>2, <1>3 DEF Life!Ask, Phase, Accepting, Accepted, Listening
  <2> QED  BY <2>1 DEF Life!Next
<1>4. CASE Signal /\ ~UNCHANGED <<pc, ports, client>>
  <2>1. Catchers = {} /\ pc # "exited" /\ ~service /\ pc' = "exited"
    BY <1>4, Zenon DEF Signal, End, netVars
  <2>2. "main" \in Configured
    BY DEF Configured, Servers
  <2>3. ~asked
    BY <2>1, <2>2 DEF Caught, Catchers
  <2>4. Life!Kill
    BY <1>1, <1>2, <2>1, <2>3, Down, Phases DEF Life!Kill, Ending
  <2> QED  BY <2>4 DEF Life!Next
<1>5. CASE Stop /\ ~UNCHANGED <<pc, ports, client>>
  <2>1. pc = "dispatcher" /\ pc' = "exited"
    BY <1>5, Zenon DEF Stop, End, netVars
  <2>2. Life!Ask
    BY <1>1, <1>2, <2>1, Down, Phases DEF Life!Ask, Ending
  <2> QED  BY <2>2 DEF Life!Next
<1> QED  BY <1>3, <1>4, <1>5

\* start_server returns when nothing is left to serve.
LEMMA LifeReturn ==
    ASSUME StartInv, StartInv', Return
    PROVE  Life!Next
<1>1. pc = "serving" /\ pc' \in Ending /\ UNCHANGED <<settings, asked>>
  BY DEF Return, Advance, Die, End, optVars, sigVars, Ending
<1>2. Accepting = {} /\ Accepted = {}
  BY <1>1, ReturnAsked DEF Return, Accepting, Accepted
<1>3. Life!Return
  BY <1>1, <1>2, Down, Phases DEF Life!Return, Configured, RedirectOn
<1> QED
  BY <1>3 DEF Life!Next

\* Of a service, ServerLife sees the second reading and the failures before serving.
LEMMA LifeService ==
    ASSUME StartInv, StartInv', Service \/ Notice
    PROVE  Life!Next \/ UNCHANGED Life!lifeVars
<1>1. CASE EnterService \/ ReadAgain \/ Register \/ ReportRunning
  <2>1. pc \in Unbound /\ pc' \in Unbound /\ UNCHANGED asked
    BY <1>1, Zenon DEF EnterService, ReadAgain, Register, ReportRunning, set_service_state, Advance,
                sigVars, Unbound
  <2> QED  BY <2>1, LifeConfigure
<1>2. CASE NewFails \/ (Notice /\ pc # "exited")
  <2>1. pc \in Unbound /\ pc' \in Ending /\ UNCHANGED <<asked, settings>>
    BY <1>2, Zenon DEF NewFails, Notice, Advance, Die, End, optVars, sigVars, Unbound, Ending
  <2> QED  BY <2>1, LifeFail
<1>3. CASE StopHandler \/ ReportStopped \/ DispatcherReturns \/ (Notice /\ pc = "exited")
  <2>1. pc \in Ending /\ pc' \in Ending /\ UNCHANGED <<asked, settings>>
    <3>1. CASE StopHandler \/ ReportStopped \/ DispatcherReturns
      BY <3>1, Zenon DEF StopHandler, ReportStopped, DispatcherReturns, set_service_state, Advance,
                  Die, End, optVars, sigVars, Ending
    <3>2. CASE Notice /\ pc = "exited"
      BY <3>2 DEF Notice, startupVars, optVars, sigVars, Ending
    <3> QED  BY <1>3, <3>1, <3>2
  <2> QED
    BY <2>1, Down, Phases DEF Life!lifeVars, Configured, RedirectOn
<1> QED
  BY <1>1, <1>2, <1>3 DEF Service

(***************************************************************************)
(* The safety part of ImplementsLife: main, start_server and run_service,  *)
(* with their clients, the signals and the service manager, do only what   *)
(* ServerLife allows.  That start-up does not hang is left to TLC.         *)
(***************************************************************************)
THEOREM StartupImplementsLife == Spec => Life!Safety
<1>1. Init => Life!Init
  <2> SUFFICES ASSUME Init PROVE Life!Init
    OBVIOUS
  <2>1. StartInv /\ pc = "main" /\ ~asked
    BY StartInit DEF Init, StartupInit
  <2>2. Phase = "starting" /\ Configured \subseteq Servers
    BY <2>1 DEF Phase, Configured, Servers
  <2> QED
    BY <2>1, <2>2, Down DEF Life!Init, Life!Nothing
<1>2. StartInv /\ StartInv' /\ Caught /\ [Next]_vars => [Life!Next]_(Life!lifeVars)
  <2> SUFFICES ASSUME StartInv, StartInv', Caught, [Next]_vars
               PROVE  Life!Next \/ UNCHANGED Life!lifeVars
    OBVIOUS
  <2>1. ASSUME NEW p \in Ports, TakePort(p) PROVE UNCHANGED Life!lifeVars
    <3>1. UNCHANGED <<pc, asked, settings, client>>
      BY <2>1 DEF TakePort, optVars, sigVars
    <3>2. \A s \in Servers : Listening(s)' <=> Listening(s)
      BY <2>1 DEF TakePort, Listening, Servers, StartInv, TypeOK
    <3> QED
      BY <3>1, <3>2, LifeSame DEF Accepting, Accepted
  <2>2. CASE InstallCtrlC \/ UNCHANGED vars
    <3>1. UNCHANGED <<pc, asked, settings, ports, client>>
      BY <2>2 DEF InstallCtrlC, vars, startupVars, optVars, netVars, sigVars
    <3> QED
      BY <3>1, LifeSame DEF Accepting, Accepted, Listening
  <2> QED
    BY <2>1, <2>2, LifeStart, LifeVisit, LifeDrain, LifeAsk, LifeReturn, LifeService
    DEF Next, StartupNext
<1> QED
  BY <1>1, <1>2, StartInvariant, CaughtInvariant, PTL DEF Spec, Life!Safety

=============================================================================
