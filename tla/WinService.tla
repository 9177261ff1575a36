------------------------------ MODULE WinService ------------------------------
(***************************************************************************)
(* The process of Startup as a Windows service (src/src/winservice.rs),    *)
(* with the service control manager (scm) beside it.  A process that is no *)
(* service goes its way as in Startup.                                     *)
(*                                                                         *)
(* run_service reads the settings a second time, in another directory,     *)
(* reports Running before the server has bound anything, and hands the     *)
(* server a watch channel a Stop control sends on.                         *)
(***************************************************************************)
EXTENDS Startup

VARIABLES
    scm,     \* the state of the service the manager shows
    sender   \* whether the event handler still has its sender

vars == <<startupVars, scm, sender>>

Init == StartupInit /\ scm = "start_pending" /\ sender = FALSE

\* set_service_state, and the step that comes next; the call may fail.
set_service_state(from, state, done, failed) ==
    \/ Advance(from, done) /\ scm' = state /\ UNCHANGED sender
    \/ Advance(from, failed) /\ UNCHANGED <<scm, sender>>

----------------------------------------------------------------------------
\* run_server_as_service changes the directory: a relative path now names
\* another file, and any file may have been edited meanwhile.
EnterService ==
    /\ pc = "service"
    /\ pc' = "service_main"
    /\ file' \in {s.file : s \in Scenarios}
    /\ UNCHANGED <<windows, args, optVars, netVars, sigVars, exit, scm, sender>>

\* run_service: Settings::get(false); an error is logged and the thread ends.
ReadAgain ==
    /\ pc = "service_main"
    /\ IF ReadFails(args, file, FALSE) THEN pc' = "given_up" /\ UNCHANGED <<settings, source>>
       ELSE /\ pc' = "register"
            /\ settings' = read(args, file)
            /\ source' = file
    /\ UNCHANGED <<envVars, service, netVars, sigVars, exit, scm, sender>>

\* The event handler is registered, then Running is reported.
Register ==
    \/ Advance("register", "running") /\ sender' = TRUE /\ UNCHANGED scm
    \/ Advance("register", "given_up") /\ UNCHANGED <<scm, sender>>

ReportRunning == set_service_state("running", "running", "new", "given_up")

\* Server::new fails.
NewFails == Advance("new", "stopped") /\ service /\ UNCHANGED <<scm, sender>>

\* stop_handler, the last call of start_server.
StopHandler == set_service_state("stop_pending", "stop_pending", "stopped", "stopped")

ReportStopped == set_service_state("stopped", "stopped", "dispatcher", "dispatcher")

\* run_service is over: the dispatcher returns, and main with it.
DispatcherReturns == pc = "dispatcher" /\ Die(0) /\ UNCHANGED <<scm, sender>>

\* The manager notices that the process is gone, or gives up waiting for it.
Notice ==
    /\ scm # "stopped"
    /\ \/ service /\ pc = "exited" /\ UNCHANGED startupVars
       \/ pc = "given_up" /\ Die(0)
    /\ scm' = "stopped"
    /\ UNCHANGED sender

\* Mutant: a Stop is passed on only to servers that listen already.
StopIfListening ==
    /\ scm \in {"running", "stop_pending"}
    /\ pc # "exited"
    /\ sender
    /\ sender' = FALSE
    /\ asked' = TRUE
    /\ heard' = IF settings.windows_service THEN {s \in Configured : Listening(s)} ELSE heard
    /\ UNCHANGED <<envVars, optVars, netVars, ctrlc, pc, exit, scm>>

(***************************************************************************)
(* ServiceControl::Stop: the sender is taken, sends, and is dropped, so    *)
(* both servers hear of it, whenever they first wait (wait_for_ctrl_c).    *)
(* A server whose settings do not say windows_service waits for ctrl+c.    *)
(* Once run_service has returned nobody is left to receive: a panic.       *)
(***************************************************************************)
Stop ==
    /\ scm \in {"running", "stop_pending"}
    /\ pc # "exited"
    /\ sender
    /\ sender' = FALSE
    /\ asked' = TRUE
    /\ \/ pc = "dispatcher" /\ End(Aborted)
       \/ /\ pc # "dispatcher"
          /\ heard' = IF settings.windows_service THEN Configured ELSE heard
          /\ UNCHANGED <<envVars, optVars, netVars, ctrlc, pc, exit>>
    /\ UNCHANGED scm

Service ==
    \/ EnterService \/ ReadAgain \/ Register \/ ReportRunning \/ NewFails \/ StopHandler
    \/ ReportStopped \/ DispatcherReturns

Next ==
    \/ StartupNext /\ UNCHANGED <<scm, sender>>
    \/ Service
    \/ Notice
    \/ Stop

Spec == Init /\ [][Next]_vars

Fairness == StartupFairness /\ WF_vars(Service) /\ WF_vars(Notice)

FairSpec == Spec /\ Fairness
----------------------------------------------------------------------------
\* Properties.

(***************************************************************************)
(* The process lives as ServerLife says: up as a whole or not at all, down *)
(* only when asked to, and every connection it accepted served to its end. *)
(* The last steps of a service, after start_server returned, change        *)
(* nothing seen there.                                                     *)
(***************************************************************************)
Phase ==
    IF pc = "serving" THEN "serving"
    ELSE IF pc \in {"stop_pending", "stopped", "dispatcher", "exited"} THEN "over"
    ELSE "starting"

Accepting == IF pc = "serving" THEN {s \in Servers : Listening(s)} ELSE {}
Accepted == {c \in Clients : client[c].st \in Connected}

Life == INSTANCE ServerLife WITH
            AllServers <- Servers, Connections <- Clients,
            phase <- Phase, configured <- Configured, stopping <- asked,
            up <- Accepting, open <- Accepted

ImplementsLife == Life!Spec

(***************************************************************************)
(* A stop request is honoured at whatever step of start-up it arrives: the *)
(* process ends, and the manager is told, unless a peer keeps a connection *)
(* open.  On Unix this is so for one server (see TermStops for two); as a  *)
(* service, if the second reading of the settings still says so.           *)
(***************************************************************************)
StopHonoured ==
    asked /\ (IF windows THEN service => settings.windows_service ELSE ~RedirectOn) ~>
        \/ pc = "exited" /\ (service => scm = "stopped")
        \/ \E c \in Clients \ Honest : client[c].st \in Connected

(***************************************************************************)
(* A service the manager shows as stopped holds no port and no connection  *)
(* any more, though its process may still be there.                        *)
(***************************************************************************)
StoppedMeansReleased ==
    scm = "stopped" =>
        /\ \A s \in Servers : ~Listening(s)
        /\ \A c \in Clients : client[c].st \notin Connected

=============================================================================
