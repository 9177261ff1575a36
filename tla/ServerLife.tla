------------------------------ MODULE ServerLife ------------------------------
(***************************************************************************)
(* What Server::run_standalone promises of the life of a process           *)
(* (src/src/server.rs), seen from outside: it comes up with every server   *)
(* of its configuration or with none, its servers stop accepting only when *)
(* asked to, and it returns when the last connection has been served.      *)
(*                                                                         *)
(* Startup implements Spec.  Shutdown, which begins with the servers up,   *)
(* implements ServingSpec.                                                 *)
(***************************************************************************)
CONSTANTS
    AllServers,   \* the servers a process may run
    Connections   \* the connections clients may open

VARIABLES
    phase,        \* "starting", "serving" or "over"
    configured,   \* the servers the configuration asks for
    up,           \* the servers that accept connections
    open,         \* the connections being served
    stopping      \* whether the process was asked to stop

lifeVars == <<phase, configured, up, open, stopping>>

Nothing == up = {} /\ open = {} /\ ~stopping

Init == phase = "starting" /\ configured \subseteq AllServers /\ Nothing

ServingInit ==
    /\ phase = "serving"
    /\ configured = AllServers
    /\ up = AllServers
    /\ open = {}
    /\ ~stopping

----------------------------------------------------------------------------
\* The settings are read, perhaps more than once.
Configure ==
    /\ phase = "starting"
    /\ configured' \in SUBSET AllServers
    /\ UNCHANGED <<phase, up, open, stopping>>

Begin ==
    /\ phase = "starting"
    /\ phase' = "serving"
    /\ up' = configured
    /\ UNCHANGED <<configured, open, stopping>>

\* A step of start-up failed, or there was nothing to serve.
Fail ==
    /\ phase = "starting"
    /\ phase' = "over"
    /\ UNCHANGED <<configured, up, open, stopping>>

\* A signal, before anybody listens for one.
Kill ==
    /\ ~stopping
    /\ stopping' = TRUE
    /\ phase' = "over"
    /\ up' = {} /\ open' = {}
    /\ UNCHANGED configured

Ask ==
    /\ stopping' = TRUE
    /\ UNCHANGED <<phase, configured, up, open>>

Open(k) ==
    /\ phase = "serving"
    /\ up # {}
    /\ open' = open \cup {k}
    /\ UNCHANGED <<phase, configured, up, stopping>>

Close(k) ==
    /\ open' = open \ {k}
    /\ UNCHANGED <<phase, configured, up, stopping>>

StopAccepting(s) ==
    /\ phase = "serving"
    /\ stopping
    /\ up' = up \ {s}
    /\ UNCHANGED <<phase, configured, open, stopping>>

Return ==
    /\ phase = "serving"
    /\ up = {}
    /\ open = {}
    /\ phase' = "over"
    /\ UNCHANGED <<configured, up, open, stopping>>

Next ==
    \/ Configure
    \/ Begin
    \/ Fail
    \/ Kill
    \/ Ask
    \/ \E k \in Connections : Open(k) \/ Close(k)
    \/ \E s \in AllServers : StopAccepting(s)
    \/ Return

Safety == Init /\ [][Next]_lifeVars

\* Start-up does not hang.
Spec == Safety /\ WF_lifeVars(Begin \/ Fail)

ServingSpec == ServingInit /\ [][Next]_lifeVars

=============================================================================
