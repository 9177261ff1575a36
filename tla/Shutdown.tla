------------------------------- MODULE Shutdown -------------------------------
(***************************************************************************)
(* Graceful shutdown on Unix: wait_for_signals (src/src/signals.rs) and    *)
(* its use by start_server (src/src/server.rs).  Each server (the main     *)
(* one, and the HTTP-to-HTTPS redirect server beside it) has a signal      *)
(* stream of its own, but all share one cancel receiver behind a mutex.    *)
(***************************************************************************)
EXTENDS Naturals, FiniteSets

CONSTANTS
    Servers,      \* the servers start_server runs side by side
    Conns,        \* connections clients may open
    GracePeriod,  \* is there a grace period (grace_period_secs > 0)?
    MaxCancels    \* bound on the values the embedder sends

NotOpen == "not open"

ASSUME ServersAssumption ==
    /\ Servers # {}
    /\ IsFiniteSet(Servers)
    /\ NotOpen \notin Servers
ASSUME ShutdownOptionsAssumption ==
    /\ GracePeriod \in BOOLEAN
    /\ MaxCancels \in Nat

VARIABLES
    pending,     \* pending[s]: signals caught by the stream of s, not yet read
    sigTask,     \* the task of s that reads its signals
    cancelTask,  \* the task of s that waits on the cancel receiver
    lock,        \* the servers whose task holds the mutex of the receiver
    sent,        \* the version of the watch channel
    seen,        \* the version the shared receiver saw last
    sender,      \* the sender of the watch channel
    chan,        \* messages in the mpsc channel of s
    waiter,      \* the wait_for_signals future of s
    server,      \* the hyper server s
    conn,        \* conn[k]: the server of connection k, if open
    main,        \* start_server itself
    raised       \* history: the signals raised so far

sigVars == <<pending, sigTask, raised>>
cancelVars == <<cancelTask, lock, sent, seen, sender>>
serverVars == <<server, conn, main>>
vars == <<sigVars, cancelVars, chan, waiter, serverVars>>

Signals == {"HUP", "TERM"}      \* SIGINT and SIGQUIT are handled as SIGTERM

TypeOK ==
    /\ pending \in [Servers -> SUBSET Signals]
    /\ sigTask \in [Servers -> {"unspawned", "reading", "sending", "ended"}]
    /\ cancelTask \in [Servers -> {"unspawned", "locking", "waiting", "sending", "ended"}]
    /\ lock \in SUBSET Servers
    /\ sent \in Nat
    /\ seen \in Nat
    /\ sender \in {"none", "alive", "dropped"}
    /\ chan \in [Servers -> {0, 1}]
    /\ waiter \in [Servers -> {"unpolled", "recv", "grace", "done"}]
    /\ server \in [Servers -> {"serving", "draining", "stopped"}]
    /\ conn \in [Conns -> Servers \cup {NotOpen}]
    /\ main \in {"running", "returned"}
    /\ raised \in SUBSET Signals

Init ==
    /\ pending = [s \in Servers |-> {}]
    /\ sigTask = [s \in Servers |-> "unspawned"]
    /\ cancelTask = [s \in Servers |-> "unspawned"]
    /\ lock = {}
    /\ sent = 0
    /\ seen = 0
    /\ sender \in {"none", "alive"}      \* was a cancel receiver passed at all?
    /\ chan = [s \in Servers |-> 0]
    /\ waiter = [s \in Servers |-> "unpolled"]
    /\ server = [s \in Servers |-> "serving"]
    /\ conn = [k \in Conns |-> NotOpen]
    /\ main = "running"
    /\ raised = {}

----------------------------------------------------------------------------
\* Mutant: a server registers for signals only when it is first polled.
RaiseToStarted(sig) ==
    /\ main = "running"
    /\ pending' = [s \in Servers |->
                    IF sigTask[s] = "unspawned" THEN {} ELSE pending[s] \cup {sig}]
    /\ raised' = raised \cup {sig}
    /\ UNCHANGED <<sigTask, cancelVars, chan, waiter, serverVars>>

\* A signal reaches every stream create_signals registered.
Raise(sig) ==
    /\ main = "running"
    /\ pending' = [s \in Servers |-> pending[s] \cup {sig}]
    /\ raised' = raised \cup {sig}
    /\ UNCHANGED <<sigTask, cancelVars, chan, waiter, serverVars>>

\* The embedder sends on the watch channel, or drops its sender.
Cancel ==
    /\ sender = "alive"
    /\ sent < MaxCancels
    /\ sent' = sent + 1
    /\ UNCHANGED <<sigVars, cancelTask, lock, seen, sender, chan, waiter, serverVars>>

DropSender ==
    /\ sender = "alive"
    /\ sender' = "dropped"
    /\ UNCHANGED <<sigVars, cancelTask, lock, sent, seen, chan, waiter, serverVars>>

\* wait_for_signals is polled for the first time and spawns its two tasks.
Start(s) ==
    /\ waiter[s] = "unpolled"
    /\ waiter' = [waiter EXCEPT ![s] = "recv"]
    /\ sigTask' = [sigTask EXCEPT ![s] = "reading"]
    /\ cancelTask' = [cancelTask EXCEPT ![s] = "locking"]
    /\ UNCHANGED <<pending, raised, lock, sent, seen, sender, chan, serverVars>>

\* One turn of the signal loop: SIGHUP is read and ignored.
ReadSignal(s, sig) ==
    /\ sigTask[s] = "reading"
    /\ sig \in pending[s]
    /\ pending' = [pending EXCEPT ![s] = @ \ {sig}]
    /\ sigTask' = [sigTask EXCEPT ![s] = IF sig = "HUP" THEN "reading" ELSE "sending"]
    /\ UNCHANGED <<raised, cancelVars, chan, waiter, serverVars>>

\* send(()).await on a channel of capacity 1 whose receiver may be gone.
Send(s) ==
    \/ waiter[s] = "done" /\ UNCHANGED chan
    \/ waiter[s] # "done" /\ chan[s] = 0 /\ chan' = [chan EXCEPT ![s] = 1]

SignalSend(s) ==
    /\ sigTask[s] = "sending"
    /\ Send(s)
    /\ sigTask' = [sigTask EXCEPT ![s] = "ended"]
    /\ UNCHANGED <<pending, raised, cancelVars, waiter, serverVars>>

\* Was a cancel receiver passed to run_standalone?
HasCancel == sender # "none"

\* Mutant: the value current when the task starts is marked as seen.
LockCaughtUp(s) ==
    /\ cancelTask[s] = "locking"
    /\ lock = {}
    /\ lock' = IF HasCancel THEN {s} ELSE {}
    /\ seen' = sent
    /\ cancelTask' = [cancelTask EXCEPT ![s] = IF HasCancel THEN "waiting" ELSE "ended"]
    /\ UNCHANGED <<sigVars, sent, sender, chan, waiter, serverVars>>

\* cancel_recv.lock().await, then the receiver if there is one.
LockReceiver(s) ==
    /\ cancelTask[s] = "locking"
    /\ lock = {}
    /\ lock' = IF HasCancel THEN {s} ELSE {}
    /\ cancelTask' = [cancelTask EXCEPT ![s] = IF HasCancel THEN "waiting" ELSE "ended"]
    /\ UNCHANGED <<sigVars, sent, seen, sender, chan, waiter, serverVars>>

\* Mutant: the task waits for a value and ignores the end of the channel.
ChangedOnly(s) ==
    /\ cancelTask[s] = "waiting"
    /\ seen # sent
    /\ seen' = sent
    /\ cancelTask' = [cancelTask EXCEPT ![s] = "sending"]
    /\ UNCHANGED <<sigVars, lock, sent, sender, chan, waiter, serverVars>>

\* changed(): a version not seen before, or an error once the sender is gone.
Changed(s) ==
    /\ cancelTask[s] = "waiting"
    /\ seen # sent \/ sender = "dropped"
    /\ seen' = sent
    /\ cancelTask' = [cancelTask EXCEPT ![s] = "sending"]
    /\ UNCHANGED <<sigVars, lock, sent, sender, chan, waiter, serverVars>>

\* The guard of the mutex is dropped at the end of the task.
CancelSend(s) ==
    /\ cancelTask[s] = "sending"
    /\ Send(s)
    /\ cancelTask' = [cancelTask EXCEPT ![s] = "ended"]
    /\ lock' = lock \ {s}
    /\ UNCHANGED <<sigVars, sent, seen, sender, waiter, serverVars>>

----------------------------------------------------------------------------
\* base_rx.recv(): a message, or None once both senders are dropped.
SendersDropped(s) == sigTask[s] = "ended" /\ cancelTask[s] = "ended"

Recv(s) ==
    /\ waiter[s] = "recv"
    /\ chan[s] > 0 \/ SendersDropped(s)
    /\ chan' = [chan EXCEPT ![s] = 0]
    /\ waiter' = [waiter EXCEPT ![s] = IF GracePeriod THEN "grace" ELSE "done"]
    /\ UNCHANGED <<sigVars, cancelVars, serverVars>>

\* delay_graceful_shutdown: requests are still accepted meanwhile.
GraceElapsed(s) ==
    /\ waiter[s] = "grace"
    /\ waiter' = [waiter EXCEPT ![s] = "done"]
    /\ UNCHANGED <<sigVars, cancelVars, chan, serverVars>>

\* with_graceful_shutdown: stop accepting once the future is done, then
\* finish when the last connection has.
Drain(s) ==
    /\ server[s] = "serving"
    /\ waiter[s] = "done"
    /\ server' = [server EXCEPT ![s] = "draining"]
    /\ UNCHANGED <<sigVars, cancelVars, chan, waiter, conn, main>>

Stop(s) ==
    /\ server[s] = "draining"
    /\ \A k \in Conns : conn[k] # s
    /\ server' = [server EXCEPT ![s] = "stopped"]
    /\ UNCHANGED <<sigVars, cancelVars, chan, waiter, conn, main>>

Accept(s, k) ==
    /\ server[s] = "serving"
    /\ conn[k] = NotOpen
    /\ conn' = [conn EXCEPT ![k] = s]
    /\ UNCHANGED <<sigVars, cancelVars, chan, waiter, server, main>>

Close(k) ==
    /\ conn[k] # NotOpen
    /\ conn' = [conn EXCEPT ![k] = NotOpen]
    /\ UNCHANGED <<sigVars, cancelVars, chan, waiter, server, main>>

\* Mutant: select! instead of try_join!.
ReturnFirst ==
    /\ main = "running"
    /\ \E s \in Servers : server[s] = "stopped"
    /\ main' = "returned"
    /\ UNCHANGED <<sigVars, cancelVars, chan, waiter, server, conn>>

\* try_join! of the server tasks (or the await of the only one), then the
\* signal handles are closed and start_server returns.
Return ==
    /\ main = "running"
    /\ \A s \in Servers : server[s] = "stopped"
    /\ main' = "returned"
    /\ UNCHANGED <<sigVars, cancelVars, chan, waiter, server, conn>>

----------------------------------------------------------------------------
\* The tasks of a server: its signals, its cancel receiver, the future that
\* waits for either, and hyper.
SignalTask(s) == (\E sig \in Signals : ReadSignal(s, sig)) \/ SignalSend(s)
CancelTask(s) == LockReceiver(s) \/ Changed(s) \/ CancelSend(s)
Waiter(s) == Start(s) \/ Recv(s) \/ GraceElapsed(s)
Server(s) == Drain(s) \/ Stop(s)

Next ==
    \/ \E sig \in Signals : Raise(sig)
    \/ Cancel
    \/ DropSender
    \/ \E s \in Servers : SignalTask(s) \/ CancelTask(s) \/ Waiter(s) \/ Server(s)
    \/ \E s \in Servers, k \in Conns : Accept(s, k)
    \/ \E k \in Conns : Close(k)
    \/ Return

Spec == Init /\ [][Next]_vars

(***************************************************************************)
(* Every spawned task and timer is eventually polled, a caught signal is   *)
(* eventually read, and clients finish or close their connections.         *)
(***************************************************************************)
Fairness ==
    /\ \A s \in Servers :
        /\ \A sig \in Signals : WF_vars(ReadSignal(s, sig))
        /\ WF_vars(SignalSend(s))
        /\ WF_vars(CancelTask(s))
        /\ WF_vars(Waiter(s))
        /\ WF_vars(Server(s))
    /\ \A k \in Conns : WF_vars(Close(k))
    /\ WF_vars(Return)

FairSpec == Spec /\ Fairness

----------------------------------------------------------------------------
\* Properties.

(***************************************************************************)
(* A server stops accepting only when asked to: by SIGTERM, SIGINT or      *)
(* SIGQUIT, a cancel message or the loss of the cancel sender.  SIGHUP     *)
(* alone never stops it, and recv() returning None because both tasks of   *)
(* wait_for_signals ended is never taken for a request nobody made.        *)
(***************************************************************************)
Asked == "TERM" \in raised \/ sent > 0 \/ sender = "dropped"

StopsOnlyWhenAsked == \A s \in Servers : server[s] # "serving" => Asked

(***************************************************************************)
(* The tasks, channels and the mutex between a signal and the end of       *)
(* start_server implement what ServerLife says of a process that serves.   *)
(***************************************************************************)
Life == INSTANCE ServerLife WITH
            AllServers <- Servers, Connections <- Conns, configured <- Servers,
            phase <- IF main = "running" THEN "serving" ELSE "over",
            up <- {s \in Servers : server[s] = "serving"},
            open <- {k \in Conns : conn[k] # NotOpen},
            stopping <- Asked

ImplementsLife == Life!ServingSpec

(***************************************************************************)
(* start_server returns only after every connection of every server has    *)
(* been served to its end, the redirect server's included (try_join!).     *)
(***************************************************************************)
ReturnsDrained == main = "returned" => \A k \in Conns : conn[k] = NotOpen

(***************************************************************************)
(* A termination signal stops all servers and start_server returns, even   *)
(* one that arrives before wait_for_signals is first polled, and however   *)
(* the tasks of the servers interleave.                                    *)
(***************************************************************************)
SignalStops == (\E s \in Servers : "TERM" \in pending[s]) ~> main = "returned"

(***************************************************************************)
(* Dropping the cancel sender stops all servers: changed() fails for every *)
(* task that gets the shared receiver, one after the other.                *)
(***************************************************************************)
DropStops == sender = "dropped" ~> main = "returned"

(***************************************************************************)
(* A cancel message stops a server, even one sent before the tasks first   *)
(* wait for it (changed() compares versions): the only server, or at least *)
(* one of two.                                                             *)
(***************************************************************************)
CancelStopsOne == (sent > 0) ~> (\E s \in Servers : server[s] = "stopped")

(***************************************************************************)
(* What the documentation of run_standalone promises of its cancel         *)
(* parameter: a message shuts the server down.                             *)
(***************************************************************************)
CancelStops == (sent > 0) ~> main = "returned"

=============================================================================
