---------------------------- MODULE ShutdownProofs ----------------------------
(***************************************************************************)
(* Safety of graceful shutdown, for any number of servers and connections. *)
(***************************************************************************)
EXTENDS Shutdown, TLAPS

(***************************************************************************)
(* Every variable keeps its type; in particular the channel of capacity 1  *)
(* of wait_for_signals never holds two messages.                           *)
(***************************************************************************)
THEOREM TypeCorrect == Spec => []TypeOK
<1> USE ServersAssumption, ShutdownOptionsAssumption
<1>1. Init => TypeOK
  BY DEF Init, TypeOK
<1>2. TypeOK /\ [Next]_vars => TypeOK'
  <2> SUFFICES ASSUME TypeOK, [Next]_vars PROVE TypeOK'
    OBVIOUS
  <2> USE DEF TypeOK, sigVars, cancelVars, serverVars, Signals
  <2>1. ASSUME NEW sig \in Signals, Raise(sig) PROVE TypeOK'
    BY <2>1 DEF Raise
  <2>2. CASE Cancel
    BY <2>2 DEF Cancel
  <2>3. CASE DropSender
    BY <2>3 DEF DropSender
  <2>4. ASSUME NEW s \in Servers, Start(s) PROVE TypeOK'
    BY <2>4 DEF Start
  <2>5. ASSUME NEW s \in Servers, SignalSend(s) PROVE TypeOK'
    BY <2>5 DEF SignalSend, Send
  <2>6. ASSUME NEW s \in Servers, LockReceiver(s) PROVE TypeOK'
    BY <2>6 DEF LockReceiver, HasCancel
  <2>7. ASSUME NEW s \in Servers, Changed(s) PROVE TypeOK'
    BY <2>7 DEF Changed
  <2>8. ASSUME NEW s \in Servers, CancelSend(s) PROVE TypeOK'
    BY <2>8 DEF CancelSend, Send
  <2>9. ASSUME NEW s \in Servers, Recv(s) PROVE TypeOK'
    BY <2>9 DEF Recv
  <2>10. ASSUME NEW s \in Servers, GraceElapsed(s) PROVE TypeOK'
    BY <2>10 DEF GraceElapsed
  <2>11. ASSUME NEW s \in Servers, Drain(s) PROVE TypeOK'
    BY <2>11 DEF Drain
  <2>12. ASSUME NEW s \in Servers, Stop(s) PROVE TypeOK'
    BY <2>12 DEF Stop
  <2>13. ASSUME NEW s \in Servers, NEW sig \in Signals, ReadSignal(s, sig)
         PROVE  TypeOK'
    BY <2>13 DEF ReadSignal
  <2>14. ASSUME NEW s \in Servers, NEW k \in Conns, Accept(s, k) PROVE TypeOK'
    BY <2>14 DEF Accept
  <2>15. ASSUME NEW k \in Conns, Close(k) PROVE TypeOK'
    BY <2>15 DEF Close
  <2>16. CASE Return
    BY <2>16 DEF Return
  <2>17. CASE UNCHANGED vars
    BY <2>17 DEF vars
  <2> HIDE DEF TypeOK, sigVars, cancelVars, serverVars, Signals
  <2> QED
    BY <2>1, <2>2, <2>3, <2>4, <2>5, <2>6, <2>7, <2>8, <2>9,
       <2>10, <2>11, <2>12, <2>13, <2>14, <2>15, <2>16, <2>17
       DEF Next, SignalTask, CancelTask, Waiter, Server
<1> QED
  BY <1>1, <1>2, PTL DEF Spec

(***************************************************************************)
(* Why a server is only stopped when asked: every stage between a request  *)
(* to stop and the end of the wait_for_signals future implies the request. *)
(***************************************************************************)
CancelAsked == sent > 0 \/ sender = "dropped"

AskedInv ==
    /\ seen <= sent
    /\ \A s \in Servers :
        /\ pending[s] \subseteq raised
        /\ sigTask[s] \in {"sending", "ended"} => "TERM" \in raised
        /\ cancelTask[s] = "sending" => CancelAsked
        /\ chan[s] > 0 => Asked
        /\ waiter[s] \in {"grace", "done"} => Asked
        /\ server[s] # "serving" => Asked

\* No step of any task of wait_for_signals breaks that chain.
LEMMA AskedInvariant == Spec => []AskedInv
<1> USE ServersAssumption, ShutdownOptionsAssumption
<1>1. Init => AskedInv
  BY DEF Init, AskedInv
<1>2. TypeOK /\ AskedInv /\ [Next]_vars => AskedInv'
  <2> SUFFICES ASSUME TypeOK, AskedInv, [Next]_vars PROVE AskedInv'
    OBVIOUS
  <2> USE DEF TypeOK, AskedInv, Asked, CancelAsked,
              sigVars, cancelVars, serverVars, Signals
  <2>1. ASSUME NEW sig \in Signals, Raise(sig) PROVE AskedInv'
    BY <2>1 DEF Raise
  <2>2. CASE Cancel
    BY <2>2 DEF Cancel
  <2>3. CASE DropSender
    BY <2>3 DEF DropSender
  <2>4. ASSUME NEW s \in Servers, Start(s) PROVE AskedInv'
    BY <2>4 DEF Start
  <2>5. ASSUME NEW s \in Servers, SignalSend(s) PROVE AskedInv'
    BY <2>5 DEF SignalSend, Send
  <2>6. ASSUME NEW s \in Servers, LockReceiver(s) PROVE AskedInv'
    BY <2>6 DEF LockReceiver, HasCancel
  <2>7. ASSUME NEW s \in Servers, Changed(s) PROVE AskedInv'
    BY <2>7 DEF Changed
  <2>8. ASSUME NEW s \in Servers, CancelSend(s) PROVE AskedInv'
    BY <2>8 DEF CancelSend, Send
  <2>9. ASSUME NEW s \in Servers, Recv(s) PROVE AskedInv'
    BY <2>9 DEF Recv, SendersDropped
  <2>10. ASSUME NEW s \in Servers, GraceElapsed(s) PROVE AskedInv'
    BY <2>10 DEF GraceElapsed
  <2>11. ASSUME NEW s \in Servers, Drain(s) PROVE AskedInv'
    BY <2>11 DEF Drain
  <2>12. ASSUME NEW s \in Servers, Stop(s) PROVE AskedInv'
    BY <2>12 DEF Stop
  <2>13. ASSUME NEW s \in Servers, NEW sig \in Signals, ReadSignal(s, sig)
         PROVE  AskedInv'
    BY <2>13 DEF ReadSignal
  <2>14. ASSUME NEW s \in Servers, NEW k \in Conns, Accept(s, k) PROVE AskedInv'
    BY <2>14 DEF Accept
  <2>15. ASSUME NEW k \in Conns, Close(k) PROVE AskedInv'
    BY <2>15 DEF Close
  <2>16. CASE Return
    BY <2>16 DEF Return
  <2>17. CASE UNCHANGED vars
    BY <2>17 DEF vars
  <2> HIDE DEF TypeOK, AskedInv, Asked, CancelAsked,
              sigVars, cancelVars, serverVars, Signals
  <2> QED
    BY <2>1, <2>2, <2>3, <2>4, <2>5, <2>6, <2>7, <2>8, <2>9,
       <2>10, <2>11, <2>12, <2>13, <2>14, <2>15, <2>16, <2>17
       DEF Next, SignalTask, CancelTask, Waiter, Server
<1> QED
  BY <1>1, <1>2, TypeCorrect, PTL DEF Spec

(***************************************************************************)
(* However many servers share the cancel receiver and however their tasks  *)
(* interleave, no server stops unless a termination signal, a cancel       *)
(* message or the loss of the cancel sender asked for it.                  *)
(***************************************************************************)
THEOREM StopsOnlyWhenAskedAlways == Spec => []StopsOnlyWhenAsked
<1>1. AskedInv => StopsOnlyWhenAsked
  BY DEF AskedInv, StopsOnlyWhenAsked
<1> QED
  BY <1>1, AskedInvariant, PTL

(***************************************************************************)
(* A stopped server has no connection left and never gets another one.     *)
(***************************************************************************)
DrainedInv ==
    /\ \A s \in Servers, k \in Conns : server[s] = "stopped" => conn[k] # s
    /\ main = "returned" => \A s \in Servers : server[s] = "stopped"

\* hyper lets a server stop only then, and try_join! waits for all of them.
LEMMA DrainedInvariant == Spec => []DrainedInv
<1> USE ServersAssumption
<1>1. Init => DrainedInv
  BY DEF Init, DrainedInv
<1>2. TypeOK /\ DrainedInv /\ [Next]_vars => DrainedInv'
  <2> SUFFICES ASSUME TypeOK, DrainedInv, [Next]_vars PROVE DrainedInv'
    OBVIOUS
  <2> USE DEF TypeOK, DrainedInv, serverVars
  <2>1. ASSUME NEW sig \in Signals, Raise(sig) PROVE DrainedInv'
    BY <2>1 DEF Raise
  <2>2. CASE Cancel
    BY <2>2 DEF Cancel
  <2>3. CASE DropSender
    BY <2>3 DEF DropSender
  <2>4. ASSUME NEW s \in Servers, Start(s) PROVE DrainedInv'
    BY <2>4 DEF Start
  <2>5. ASSUME NEW s \in Servers, SignalSend(s) PROVE DrainedInv'
    BY <2>5 DEF SignalSend, Send
  <2>6. ASSUME NEW s \in Servers, LockReceiver(s) PROVE DrainedInv'
    BY <2>6 DEF LockReceiver, HasCancel
  <2>7. ASSUME NEW s \in Servers, Changed(s) PROVE DrainedInv'
    BY <2>7 DEF Changed
  <2>8. ASSUME NEW s \in Servers, CancelSend(s) PROVE DrainedInv'
    BY <2>8 DEF CancelSend, Send
  <2>9. ASSUME NEW s \in Servers, Recv(s) PROVE DrainedInv'
    BY <2>9 DEF Recv
  <2>10. ASSUME NEW s \in Servers, GraceElapsed(s) PROVE DrainedInv'
    BY <2>10 DEF GraceElapsed
  <2>11. ASSUME NEW s \in Servers, Drain(s) PROVE DrainedInv'
    BY <2>11 DEF Drain
  <2>12. ASSUME NEW s \in Servers, Stop(s) PROVE DrainedInv'
    BY <2>12 DEF Stop
  <2>13. ASSUME NEW s \in Servers, NEW sig \in Signals, ReadSignal(s, sig)
         PROVE  DrainedInv'
    BY <2>13 DEF ReadSignal
  <2>14. ASSUME NEW s \in Servers, NEW k \in Conns, Accept(s, k) PROVE DrainedInv'
    BY <2>14 DEF Accept
  <2>15. ASSUME NEW k \in Conns, Close(k) PROVE DrainedInv'
    BY <2>15 DEF Close
  <2>16. CASE Return
    BY <2>16 DEF Return
  <2>17. CASE UNCHANGED vars
    BY <2>17 DEF vars
  <2> HIDE DEF TypeOK, DrainedInv, serverVars
  <2> QED
    BY <2>1, <2>2, <2>3, <2>4, <2>5, <2>6, <2>7, <2>8, <2>9,
       <2>10, <2>11, <2>12, <2>13, <2>14, <2>15, <2>16, <2>17
       DEF Next, SignalTask, CancelTask, Waiter, Server
<1> QED
  BY <1>1, <1>2, TypeCorrect, PTL DEF Spec

(***************************************************************************)
(* start_server returns only when no connection of any of its servers is   *)
(* left, for any number of servers joined by try_join! and any number of   *)
(* connections.                                                            *)
(***************************************************************************)
THEOREM ReturnsDrainedAlways == Spec => []ReturnsDrained
<1>1. TypeOK /\ DrainedInv => ReturnsDrained
  BY ServersAssumption DEF TypeOK, DrainedInv, ReturnsDrained
<1> QED
  BY <1>1, TypeCorrect, DrainedInvariant, PTL

(***************************************************************************)
(* Refinement: the abstract variables, and the steps that leave them as    *)
(* they are.  All of wait_for_signals is invisible but for the request.    *)
(***************************************************************************)
Seen == <<server, conn, main, Asked>>

\* What ServerLife sees of this module depends on nothing else.
LEMMA SeenIsAll == ASSUME UNCHANGED Seen PROVE UNCHANGED Life!lifeVars
  BY DEF Seen, Life!lifeVars

\* A request to stop is a step Ask, or not the first one.
LEMMA AskStep ==
    ASSUME UNCHANGED <<server, conn, main>>, Asked', Asked \in BOOLEAN
    PROVE  Life!Ask \/ UNCHANGED Life!lifeVars
  BY DEF Life!Ask, Life!lifeVars

(***************************************************************************)
(* The tasks, channels and the mutex of graceful shutdown implement the    *)
(* abstract life of a server process, for any number of servers and        *)
(* connections: nothing stops unasked, and nothing is cut off.             *)
(***************************************************************************)
THEOREM ShutdownImplementsLife == Spec => ImplementsLife
<1> USE ServersAssumption, ShutdownOptionsAssumption
<1>1. Init => Life!ServingInit
  BY DEF Init, Life!ServingInit, Asked
<1>2. /\ TypeOK /\ AskedInv /\ AskedInv' /\ DrainedInv
      /\ [Next]_vars
      => [Life!Next]_(Life!lifeVars)
  <2> SUFFICES ASSUME TypeOK, AskedInv, AskedInv', DrainedInv, [Next]_vars
               PROVE  Life!Next \/ UNCHANGED Life!lifeVars
    OBVIOUS
  <2>1. ASSUME NEW sig \in Signals, Raise(sig) PROVE Life!Next \/ UNCHANGED Life!lifeVars
    <3>1. UNCHANGED <<server, conn, main>> /\ (Asked => Asked')
      BY <2>1 DEF Raise, serverVars, cancelVars, Asked
    <3>2. CASE Asked'
      BY <3>1, <3>2, AskStep DEF Life!Next, Asked
    <3>3. CASE ~Asked'
      BY <3>1, <3>3, SeenIsAll DEF Seen, Asked
    <3> QED  BY <3>2, <3>3
  <2>2. CASE Cancel
    <3>1. UNCHANGED <<server, conn, main>> /\ Asked'
      BY <2>2 DEF Cancel, serverVars, TypeOK, Asked
    <3> QED  BY <3>1, AskStep DEF Life!Next, Asked
  <2>3. CASE DropSender
    <3>1. UNCHANGED <<server, conn, main>> /\ Asked'
      BY <2>3 DEF DropSender, serverVars, Asked
    <3> QED  BY <3>1, AskStep DEF Life!Next, Asked
  <2>4. ASSUME NEW s \in Servers,
               SignalTask(s) \/ CancelTask(s) \/ Waiter(s) \/ UNCHANGED vars
        PROVE  UNCHANGED Life!lifeVars
    <3>1. UNCHANGED Seen
      BY <2>4 DEF SignalTask, CancelTask, Waiter, ReadSignal, SignalSend, LockReceiver,
                  Changed, CancelSend, Start, Recv, GraceElapsed, Seen, Asked, vars,
                  sigVars, cancelVars, serverVars
    <3> QED  BY <3>1, SeenIsAll
  <2>5. ASSUME NEW s \in Servers, Drain(s) PROVE Life!Next \/ UNCHANGED Life!lifeVars
    <3>1. Life!StopAccepting(s)
      <4>1. /\ UNCHANGED <<conn, main, Asked>> /\ Asked' /\ server[s] = "serving"
            /\ server' = [server EXCEPT ![s] = "draining"]
        BY <2>5 DEF Drain, AskedInv, sigVars, cancelVars, Asked, TypeOK
      <4>2. main = "running"
        BY <4>1 DEF DrainedInv, TypeOK
      <4>3. {x \in Servers : server'[x] = "serving"}
              = {x \in Servers : server[x] = "serving"} \ {s}
        BY <4>1 DEF TypeOK
      <4> QED  BY <4>1, <4>2, <4>3, Zenon DEF Life!StopAccepting
    <3> QED  BY <3>1 DEF Life!Next
  <2>6. ASSUME NEW s \in Servers, Stop(s) PROVE UNCHANGED Life!lifeVars
    <3>1. UNCHANGED <<conn, main, Asked>>
      BY <2>6 DEF Stop, sigVars, cancelVars, Asked
    <3>2. {x \in Servers : server'[x] = "serving"} = {x \in Servers : server[x] = "serving"}
      BY <2>6 DEF Stop, TypeOK
    <3> QED  BY <3>1, <3>2 DEF Life!lifeVars
  <2>7. ASSUME NEW s \in Servers, NEW k \in Conns, Accept(s, k) PROVE Life!Next
    <3>1. /\ UNCHANGED <<server, main, Asked>> /\ server[s] = "serving"
          /\ conn' = [conn EXCEPT ![k] = s]
      BY <2>7 DEF Accept, sigVars, cancelVars, Asked
    <3>2. main = "running"
      BY <3>1 DEF DrainedInv, TypeOK
    <3>3. {x \in Conns : conn'[x] # NotOpen} = {x \in Conns : conn[x] # NotOpen} \cup {k}
      BY <3>1 DEF TypeOK
    <3>4. Life!Open(k)
      BY <3>1, <3>2, <3>3 DEF Life!Open
    <3> QED  BY <3>4 DEF Life!Next
  <2>8. ASSUME NEW k \in Conns, Close(k) PROVE Life!Next
    <3>1. UNCHANGED <<server, main, Asked>> /\ conn' = [conn EXCEPT ![k] = NotOpen]
      BY <2>8 DEF Close, sigVars, cancelVars, Asked
    <3>2. {x \in Conns : conn'[x] # NotOpen} = {x \in Conns : conn[x] # NotOpen} \ {k}
      BY <3>1 DEF TypeOK
    <3>3. Life!Close(k)
      BY <3>1, <3>2 DEF Life!Close
    <3> QED  BY <3>3 DEF Life!Next
  <2>9. CASE Return
    <3>1. UNCHANGED <<server, conn, Asked>> /\ main = "running" /\ main' = "returned"
      BY <2>9 DEF Return, sigVars, cancelVars, Asked
    <3>2. \A s \in Servers : server[s] = "stopped"
      BY <2>9 DEF Return
    <3>3. \A k \in Conns : conn[k] = NotOpen
      BY <3>2 DEF DrainedInv, TypeOK
    <3>4. Life!Return
      BY <3>1, <3>2, <3>3 DEF Life!Return
    <3> QED  BY <3>4 DEF Life!Next
  <2> QED
    BY <2>1, <2>2, <2>3, <2>4, <2>5, <2>6, <2>7, <2>8, <2>9 DEF Next, Server
<1> QED
  BY <1>1, <1>2, TypeCorrect, AskedInvariant, DrainedInvariant, PTL
     DEF Spec, ImplementsLife, Life!ServingSpec

=============================================================================
