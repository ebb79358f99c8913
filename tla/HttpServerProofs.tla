-------------------------- MODULE HttpServerProofs --------------------------
(***************************************************************************)
(* What the lifecycle of the HTTP/1, websocket and gRPC servers promises   *)
(* for every number of clients: an error of Run in a benchmark that was    *)
(* served is an error of Accept, gRPC's Run leaves no connection behind,   *)
(* and the safety part of the promise of Server.Run is kept.               *)
(***************************************************************************)
EXTENDS HttpServer, TLAPS

USE DEF stopVars, serveVars, connVars

-----------------------------------------------------------------------------
(* The inductive invariant. *)

(* No client is between calls while a handler is at work for it: without this a
   request could be left over when the handler has answered. *)
Handlers ==
    \A i \in Clients :
        /\ cli[i] = "new" => conn[i] = "none"
        /\ conn[i] = "active" => req[i] = FALSE /\ cli[i] \notin {"new", "idle"}

(* The order of Stop and of the events that close the listener. *)
Stops ==
    /\ closing = TRUE <=> stop # "wait"
    /\ closing = TRUE => cctx = TRUE
    /\ stop = "polling" => kind # "grpc"
    /\ stop = "done" => serve # "accept"
    /\ run # "running" <=> serve = "done"
    /\ serve = "drain" => kind = "grpc" /\ lopen = FALSE
    /\ lopen = FALSE => closing = TRUE \/ serve = "done"
    /\ run = "nil" => cctx = TRUE

(* Which connections there still are. *)
Remaining ==
    /\ lopen = FALSE => \A i \in Clients : conn[i] # "backlog"
    /\ serve = "new" =>
        answered = FALSE /\ \A i \in Clients : conn[i] \in {"none", "backlog", "gone"}
    /\ kind = "grpc" /\ stop = "done" =>
        \A i \in Clients : conn[i] \in {"none", "backlog", "gone"}
    /\ kind = "grpc" /\ run = "nil" => lopen = FALSE /\ \A i \in Clients : Ended(i)
    /\ run = "err" /\ accErr = FALSE =>
        answered = FALSE /\ lopen = FALSE /\ \A i \in Clients : Ended(i)

IInv == TypeOK /\ Handlers /\ Stops /\ Remaining

-----------------------------------------------------------------------------
LEMMA InitSatisfies == Init => IInv
<1> SUFFICES ASSUME Init PROVE IInv
    OBVIOUS
<1>1. TypeOK
    BY DEF Init, TypeOK, Kinds
<1>2. Handlers
    BY DEF Init, Handlers
<1>3. Stops /\ Remaining
    BY DEF Init, Stops, Remaining
<1> QED BY <1>1, <1>2, <1>3 DEF IInv

(* What closing connections does to conn and link. *)
LEMMA HangupCloses ==
    ASSUME TypeOK, NEW S, Hangup(S)
    PROVE  /\ conn' \in [Clients -> {"none", "backlog", "fresh", "idle", "active", "hijacked", "gone"}]
           /\ link' \in [Clients -> {"open", "shut", "broken"}]
           /\ \A i \in Clients : conn'[i] = IF i \in S THEN "gone" ELSE conn[i]
BY DEF TypeOK, Hangup

(* Closing the listener leaves no connection in its backlog. *)
LEMMA CloseListenerCloses ==
    ASSUME TypeOK, CloseListener
    PROVE  /\ conn' \in [Clients -> {"none", "backlog", "fresh", "idle", "active", "hijacked", "gone"}]
           /\ link' \in [Clients -> {"open", "shut", "broken"}]
           /\ lopen' = FALSE
           /\ \A i \in Clients : conn'[i] = IF conn[i] = "backlog" THEN "gone" ELSE conn[i]
BY HangupCloses DEF CloseListener

-----------------------------------------------------------------------------
LEMMA TypeStep ==
    ASSUME IInv, [Next]_vars
    PROVE  TypeOK'
<1> USE DEF IInv, TypeOK
<1>1. CASE HarnessCancel \/ ListenerClosed \/ Drained \/ ShutdownReturns \/ GracefulStopReturns
  <2>1. CASE HarnessCancel
    BY <2>1 DEF HarnessCancel
  <2>2. CASE ListenerClosed
    BY <2>2 DEF ListenerClosed
  <2>3. CASE Drained
    BY <2>3 DEF Drained
  <2>4. CASE ShutdownReturns
    BY <2>4 DEF ShutdownReturns
  <2>5. CASE GracefulStopReturns
    BY <2>5 DEF GracefulStopReturns
  <2> QED BY <1>1, <2>1, <2>2, <2>3, <2>4, <2>5
<1>2. CASE ServeStarts \/ AcceptFails
  <2>1. CASE ServeStarts
    BY <2>1, CloseListenerCloses DEF ServeStarts
  <2>2. CASE AcceptFails
    BY <2>2, CloseListenerCloses DEF AcceptFails
  <2> QED BY <1>2, <2>1, <2>2
<1>3. CASE Stop
    BY <1>3, CloseListenerCloses DEF Stop
<1>4. CASE Poll
    BY <1>4, HangupCloses DEF Poll
<1>5. ASSUME NEW i \in Clients, GoAway(i) \/ ConnEnds(i) PROVE TypeOK'
  <2>1. CASE GoAway(i)
    BY <2>1, HangupCloses DEF GoAway
  <2>2. CASE ConnEnds(i)
    BY <2>2, HangupCloses DEF ConnEnds
  <2> QED BY <1>5, <2>1, <2>2
<1>6. ASSUME NEW i \in Clients, Dial(i) PROVE TypeOK'
  <2>1. UNCHANGED <<kind, cctx, closing, lopen, accErr, stop, serve, run, answered>>
    BY <1>6 DEF Dial, stopVars, serveVars
  <2>2. CASE cli' = [cli EXCEPT ![i] = "idle"] /\ UNCHANGED <<conn, link, req>>
    BY <1>6, <2>1, <2>2 DEF Dial
  <2>3. CASE cli' = [cli EXCEPT ![i] = "dialing"] /\ Connect(i)
    BY <2>1, <2>3 DEF Connect
  <2>4. CASE cli' = [cli EXCEPT ![i] = "refused"] /\ UNCHANGED <<conn, link, req>>
    BY <1>6, <2>1, <2>4 DEF Dial
  <2> QED BY <1>6, <2>2, <2>3, <2>4 DEF Dial
<1>7. ASSUME NEW i \in Clients, StartCall(i) PROVE TypeOK'
  <2>1. UNCHANGED <<kind, cctx, closing, lopen, accErr, stop, serve, run, answered>>
    BY <1>7 DEF StartCall, stopVars, serveVars
  <2>2. CASE /\ cli' = [cli EXCEPT ![i] = "calling"] /\ req' = [req EXCEPT ![i] = TRUE]
             /\ UNCHANGED <<conn, link>>
    BY <2>1, <2>2
  <2>3. CASE cli' = [cli EXCEPT ![i] = "calling"] /\ Connect(i)
    BY <2>1, <2>3 DEF Connect
  <2>4. CASE cli' = [cli EXCEPT ![i] = "failed"] /\ UNCHANGED <<conn, link, req>>
    BY <1>7, <2>1, <2>4 DEF StartCall
  <2> QED BY <1>7, <2>2, <2>3, <2>4 DEF StartCall
<1>8. ASSUME NEW i \in Clients, CallFails(i) PROVE TypeOK'
    BY <1>8 DEF CallFails
<1>9. ASSUME NEW i \in Clients, ClientClose(i) PROVE TypeOK'
    BY <1>9 DEF ClientClose
<1>10. ASSUME NEW i \in Clients, IdleTimeout(i) \/ Break(i) \/ Accept(i) PROVE TypeOK'
    BY <1>10 DEF IdleTimeout, Break, Accept
<1>11. ASSUME NEW i \in Clients, HandlerStarts(i) PROVE TypeOK'
    BY <1>11 DEF HandlerStarts
<1>12. ASSUME NEW i \in Clients, HandlerEnds(i) PROVE TypeOK'
  <2>1. CASE link[i] # "open" \/ (kind = "http1" /\ closing = TRUE)
    <3>1. Hangup({i})
      BY <1>12, <2>1 DEF HandlerEnds
    <3>2. /\ conn' \in [Clients -> {"none", "backlog", "fresh", "idle", "active", "hijacked", "gone"}]
          /\ link' \in [Clients -> {"open", "shut", "broken"}]
      BY <3>1, HangupCloses
    <3>3. \/ cli' = cli
          \/ cli' = [cli EXCEPT ![i] = IF @ \in {"calling", "dialing"} THEN "idle" ELSE @]
      BY <1>12 DEF HandlerEnds, Answer
    <3>4. req[i] = FALSE /\ req' = req
      BY <1>12 DEF HandlerEnds, Handlers
    <3>5. /\ cli' \in [Clients -> {"new", "dialing", "idle", "calling", "refused",
                                   "failed", "closed"}]
          /\ \A j \in Clients : req'[j] => cli'[j] \in {"dialing", "calling", "closed"}
      BY <3>3, <3>4
    <3>6. /\ UNCHANGED <<kind, cctx, closing, lopen, accErr, stop, serve, run, req>>
          /\ answered' \in BOOLEAN
      BY <1>12 DEF HandlerEnds, Answer, stopVars, serveVars
    <3> QED BY <3>2, <3>5, <3>6
  <2>2. CASE ~(link[i] # "open" \/ (kind = "http1" /\ closing = TRUE))
    <3>1. conn' = [conn EXCEPT ![i] = IF kind = "ws" THEN "hijacked" ELSE "idle"]
      BY <1>12, <2>2 DEF HandlerEnds
    <3>2. cli' = [cli EXCEPT ![i] = IF @ \in {"calling", "dialing"} THEN "idle" ELSE @]
      BY <1>12, <2>2 DEF HandlerEnds, Answer
    <3>3. req[i] = FALSE /\ req' = req
      BY <1>12 DEF HandlerEnds, Handlers
    <3>4. /\ cli' \in [Clients -> {"new", "dialing", "idle", "calling", "refused",
                                   "failed", "closed"}]
          /\ \A j \in Clients : req'[j] => cli'[j] \in {"dialing", "calling", "closed"}
      BY <3>2, <3>3
    <3>5. /\ UNCHANGED <<kind, cctx, closing, lopen, accErr, stop, serve, run, req, link>>
          /\ answered' \in BOOLEAN
      BY <1>12, <2>2 DEF HandlerEnds, Answer, stopVars, serveVars
    <3> QED BY <3>1, <3>4, <3>5
  <2> QED BY <2>1, <2>2
<1>13. ASSUME NEW i \in Clients, WsServe(i) PROVE TypeOK'
    BY <1>13 DEF WsServe, Answer
<1>14. CASE UNCHANGED vars
    BY <1>14 DEF vars
<1> QED BY <1>1, <1>2, <1>3, <1>4, <1>5, <1>6, <1>7, <1>8, <1>9, <1>10, <1>11, <1>12, <1>13, <1>14
        DEF Next, StopStep, ConnStep

LEMMA HandlersStep ==
    ASSUME IInv, [Next]_vars
    PROVE  Handlers'
<1> USE DEF IInv, TypeOK, Handlers
<1>1. CASE UNCHANGED <<conn, cli, req>>
    BY <1>1
<1>2. CASE HarnessCancel \/ ListenerClosed \/ Drained \/ ShutdownReturns \/ GracefulStopReturns
    BY <1>1, <1>2 DEF HarnessCancel, ListenerClosed, Drained, ShutdownReturns, GracefulStopReturns
<1>3. CASE ServeStarts \/ AcceptFails \/ Stop
    BY <1>1, <1>3, CloseListenerCloses DEF ServeStarts, AcceptFails, Stop
<1>4. CASE Poll
    BY <1>4, HangupCloses DEF Poll
<1>5. ASSUME NEW i \in Clients, GoAway(i) \/ ConnEnds(i) PROVE Handlers'
    BY <1>5, HangupCloses DEF GoAway, ConnEnds
<1>6. ASSUME NEW i \in Clients, Dial(i) PROVE Handlers'
    BY <1>6 DEF Dial, Connect
<1>7. ASSUME NEW i \in Clients, StartCall(i) PROVE Handlers'
    BY <1>7 DEF StartCall, Connect, Ended
<1>8. ASSUME NEW i \in Clients, CallFails(i) \/ ClientClose(i) PROVE Handlers'
    BY <1>8 DEF CallFails, ClientClose
<1>9. ASSUME NEW i \in Clients, IdleTimeout(i) \/ Break(i) PROVE Handlers'
    BY <1>1, <1>9 DEF IdleTimeout, Break
<1>10. ASSUME NEW i \in Clients, Accept(i) \/ HandlerStarts(i) PROVE Handlers'
    BY <1>10 DEF Accept, HandlerStarts
<1>11. ASSUME NEW i \in Clients, HandlerEnds(i) PROVE Handlers'
  <2>1. CASE link[i] # "open" \/ (kind = "http1" /\ closing = TRUE)
    <3>1. Hangup({i})
      BY <1>11, <2>1 DEF HandlerEnds
    <3>2. \A j \in Clients : conn'[j] = IF j \in {i} THEN "gone" ELSE conn[j]
      BY <3>1, HangupCloses
    <3> QED BY <1>11, <3>2 DEF HandlerEnds, Answer
  <2>2. CASE ~(link[i] # "open" \/ (kind = "http1" /\ closing = TRUE))
    BY <1>11, <2>2 DEF HandlerEnds, Answer
  <2> QED BY <2>1, <2>2
<1>12. ASSUME NEW i \in Clients, WsServe(i) PROVE Handlers'
    BY <1>12 DEF WsServe, Answer
<1>13. CASE UNCHANGED vars
    BY <1>1, <1>13 DEF vars
<1> QED BY <1>2, <1>3, <1>4, <1>5, <1>6, <1>7, <1>8, <1>9, <1>10, <1>11, <1>12, <1>13
        DEF Next, StopStep, ConnStep

(* A step of a client or of a connection is not one of Run, of the goroutine that
   stops it, of the listener or of the context. *)
LEMMA ClientsKeepRun ==
    ASSUME NEW i \in Clients,
           \/ Dial(i) \/ StartCall(i) \/ CallFails(i) \/ ClientClose(i) \/ IdleTimeout(i)
           \/ Break(i) \/ Accept(i) \/ GoAway(i) \/ ConnStep(i)
    PROVE  UNCHANGED <<kind, cctx, stop, closing, lopen, serve, accErr, run>>
BY DEF Dial, StartCall, CallFails, ClientClose, IdleTimeout, Break, Accept, GoAway,
       ConnStep, HandlerStarts, HandlerEnds, WsServe, ConnEnds

LEMMA StopsStep ==
    ASSUME IInv, [Next]_vars
    PROVE  Stops'
<1> USE DEF IInv, TypeOK, Kinds, Stops
<1>1. CASE HarnessCancel \/ ListenerClosed \/ Drained \/ ShutdownReturns \/ GracefulStopReturns
    BY <1>1 DEF HarnessCancel, ListenerClosed, Drained, ShutdownReturns, GracefulStopReturns, Stopping
<1>2. CASE ServeStarts \/ AcceptFails \/ Stop
    BY <1>2 DEF ServeStarts, AcceptFails, Stop, CloseListener
<1>3. CASE Poll
    BY <1>3 DEF Poll
<1>4. ASSUME NEW i \in Clients,
             \/ Dial(i) \/ StartCall(i) \/ CallFails(i) \/ ClientClose(i) \/ IdleTimeout(i)
             \/ Break(i) \/ Accept(i) \/ GoAway(i) \/ ConnStep(i)
      PROVE  Stops'
    BY <1>4, ClientsKeepRun
<1>5. CASE UNCHANGED vars
    BY <1>5 DEF vars
<1> QED BY <1>1, <1>2, <1>3, <1>4, <1>5 DEF Next, StopStep

LEMMA RemainingStep ==
    ASSUME IInv, [Next]_vars
    PROVE  Remaining'
<1> USE DEF IInv, TypeOK, Kinds, Stops, Remaining, Ended
<1>1. CASE HarnessCancel \/ ListenerClosed \/ Drained \/ ShutdownReturns \/ GracefulStopReturns
    BY <1>1 DEF HarnessCancel, ListenerClosed, Drained, ShutdownReturns, GracefulStopReturns, Stopping
<1>2. CASE ServeStarts
    BY <1>2, CloseListenerCloses DEF ServeStarts
<1>3. CASE AcceptFails
    BY <1>3, CloseListenerCloses DEF AcceptFails
<1>4. CASE Stop
    BY <1>4, CloseListenerCloses DEF Stop
<1>5. CASE Poll
    BY <1>5, HangupCloses DEF Poll
<1>6. ASSUME NEW i \in Clients, GoAway(i) \/ ConnEnds(i) PROVE Remaining'
    BY <1>6, HangupCloses DEF GoAway, ConnEnds
<1>7. ASSUME NEW i \in Clients, Dial(i) \/ StartCall(i) PROVE Remaining'
    BY <1>7 DEF Dial, StartCall, Connect
<1>8. ASSUME NEW i \in Clients, CallFails(i) \/ ClientClose(i) \/ IdleTimeout(i) \/ Break(i)
      PROVE  Remaining'
    BY <1>8 DEF CallFails, ClientClose, IdleTimeout, Break
<1>9. ASSUME NEW i \in Clients, Accept(i) PROVE Remaining'
    BY <1>9 DEF Accept
<1>10. ASSUME NEW i \in Clients, HandlerStarts(i) PROVE Remaining'
    BY <1>10 DEF HandlerStarts
<1>11. ASSUME NEW i \in Clients, HandlerEnds(i) PROVE Remaining'
  <2>1. conn[i] = "active" /\ UNCHANGED <<kind, stop, lopen, serve, accErr, run>>
    BY <1>11 DEF HandlerEnds
  <2>2. \A j \in Clients : conn'[j] # conn[j] => conn'[j] \in {"gone", "idle", "hijacked"}
    BY <1>11, HangupCloses DEF HandlerEnds
  <2> QED BY <2>1, <2>2
<1>12. ASSUME NEW i \in Clients, WsServe(i) PROVE Remaining'
    BY <1>12 DEF WsServe, Answer
<1>13. CASE UNCHANGED vars
    BY <1>13 DEF vars
<1> QED BY <1>1, <1>2, <1>3, <1>4, <1>5, <1>6, <1>7, <1>8, <1>9, <1>10, <1>11, <1>12, <1>13
        DEF Next, StopStep, ConnStep

-----------------------------------------------------------------------------
(* The theorems. *)

(* Every reachable state satisfies the inductive invariant. *)
THEOREM Invariance == Spec => []IInv
<1>1. IInv /\ [Next]_vars => IInv'
    BY TypeStep, HandlersStep, StopsStep, RemainingStep DEF IInv
<1> QED BY InitSatisfies, <1>1, PTL DEF Spec

(* The variables keep their types, and no request outlives the call it belongs to
   except one whose client was closed. *)
THEOREM RequestsHaveCallers == Spec => []TypeOK
<1>1. IInv => TypeOK
    BY DEF IInv
<1> QED BY Invariance, <1>1, PTL

(* If a call of the benchmark was answered, an error of Run is one of Accept: the
   race of GracefulStop against Serve fails no benchmark that ran. *)
THEOREM ErrorsAreAccepts == Spec => []CleanAfterService
<1>1. IInv => CleanAfterService
    BY DEF IInv, TypeOK, Remaining, CleanAfterService
<1> QED BY Invariance, <1>1, PTL

(* Run of the gRPC server returns nil only when all its connections have ended. *)
THEOREM GRPCDrains == Spec => []DrainedAtReturn
<1>1. IInv => DrainedAtReturn
    BY DEF IInv, Remaining, DrainedAtReturn
<1> QED BY Invariance, <1>1, PTL

(* The three Run functions keep the safety part of the promise of Server.Run: nil
   only once their context has ended, also if Accept fails, handlers hang or the
   stopping goroutine overtakes Serve.  (That they return, TLC checks.) *)
THEOREM ImplementsServerRun == Spec => Promise!SafeSpec
<1>1. Init => Promise!Init
    BY DEF Init, Promise!Init
<1>2. ASSUME IInv, [Next]_vars PROVE [Promise!Next]_(Promise!vars)
  <2>1. CASE HarnessCancel
    BY <2>1 DEF HarnessCancel, Promise!Next, Promise!Cancel
  <2>2. CASE UNCHANGED <<cctx, run>>
    BY <2>2 DEF Promise!vars
  <2>3. CASE ServeStarts \/ AcceptFails \/ ListenerClosed \/ Drained
    <3>1. UNCHANGED cctx /\ run = "running"
      BY <1>2, <2>3 DEF IInv, TypeOK, Stops, ServeStarts, AcceptFails, ListenerClosed, Drained
    <3>2. run' \in {run, "err"} \/ (run' = "nil" /\ cctx = TRUE)
      BY <1>2, <2>3 DEF IInv, TypeOK, Stops, ServeStarts, AcceptFails, ListenerClosed, Drained
    <3> QED BY <2>2, <3>1, <3>2 DEF Promise!Next, Promise!Return
  <2>4. CASE Stop \/ Poll \/ ShutdownReturns \/ GracefulStopReturns \/ UNCHANGED vars
    BY <2>2, <2>4 DEF Stop, Poll, ShutdownReturns, GracefulStopReturns, vars
  <2>5. ASSUME NEW i \in Clients,
               \/ Dial(i) \/ StartCall(i) \/ CallFails(i) \/ ClientClose(i) \/ IdleTimeout(i)
               \/ Break(i) \/ Accept(i) \/ GoAway(i) \/ ConnStep(i)
        PROVE  UNCHANGED <<cctx, run>>
    BY <2>5, ClientsKeepRun
  <2> QED BY <1>2, <2>1, <2>2, <2>3, <2>4, <2>5 DEF Next, StopStep
<1> QED BY <1>1, <1>2, Invariance, PTL DEF Spec, Promise!SafeSpec
=============================================================================
