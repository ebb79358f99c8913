----------------------------- MODULE HttpServer -----------------------------
(***************************************************************************)
(* The lifecycle of the three servers whose Run is one call of a library's *)
(* Serve and a goroutine that stops it when the context ends:              *)
(*   http1   http.Server, Shutdown with a second of patience; a client has *)
(*           one connection at a time, made by its first call;             *)
(*   ws      the same, but the handler takes its connection away from the  *)
(*           server (Upgrade) and serves it until it ends;                 *)
(*   grpc    grpc.Server and GracefulStop.                                 *)
(* net/http and grpc are modelled from how Run uses them: a connection is  *)
(* "fresh" before its first request (http.StateNew), "idle" between        *)
(* requests, "active" inside a handler, and "hijacked" after an Upgrade.   *)
(***************************************************************************)
EXTENDS Naturals

CONSTANT Clients    \* the clients newClientHarness creates

VARIABLES
    kind,      \* which of the servers this is
    cctx,      \* the context given to Run and to the constructors has ended
    stop,      \* the stopping goroutine: "wait", "stopping", "polling" or "done"
    closing,   \* Shutdown or GracefulStop has begun
    lopen,     \* the listener is open
    serve,     \* Serve: "new" (not called yet), "accept", "drain" or "done"
    accErr,    \* Accept failed although the listener was open
    run,       \* Run: "running", or what it returned, "nil" or "err"
    conn,      \* the server's end of each client's connection
    link,      \* each connection: "open", "shut" by one end, or "broken"
    cli,       \* the clients
    req,       \* a request is under way that the server has not begun to read
    answered   \* some call was answered

stopVars == <<stop, closing>>
serveVars == <<serve, accErr, run>>
connVars == <<conn, link, cli, req, answered>>
vars == <<kind, cctx, stopVars, lopen, serveVars, connVars>>

Kinds == {"http1", "ws", "grpc"}

-----------------------------------------------------------------------------
Init ==
    /\ kind \in Kinds
    /\ cctx = FALSE
    /\ stop = "wait" /\ closing = FALSE
    /\ lopen = TRUE
    /\ serve = "new" /\ accErr = FALSE /\ run = "running"
    /\ conn = [i \in Clients |-> "none"]
    /\ link = [i \in Clients |-> "open"]
    /\ cli = [i \in Clients |-> "new"]
    /\ req = [i \in Clients |-> FALSE]
    /\ answered = FALSE

Ended(i) == conn[i] \in {"none", "gone"}

(* The server closes the connections in S. *)
Hangup(S) ==
    /\ conn' = [i \in Clients |-> IF i \in S THEN "gone" ELSE conn[i]]
    /\ link' = [i \in Clients |->
                   IF i \in S /\ link[i] = "open" THEN "shut" ELSE link[i]]

(* Closing the listener resets what it has not accepted. *)
CloseListener ==
    /\ lopen' = FALSE
    /\ Hangup({i \in Clients : conn[i] = "backlog"})

-----------------------------------------------------------------------------
(* The clients. *)

HarnessCancel ==
    /\ ~cctx
    /\ cctx' = TRUE
    /\ UNCHANGED <<kind, stopVars, lopen, serveVars, connVars>>

(* A connection with a first request on it. *)
Connect(i) ==
    /\ conn' = [conn EXCEPT ![i] = "backlog"]
    /\ link' = [link EXCEPT ![i] = "open"]
    /\ req' = [req EXCEPT ![i] = TRUE]

(* newClientHarness.  Only ws connects here, and waits for the upgrade. *)
Dial(i) ==
    /\ cli[i] = "new" /\ ~cctx
    /\ \A j \in Clients : cli[j] \in {"new", "idle"}
    /\ \/ /\ kind # "ws"
          /\ cli' = [cli EXCEPT ![i] = "idle"]
          /\ UNCHANGED <<conn, link, req>>
       \/ /\ kind = "ws" /\ lopen
          /\ cli' = [cli EXCEPT ![i] = "dialing"]
          /\ Connect(i)
       \/ /\ kind = "ws" /\ ~lopen
          /\ cli' = [cli EXCEPT ![i] = "refused"]
          /\ UNCHANGED <<conn, link, req>>
    /\ UNCHANGED <<kind, cctx, stopVars, lopen, serveVars, answered>>

(* http1 and grpc connect when they have no connection.  (One whose end the *)
(* server has not noticed yet is not replaced before it has.)              *)
StartCall(i) ==
    /\ cli[i] = "idle"
    /\ \A j \in Clients : cli[j] # "new"
    /\ \/ /\ ~Ended(i) /\ link[i] = "open"
          /\ cli' = [cli EXCEPT ![i] = "calling"]
          /\ req' = [req EXCEPT ![i] = TRUE]
          /\ UNCHANGED <<conn, link>>
       \/ /\ Ended(i) /\ kind # "ws" /\ lopen
          /\ cli' = [cli EXCEPT ![i] = "calling"]
          /\ Connect(i)
       \/ /\ Ended(i) /\ (kind = "ws" \/ ~lopen)
          /\ cli' = [cli EXCEPT ![i] = "failed"]
          /\ UNCHANGED <<conn, link, req>>
    /\ UNCHANGED <<kind, cctx, stopVars, lopen, serveVars, answered>>

(* Seeded fault: the request of a call that failed is not given up. *)
CallFailsReqKept(i) ==
    /\ cli[i] \in {"calling", "dialing"} /\ link[i] # "open"
    /\ cli' = [cli EXCEPT ![i] = IF @ = "dialing" THEN "refused" ELSE "failed"]
    /\ UNCHANGED <<kind, cctx, stopVars, lopen, serveVars, conn, link, req, answered>>

(* The connection ended under the call.  Only grpc's calls are made with the *)
(* context, and only ws's constructor uses it.                             *)
CallFails(i) ==
    /\ \/ cli[i] \in {"calling", "dialing"} /\ link[i] # "open"
       \/ cctx /\ cli[i] = IF kind = "grpc" THEN "calling" ELSE "dialing"
    /\ cli' = [cli EXCEPT ![i] = IF @ = "dialing" THEN "refused" ELSE "failed"]
    /\ link' = [link EXCEPT ![i] = IF cli[i] = "dialing" /\ @ = "open" THEN "shut" ELSE @]
    /\ req' = [req EXCEPT ![i] = FALSE]
    /\ UNCHANGED <<kind, cctx, stopVars, lopen, serveVars, conn, answered>>

(* The goroutine of newGRPCClient.  The others have none: http1's Transport *)
(* closes a connection that was idle for long, and ws has a Run that nobody *)
(* calls.                                                                  *)
ClientClose(i) ==
    /\ kind = "grpc" /\ cctx /\ cli[i] \in {"idle", "calling", "failed"}
    /\ cli' = [cli EXCEPT ![i] = "closed"]
    /\ link' = [link EXCEPT ![i] = IF @ = "open" THEN "shut" ELSE @]
    /\ UNCHANGED <<kind, cctx, stopVars, lopen, serveVars, conn, req, answered>>

IdleTimeout(i) ==
    /\ kind = "http1" /\ cli[i] = "idle" /\ ~Ended(i) /\ link[i] = "open"
    /\ link' = [link EXCEPT ![i] = "shut"]
    /\ UNCHANGED <<kind, cctx, stopVars, lopen, serveVars, conn, cli, req, answered>>

(* The transport fails. *)
Break(i) ==
    /\ ~Ended(i) /\ link[i] = "open"
    /\ link' = [link EXCEPT ![i] = "broken"]
    /\ UNCHANGED <<kind, cctx, stopVars, lopen, serveVars, conn, cli, req, answered>>

-----------------------------------------------------------------------------
(* Run: the call of Serve. *)

(* Serve after Shutdown is what Run takes for a clean end; after GracefulStop *)
(* it is an error.  Both close the listener.                               *)
ServeStarts ==
    /\ serve = "new"
    /\ IF closing
         THEN /\ serve' = "done"
              /\ run' = IF kind = "grpc" THEN "err" ELSE "nil"
              /\ CloseListener
         ELSE /\ serve' = "accept"
              /\ UNCHANGED <<run, lopen, conn, link>>
    /\ UNCHANGED <<kind, cctx, stopVars, accErr, cli, req, answered>>

Accept(i) ==
    /\ serve = "accept" /\ lopen /\ conn[i] = "backlog"
    /\ conn' = [conn EXCEPT ![i] = IF kind = "grpc" THEN "idle" ELSE "fresh"]
    /\ UNCHANGED <<kind, cctx, stopVars, lopen, serveVars, link, cli, req, answered>>

(* Accept fails for a reason of its own. *)
AcceptFails ==
    /\ serve = "accept" /\ lopen
    /\ accErr' = TRUE
    /\ serve' = "done" /\ run' = "err"
    /\ CloseListener
    /\ UNCHANGED <<kind, cctx, stopVars, cli, req, answered>>

(* Seeded fault: Serve of grpc returns as soon as the listener is closed. *)
ListenerClosedNoDrain ==
    /\ serve = "accept" /\ ~lopen
    /\ serve' = "done" /\ run' = "nil"
    /\ UNCHANGED <<kind, cctx, stopVars, lopen, accErr, connVars>>

(* Seeded fault: Run returns http.ErrServerClosed too. *)
ListenerClosedReported ==
    /\ serve = "accept" /\ ~lopen
    /\ IF kind = "grpc" THEN serve' = "drain" /\ UNCHANGED run
                        ELSE serve' = "done" /\ run' = "err"
    /\ UNCHANGED <<kind, cctx, stopVars, lopen, accErr, connVars>>

(* Shutdown or GracefulStop closed the listener: Serve of net/http returns, *)
(* whatever handlers are doing; grpc's waits for GracefulStop.             *)
ListenerClosed ==
    /\ serve = "accept" /\ ~lopen
    /\ IF kind = "grpc" THEN serve' = "drain" /\ UNCHANGED run
                        ELSE serve' = "done" /\ run' = "nil"
    /\ UNCHANGED <<kind, cctx, stopVars, lopen, accErr, connVars>>

Drained ==
    /\ serve = "drain" /\ stop = "done"
    /\ serve' = "done" /\ run' = "nil"
    /\ UNCHANGED <<kind, cctx, stopVars, lopen, accErr, connVars>>

-----------------------------------------------------------------------------
(* Run: the goroutine that waits for the context. *)

(* Seeded fault: Shutdown is called whether or not the context has ended. *)
StopEarly ==
    /\ stop = "wait"
    /\ stop' = "stopping" /\ closing' = TRUE
    /\ IF serve = "new" THEN UNCHANGED <<lopen, conn, link>> ELSE CloseListener
    /\ UNCHANGED <<kind, cctx, serveVars, cli, req, answered>>

(* Only a listener that Serve has been given is closed. *)
Stop ==
    /\ stop = "wait" /\ cctx
    /\ stop' = "stopping" /\ closing' = TRUE
    /\ IF serve = "new" THEN UNCHANGED <<lopen, conn, link>> ELSE CloseListener
    /\ UNCHANGED <<kind, cctx, serveVars, cli, req, answered>>

(* Both libraries wait for the accept loop before they look at connections. *)
Stopping == stop \in {"stopping", "polling"} /\ serve # "accept"

(* Shutdown closes what is idle.  It looks again later, but no connection  *)
(* becomes idle any more (HandlerEnds).                                    *)
Poll ==
    /\ Stopping /\ stop = "stopping" /\ kind # "grpc"
    /\ stop' = "polling"
    /\ Hangup({i \in Clients : conn[i] = "idle"})
    /\ UNCHANGED <<kind, cctx, closing, lopen, serveVars, cli, req, answered>>

(* Shutdown is over when the server has no connection left (it has forgotten *)
(* the hijacked ones), or after a second.                                  *)
ShutdownReturns ==
    /\ Stopping /\ stop = "polling"
    /\ stop' = "done"
    /\ UNCHANGED <<kind, cctx, closing, lopen, serveVars, connVars>>

(* GracefulStop tells the connections to go away when their calls are over *)
(* and waits for them.                                                     *)
GoAway(i) ==
    /\ Stopping /\ kind = "grpc"
    /\ conn[i] = "idle" /\ ~req[i]
    /\ Hangup({i})
    /\ UNCHANGED <<kind, cctx, stopVars, lopen, serveVars, cli, req, answered>>

GracefulStopReturns ==
    /\ Stopping /\ kind = "grpc"
    /\ \A i \in Clients : conn[i] \in {"none", "backlog", "gone"}
    /\ stop' = "done"
    /\ UNCHANGED <<kind, cctx, closing, lopen, serveVars, connVars>>

-----------------------------------------------------------------------------
(* The connections. *)

HandlerStarts(i) ==
    /\ conn[i] \in {"fresh", "idle"} /\ req[i] /\ link[i] = "open"
    /\ conn' = [conn EXCEPT ![i] = "active"]
    /\ req' = [req EXCEPT ![i] = FALSE]
    /\ UNCHANGED <<kind, cctx, stopVars, lopen, serveVars, link, cli, answered>>

Answer(i) ==
    /\ cli' = [cli EXCEPT ![i] = IF @ \in {"calling", "dialing"} THEN "idle" ELSE @]
    /\ answered' = (answered \/ cli[i] = "calling")

(* Seeded fault: connections are kept alive during a Shutdown. *)
HandlerEndsKeepAlive(i) ==
    /\ conn[i] = "active"
    /\ IF link[i] = "open"
         THEN /\ conn' = [conn EXCEPT ![i] = IF kind = "ws" THEN "hijacked" ELSE "idle"]
              /\ Answer(i)
              /\ UNCHANGED link
         ELSE Hangup({i}) /\ UNCHANGED <<cli, answered>>
    /\ UNCHANGED <<kind, cctx, stopVars, lopen, serveVars, req>>

(* The handler has answered; net/http closes a connection after a request  *)
(* if it is shutting down.  A ws handler has only upgraded and goes on.    *)
HandlerEnds(i) ==
    /\ conn[i] = "active"
    /\ IF link[i] # "open" THEN Hangup({i}) /\ UNCHANGED <<cli, answered>>
       ELSE /\ Answer(i)
            /\ IF kind = "http1" /\ closing
                 THEN Hangup({i})
                 ELSE /\ conn' = [conn EXCEPT ![i] = IF kind = "ws" THEN "hijacked" ELSE "idle"]
                      /\ UNCHANGED link
    /\ UNCHANGED <<kind, cctx, stopVars, lopen, serveVars, req>>

(* runBinaryConn and runJsonConn, for one call; WsConn has it in full. *)
WsServe(i) ==
    /\ conn[i] = "hijacked" /\ req[i] /\ link[i] = "open"
    /\ req' = [req EXCEPT ![i] = FALSE]
    /\ Answer(i)
    /\ UNCHANGED <<kind, cctx, stopVars, lopen, serveVars, conn, link>>

(* The server notices that the connection ended. *)
ConnEnds(i) ==
    /\ conn[i] \in {"fresh", "idle", "hijacked"} /\ link[i] # "open"
    /\ Hangup({i})
    /\ UNCHANGED <<kind, cctx, stopVars, lopen, serveVars, cli, req, answered>>

-----------------------------------------------------------------------------
StopStep ==
    \/ Stop \/ Poll \/ ShutdownReturns \/ GracefulStopReturns
    \/ \E i \in Clients : GoAway(i)

ConnStep(i) == HandlerStarts(i) \/ HandlerEnds(i) \/ WsServe(i) \/ ConnEnds(i)

Next ==
    \/ HarnessCancel
    \/ ServeStarts \/ AcceptFails \/ ListenerClosed \/ Drained
    \/ StopStep
    \/ \E i \in Clients :
        \/ Dial(i) \/ StartCall(i) \/ CallFails(i) \/ ClientClose(i)
        \/ IdleTimeout(i) \/ Break(i)
        \/ Accept(i) \/ ConnStep(i)

(* Goroutines that can run do run.  Nobody promises calls, failures, idle  *)
(* timeouts or the end of the benchmark.                                   *)
Fairness ==
    /\ WF_vars(ServeStarts) /\ WF_vars(ListenerClosed) /\ WF_vars(Drained)
    /\ WF_vars(StopStep)
    /\ \A i \in Clients :
        /\ WF_vars(Accept(i)) /\ WF_vars(ConnStep(i))
        /\ WF_vars(CallFails(i)) /\ WF_vars(ClientClose(i))

Spec == Init /\ [][Next]_vars /\ Fairness

-----------------------------------------------------------------------------
(* Properties. *)

(* The variables keep their types, and a request is under way only while its client
   waits for the answer, or was closed by its goroutine meanwhile. *)
TypeOK ==
    /\ kind \in Kinds
    /\ {cctx, closing, lopen, accErr, answered} \subseteq BOOLEAN
    /\ stop \in {"wait", "stopping", "polling", "done"}
    /\ serve \in {"new", "accept", "drain", "done"}
    /\ run \in {"running", "nil", "err"}
    /\ conn \in [Clients -> {"none", "backlog", "fresh", "idle", "active", "hijacked", "gone"}]
    /\ link \in [Clients -> {"open", "shut", "broken"}]
    /\ cli \in [Clients -> {"new", "dialing", "idle", "calling", "refused", "failed", "closed"}]
    /\ req \in [Clients -> BOOLEAN]
    /\ \A i \in Clients : req[i] => cli[i] \in {"dialing", "calling", "closed"}

(* The harness takes an error of Run for a failed benchmark.  GracefulStop can
   win the race against Serve (grpc_server.go:53-57), which then fails, but not
   in a benchmark that had a call answered; there only Accept can. *)
CleanAfterService == run = "err" /\ answered => accErr

(* When the gRPC server's Run returns without an error its connections have ended:
   nothing of it is left for the next benchmark.  (Of the other two this is not
   true: their Serve returns while handlers are still at work.) *)
DrainedAtReturn == kind = "grpc" /\ run = "nil" => \A i \in Clients : Ended(i)

(* The connections of the HTTP/1 and gRPC benchmarks end after the context has,
   even those Shutdown had no patience for. *)
ConnsEnd == \A i \in Clients : (cctx /\ kind # "ws") ~> Ended(i)

(* "If client implements Runnable, the Run() method will be called after the
   client is created" (rpcbench/interface.go:50-52), and wsClient's Run closes the
   connection when the context ends. *)
WsConnsEnd == \A i \in Clients : (cctx /\ kind = "ws") ~> Ended(i)

Promise == INSTANCE ServerRun

(* The promise of Server.Run: no return without an error before the context has
   ended, and always a return after that, whatever handlers and clients do. *)
RefinesServerRun == Promise!Spec
=============================================================================
