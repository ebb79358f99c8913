---------------------------- MODULE PooledServer ----------------------------
(***************************************************************************)
(* The lifecycle that tcpServer.Run, gocapnpServer.Run and the mdcapnp     *)
(* server's Run share: an outer pool g with a goroutine that closes the    *)
(* listener when its context ends and one that accepts connections, and an *)
(* inner pool connPool with one task per accepted connection.  Each pool   *)
(* has a context, child of the one above it (cctx > gctx > pctx), keeps    *)
(* the first error of its tasks and ends its context on it.  The three     *)
(* servers differ in what serves a connection:                             *)
(*   tcp      runConn in connPool: reads a command, answers it, and looks  *)
(*            at its context between commands only; never closes;          *)
(*   gocapnp  runConn in connPool: waits for the connection or the context *)
(*            to end and closes the connection;                            *)
(*   mdcapnp  the vat, a task of g; connPool stays empty.  Its clients are *)
(*            of two sorts, and "level0" ones never close.                 *)
(* What happens inside a call is the subject of TcpConn.                   *)
(***************************************************************************)
EXTENDS Naturals

CONSTANT Clients    \* the clients newClientHarness creates

VARIABLES
    kind,     \* which of the servers this is
    cctx,     \* the context given to Run and to the clients is cancelled
    gctx,     \* the context of g is cancelled
    pctx,     \* the context of connPool is cancelled
    gerr,     \* the error g has recorded: "none", "canceled" or "err"
    perr,     \* the error connPool has recorded
    lopen,    \* the listener is open
    closer,   \* the goroutine that closes it: "wait" or "done"
    acc,      \* the accepting goroutine: "accept", "join", "failed" or "done"
    accErr,   \* Accept failed with something else than net.ErrClosed
    vat,      \* mdcapnp's vat.Run: "run", "failed" or "done"
    run,      \* Run: "running", or what it returned, "nil" or "err"
    conn,     \* the server's end of each client's connection
    link,     \* each connection: "open", "shut" by the server or "broken"
    cli,      \* the clients
    req       \* a request is under way that the server has not begun to read

poolVars == <<gctx, pctx, gerr, perr>>
taskVars == <<lopen, closer, acc, accErr, vat, run>>
connVars == <<conn, link, cli, req>>
vars == <<kind, cctx, poolVars, taskVars, connVars>>

Kinds == {"tcp", "gocapnp", "mdcapnp", "level0"}

HasVat == kind \in {"mdcapnp", "level0"}

-----------------------------------------------------------------------------
Init ==
    /\ kind \in Kinds
    /\ cctx = FALSE /\ gctx = FALSE /\ pctx = FALSE
    /\ gerr = "none" /\ perr = "none"
    /\ lopen = TRUE /\ closer = "wait" /\ acc = "accept" /\ accErr = FALSE
    /\ vat = IF HasVat THEN "run" ELSE "done"
    /\ run = "running"
    /\ conn = [i \in Clients |-> "none"]
    /\ link = [i \in Clients |-> "open"]
    /\ cli = [i \in Clients |-> "new"]
    /\ req = [i \in Clients |-> FALSE]

(* Seeded fault: without WithFirstError the pool joins its errors, and a joined
   error is a context.Canceled too. *)
RecordJoined(old, new) ==
    IF old = "none" THEN new ELSE IF new \in {"none", old} THEN old ELSE "joined"

(* Seeded fault: the pool keeps the last error of its tasks. *)
RecordLast(old, new) == IF new = "none" THEN old ELSE new

(* WithFirstError. *)
Record(old, new) == IF old = "none" THEN new ELSE old

Leave(i, link1) ==
    /\ conn' = [conn EXCEPT ![i] = "gone"]
    /\ link' = [link EXCEPT ![i] = link1]

-----------------------------------------------------------------------------
(* The clients.  newClientHarness creates them one after the other; the    *)
(* constructors of the Cap'n Proto clients wait for a first answer of the  *)
(* server, tcp's does not.                                                 *)

Waiting(i) == cli[i] \in {"dialing", "calling"}

Dial(i) ==
    /\ cli[i] = "new" /\ ~cctx
    /\ \A j \in Clients : cli[j] \in {"new", "idle"}
    /\ IF lopen
         THEN /\ conn' = [conn EXCEPT ![i] = "backlog"]
              /\ cli' = [cli EXCEPT ![i] = IF kind = "tcp" THEN "idle" ELSE "dialing"]
              /\ req' = [req EXCEPT ![i] = kind # "tcp"]
         ELSE /\ cli' = [cli EXCEPT ![i] = "refused"]
              /\ UNCHANGED <<conn, req>>
    /\ UNCHANGED <<kind, cctx, poolVars, taskVars, link>>

(* The constructor gives up.  mdcapnp's vat is running by then and closes  *)
(* the connection in the end; the others return without closing it.        *)
DialFails(i) ==
    /\ cli[i] = "dialing" /\ (cctx \/ link[i] # "open")
    /\ cli' = [cli EXCEPT ![i] = IF kind = "mdcapnp" THEN "failed" ELSE "refused"]
    /\ req' = [req EXCEPT ![i] = FALSE]
    /\ UNCHANGED <<kind, cctx, poolVars, taskVars, conn, link>>

StartCall(i) ==
    /\ cli[i] = "idle"
    /\ \A j \in Clients : cli[j] # "new"
    /\ cli' = [cli EXCEPT ![i] = "calling"]
    /\ req' = [req EXCEPT ![i] = TRUE]
    /\ UNCHANGED <<kind, cctx, poolVars, taskVars, conn, link>>

(* The connection ended under a call, or the context did, which the Cap'n  *)
(* Proto stubs are given.  gocapnp's Nop does not look at the error of its *)
(* future and returns nil.                                                 *)
CallFails(i) ==
    /\ cli[i] = "calling"
    /\ \/ /\ link[i] # "open" \/ (cctx /\ kind # "tcp")
          /\ cli' = [cli EXCEPT ![i] = "failed"]
       \/ /\ link[i] # "open" /\ kind = "gocapnp"
          /\ cli' = [cli EXCEPT ![i] = "idle"]
    /\ req' = [req EXCEPT ![i] = FALSE]
    /\ UNCHANGED <<kind, cctx, poolVars, taskVars, conn, link>>

(* The goroutine started by the constructor closes the connection when the *)
(* context ends; "aborted" if that was inside a call.  Nobody does so for  *)
(* a level 0 client.                                                       *)
ClientClose(i) ==
    /\ cctx /\ kind # "level0" /\ cli[i] \in {"idle", "calling", "failed"}
    /\ cli' = [cli EXCEPT ![i] = IF @ = "calling" THEN "aborted" ELSE "closed"]
    /\ UNCHANGED <<kind, cctx, poolVars, taskVars, conn, link, req>>

ClientGone(i) == cli[i] \in {"closed", "aborted"}

(* The transport fails. *)
Break(i) ==
    /\ conn[i] # "none" /\ link[i] = "open" /\ ~ClientGone(i)
    /\ link' = [link EXCEPT ![i] = "broken"]
    /\ UNCHANGED <<kind, cctx, poolVars, taskVars, conn, cli, req>>

-----------------------------------------------------------------------------
(* The contexts. *)

HarnessCancel ==
    /\ ~cctx
    /\ cctx' = TRUE
    /\ UNCHANGED <<kind, poolVars, taskVars, connVars>>

PropagateToG ==
    /\ cctx /\ ~gctx
    /\ gctx' = TRUE
    /\ UNCHANGED <<kind, cctx, pctx, gerr, perr, taskVars, connVars>>

PropagateToConnPool ==
    /\ gctx /\ ~pctx
    /\ pctx' = TRUE
    /\ UNCHANGED <<kind, cctx, gctx, gerr, perr, taskVars, connVars>>

-----------------------------------------------------------------------------
(* The tasks of g. *)

(* Seeded fault: the listener is closed when the connections have ended. *)
CloseListenerLast ==
    /\ closer = "wait" /\ gctx /\ acc = "done"
    /\ closer' = "done"
    /\ lopen' = FALSE
    /\ UNCHANGED <<kind, cctx, poolVars, acc, accErr, vat, run, connVars>>

(* Closing the listener resets what it has not accepted. *)
CloseListener ==
    /\ closer = "wait" /\ gctx
    /\ closer' = "done"
    /\ lopen' = FALSE
    /\ conn' = [i \in Clients |-> IF conn[i] = "backlog" THEN "gone" ELSE conn[i]]
    /\ link' = [i \in Clients |->
                   IF conn[i] = "backlog" /\ link[i] = "open" THEN "shut" ELSE link[i]]
    /\ UNCHANGED <<kind, cctx, poolVars, acc, accErr, vat, run, cli, req>>

(* Seeded fault: runConn is called by the accepting goroutine itself. *)
AcceptInline(i) ==
    /\ acc = "accept" /\ lopen /\ conn[i] = "backlog"
    /\ \A j \in Clients : conn[j] \in {"none", "backlog", "gone"}
    /\ conn' = [conn EXCEPT ![i] = IF kind = "tcp" THEN "top" ELSE "serving"]
    /\ UNCHANGED <<kind, cctx, poolVars, taskVars, link, cli, req>>

Accept(i) ==
    /\ acc = "accept" /\ lopen /\ conn[i] = "backlog"
    /\ conn' = [conn EXCEPT ![i] = IF kind = "tcp" THEN "top" ELSE "serving"]
    /\ UNCHANGED <<kind, cctx, poolVars, taskVars, link, cli, req>>

(* Accept fails: because the listener was closed, which is no error, or    *)
(* for a reason of its own.                                                *)
AcceptEnds ==
    /\ acc = "accept"
    /\ acc' = "join"
    /\ \/ ~lopen /\ accErr' = FALSE
       \/ lopen /\ accErr' = TRUE
    /\ UNCHANGED <<kind, cctx, poolVars, lopen, closer, vat, run, connVars>>

(* connPool has no task for i (mdcapnp's connections belong to the vat). *)
NoTask(i) == HasVat \/ conn[i] \in {"none", "backlog", "gone"}

JoinResult == IF accErr THEN "err" ELSE perr

(* Seeded fault: the accepting goroutine returns without connPool.Wait. *)
JoinNobody ==
    /\ acc = "join"
    /\ gerr' = Record(gerr, JoinResult)
    /\ acc' = IF JoinResult = "none" THEN "done" ELSE "failed"
    /\ UNCHANGED <<kind, cctx, gctx, pctx, perr, lopen, closer, accErr, vat, run, connVars>>

(* connPool.Wait returns and the accepting goroutine ends; an error is     *)
(* recorded before the context is cancelled.                               *)
Join ==
    /\ acc = "join"
    /\ \A i \in Clients : NoTask(i)
    /\ gerr' = Record(gerr, JoinResult)
    /\ acc' = IF JoinResult = "none" THEN "done" ELSE "failed"
    /\ pctx' = TRUE
    /\ UNCHANGED <<kind, cctx, gctx, perr, lopen, closer, accErr, vat, run, connVars>>

AcceptorCancels ==
    /\ acc = "failed"
    /\ acc' = "done"
    /\ gctx' = TRUE
    /\ UNCHANGED <<kind, cctx, pctx, gerr, perr, lopen, closer, accErr, vat, run, connVars>>

(* vat.Run ends with its context, returns its error and takes the vat's    *)
(* connections down.                                                       *)
VatEnds ==
    /\ vat = "run" /\ gctx
    /\ vat' = "failed"
    /\ gerr' = Record(gerr, "canceled")
    /\ conn' = [i \in Clients |-> IF conn[i] = "serving" THEN "gone" ELSE conn[i]]
    /\ link' = [i \in Clients |->
                   IF conn[i] = "serving" /\ link[i] = "open" THEN "shut" ELSE link[i]]
    /\ UNCHANGED <<kind, cctx, gctx, pctx, perr, lopen, closer, acc, accErr, run, cli, req>>

VatCancels ==
    /\ vat = "failed"
    /\ vat' = "done"
    /\ gctx' = TRUE
    /\ UNCHANGED <<kind, cctx, pctx, gerr, perr, lopen, closer, acc, accErr, run, connVars>>

(* g.Wait returns; a context.Canceled is no error of Run. *)
RunReturns ==
    /\ run = "running"
    /\ closer = "done" /\ acc = "done" /\ vat = "done"
    /\ run' = IF gerr = "err" THEN "err" ELSE "nil"
    /\ UNCHANGED <<kind, cctx, poolVars, lopen, closer, acc, accErr, vat, connVars>>

-----------------------------------------------------------------------------
(* The tasks of connPool.  A task that returns an error records it first   *)
(* and cancels the pool's context in a second step ("failed").             *)

ConnFails(i, e) ==
    /\ conn' = [conn EXCEPT ![i] = "failed"]
    /\ perr' = Record(perr, e)

ConnCancels(i) ==
    /\ conn[i] = "failed"
    /\ conn' = [conn EXCEPT ![i] = "gone"]
    /\ pctx' = TRUE
    /\ UNCHANGED <<kind, cctx, gctx, gerr, perr, taskVars, link, cli, req>>

(* tcp: the head of runConn's loop. *)
ConnTop(i) ==
    /\ conn[i] = "top"
    /\ IF pctx THEN ConnFails(i, "canceled")
               ELSE conn' = [conn EXCEPT ![i] = "read"] /\ UNCHANGED perr
    /\ UNCHANGED <<kind, cctx, gctx, pctx, gerr, taskVars, link, cli, req>>

(* tcp: a command arrives. *)
ConnRead(i) ==
    /\ conn[i] = "read" /\ req[i]
    /\ conn' = [conn EXCEPT ![i] = "body"]
    /\ req' = [req EXCEPT ![i] = FALSE]
    /\ UNCHANGED <<kind, cctx, poolVars, taskVars, link, cli>>

(* Seeded fault: every end of the stream is an error of the task. *)
ConnEOFErr(i) ==
    /\ conn[i] = "read" /\ ~req[i]
    /\ ClientGone(i) /\ link[i] # "broken"
    /\ ConnFails(i, "err")
    /\ UNCHANGED <<kind, cctx, gctx, pctx, gerr, taskVars, link, cli, req>>

(* tcp: the client closed its end: end of stream. *)
ConnEOF(i) ==
    /\ conn[i] = "read" /\ ~req[i]
    /\ ClientGone(i) /\ link[i] # "broken"
    /\ Leave(i, link[i])
    /\ UNCHANGED <<kind, cctx, poolVars, taskVars, cli, req>>

(* tcp: a read or a write fails: the transport broke, or the client left   *)
(* inside a call (what it had not read resets the connection, what it had  *)
(* not sent ends the stream inside the request).                           *)
ConnError(i) ==
    /\ conn[i] \in {"read", "body"}
    /\ link[i] = "broken" \/ cli[i] = "aborted"
    /\ ConnFails(i, "err")
    /\ UNCHANGED <<kind, cctx, gctx, pctx, gerr, taskVars, link, cli, req>>

(* Seeded fault: runConn serves one command. *)
ConnReplyOnce(i) ==
    /\ conn[i] = "body" /\ link[i] # "broken"
    /\ conn' = [conn EXCEPT ![i] = "gone"]
    /\ cli' = [cli EXCEPT ![i] = IF @ = "calling" THEN "idle" ELSE @]
    /\ UNCHANGED <<kind, cctx, poolVars, taskVars, link, req>>

(* tcp: the command is answered.  A client that left does not see it. *)
ConnReply(i) ==
    /\ conn[i] = "body" /\ link[i] # "broken"
    /\ conn' = [conn EXCEPT ![i] = "top"]
    /\ cli' = [cli EXCEPT ![i] = IF @ = "calling" THEN "idle" ELSE @]
    /\ UNCHANGED <<kind, cctx, poolVars, taskVars, link, req>>

(* gocapnp: the connection's own goroutines serve a call.  mdcapnp: the    *)
(* vat does, while it runs.                                                *)
CapServe(i) ==
    /\ conn[i] = "serving" /\ req[i] /\ link[i] = "open"
    /\ kind = "gocapnp" \/ vat = "run"
    /\ req' = [req EXCEPT ![i] = FALSE]
    /\ cli' = [cli EXCEPT ![i] = IF Waiting(i) THEN "idle" ELSE @]
    /\ UNCHANGED <<kind, cctx, poolVars, taskVars, conn, link>>

(* gocapnp: conn.Done.  mdcapnp: the vat notices that the peer is gone. *)
CapPeerGone(i) ==
    /\ conn[i] = "serving"
    /\ link[i] = "broken" \/ ClientGone(i)
    /\ Leave(i, IF link[i] = "open" THEN "shut" ELSE link[i])
    /\ UNCHANGED <<kind, cctx, poolVars, taskVars, cli, req>>

(* gocapnp: the context ends first: conn.Close, which can report what      *)
(* became of a broken transport.                                           *)
CapClose(i) ==
    /\ kind = "gocapnp" /\ conn[i] = "serving" /\ pctx
    /\ \/ /\ Leave(i, IF link[i] = "open" THEN "shut" ELSE link[i])
          /\ UNCHANGED perr
       \/ /\ link[i] = "broken"
          /\ ConnFails(i, "err")
          /\ UNCHANGED link
    /\ UNCHANGED <<kind, cctx, gctx, pctx, gerr, taskVars, cli, req>>

-----------------------------------------------------------------------------
ConnStep(i) ==
    \/ ConnCancels(i) \/ ConnTop(i) \/ ConnRead(i) \/ ConnEOF(i) \/ ConnError(i)
    \/ ConnReply(i) \/ CapServe(i) \/ CapPeerGone(i) \/ CapClose(i)

Next ==
    \/ HarnessCancel \/ PropagateToG \/ PropagateToConnPool
    \/ CloseListener \/ AcceptEnds \/ Join \/ AcceptorCancels
    \/ VatEnds \/ VatCancels \/ RunReturns
    \/ \E i \in Clients :
        \/ Dial(i) \/ DialFails(i) \/ StartCall(i) \/ CallFails(i) \/ ClientClose(i) \/ Break(i)
        \/ Accept(i) \/ ConnStep(i)

(* Goroutines that can run do run, a cancelled context reaches its children *)
(* and its listeners.  Nobody promises calls, failures or the end of the    *)
(* benchmark; a closed listener must be noticed, an open one need not fail. *)
Fairness ==
    /\ WF_vars(PropagateToG) /\ WF_vars(PropagateToConnPool)
    /\ WF_vars(CloseListener) /\ WF_vars(AcceptEnds /\ ~lopen)
    /\ WF_vars(Join) /\ WF_vars(AcceptorCancels)
    /\ WF_vars(VatEnds) /\ WF_vars(VatCancels) /\ WF_vars(RunReturns)
    /\ \A i \in Clients :
        /\ WF_vars(Accept(i)) /\ WF_vars(ConnStep(i))
        /\ WF_vars(DialFails(i)) /\ WF_vars(CallFails(i)) /\ WF_vars(ClientClose(i))

Spec == Init /\ [][Next]_vars /\ Fairness

-----------------------------------------------------------------------------
(* Properties. *)

(* The variables keep their types; a pool's error is one of its tasks' errors. *)
TypeOK ==
    /\ kind \in Kinds
    /\ {cctx, gctx, pctx, lopen, accErr} \subseteq BOOLEAN
    /\ {gerr, perr} \subseteq {"none", "canceled", "err"}
    /\ closer \in {"wait", "done"}
    /\ acc \in {"accept", "join", "failed", "done"}
    /\ vat \in {"run", "failed", "done"}
    /\ run \in {"running", "nil", "err"}
    /\ conn \in [Clients -> {"none", "backlog", "top", "read", "body", "serving",
                             "failed", "gone"}]
    /\ link \in [Clients -> {"open", "shut", "broken"}]
    /\ cli \in [Clients -> {"new", "dialing", "idle", "calling", "refused", "failed",
                           "closed", "aborted"}]
    /\ req \in [Clients -> BOOLEAN]

(* When Run returns nothing of the server is left behind: the listener is
   closed and no goroutine of either pool is still at work. *)
Joined ==
    run # "running" =>
        /\ ~lopen /\ closer = "done" /\ acc = "done" /\ vat = "done"
        /\ \A i \in Clients : conn[i] \in {"none", "gone"} \/ HasVat

(* connPool keeps an error that is not the end of its context, or Accept failed. *)
Fault == perr \notin {"none", "canceled"} \/ accErr

(* Run reports the faults of its tasks and nothing else: the cancellations that
   a fault sets off, or that race with it, do not hide it.  (In mdcapnp the
   vat's own context.Canceled may come first, but only when the benchmark has
   ended its context by itself: an Accept that fails before is reported.) *)
Reported ==
    run # "running" =>
        /\ run = "err" => Fault
        /\ Fault /\ run # "err" => HasVat /\ cctx

(* connPool records an error only after a transport broke or a client left
   inside a call: clients that close between calls end their tasks with nil,
   whatever the order in which contexts and connections end. *)
FaultsAreReal ==
    perr = "err" => \E i \in Clients : link[i] = "broken" \/ cli[i] = "aborted"

(* Client i waits on a connection that is open and that nobody serves. *)
Abandoned(i) ==
    /\ Waiting(i) /\ link[i] = "open"
    /\ conn[i] = "gone" \/ (conn[i] = "backlog" /\ acc # "accept" /\ lopen)

(* While the benchmark runs, a client is abandoned in a call only after Accept
   failed or, over tcp, after another connection broke and took the pool's
   context with it (runConn returns on ctx.Err() without closing). *)
AbandonedOnlyAfterFault ==
    \A i \in Clients :
        Abandoned(i) /\ ~cctx =>
            accErr \/ (kind = "tcp" /\ \E j \in Clients \ {i} : link[j] = "broken")

(* A call ends, unless the server stopped accepting or cancelled the pool. *)
CallSettles ==
    \A i \in Clients :
        Waiting(i) ~> (~Waiting(i) \/ accErr \/ (kind = "tcp" /\ pctx))

Promise == INSTANCE ServerRun

(* The promise of Server.Run: no return without an error before the context has
   ended, whatever connections do, and always a return after that. *)
RefinesServerRun == Promise!Spec

(* "Each test op involves sending one request and waiting for its reponse back"
   (README.md:72): no call succeeds on a connection that is no longer there. *)
NilMeansAnswered ==
    [][\A i \in Clients : cli[i] = "calling" /\ cli'[i] = "idle" => link[i] = "open"]_vars
=============================================================================
