---------------------------- MODULE BenchRunner -----------------------------
(***************************************************************************)
(* One benchmark: RunCase with runSequentialBench and runParallelBench     *)
(* (rpcbench/bench_runner.go), the harnesses they create                   *)
(* (rpcbench/bench_harness.go), and what package testing does around them: *)
(* it runs the workers of RunParallel, hands out iterations, cancels the   *)
(* benchmark's context when the benchmark function is over, and then runs  *)
(* the cleanups.  A call is one step that succeeds or fails.               *)
(***************************************************************************)
EXTENDS Naturals, Sequences

CONSTANTS
    NbClients,   \* runtime.GOMAXPROCS(0): clients and RunParallel workers
    Iters        \* b.N, or the iterations b.Loop decides on

ASSUME NbClientsAssumption == NbClients \in Nat \ {0}
ASSUME ItersAssumption == Iters \in Nat \ {0}

Clients == 1..NbClients
Workers == 1..NbClients
NoClient == 0

VARIABLES
    mode,      \* "sequential" or "parallel" (bc.Parallel)
    mpc,       \* the benchmark's goroutine
    cctx,      \* b.Context() is cancelled
    srv,       \* server.Run: "none", "running", or its result, "nil" or "err"
    dialed,    \* clients created by newClientHarness
    iters,     \* iterations nobody has claimed
    clients,   \* the channel the workers take their client from
    totals,    \* the channel they send their count to
    wpc,       \* the workers: "none", "take", "next", "call", "send" or "exit"
    held,      \* the client each worker uses
    cnt,       \* the N of each worker
    got,       \* totals received
    N,         \* the benchmark's N
    ret,       \* what RunCase returned: "none", "nil" or "err"
    failed     \* b.Failed()

mainVars == <<mpc, cctx, dialed, got, ret>>
workVars == <<clients, wpc, held, cnt>>
vars == <<mode, mainVars, srv, iters, totals, workVars, N, failed>>

-----------------------------------------------------------------------------
Init ==
    /\ mode \in {"sequential", "parallel"}
    /\ mpc = "listen" /\ cctx = FALSE /\ srv = "none"
    /\ dialed = 0 /\ iters = Iters
    /\ clients = <<>> /\ totals = <<>>
    /\ wpc = [w \in Workers |-> "none"]
    /\ held = [w \in Workers |-> NoClient]
    /\ cnt = [w \in Workers |-> 0]
    /\ got = 0 /\ N = 0
    /\ ret = "none" /\ failed = FALSE

(* RunCase returns e. *)
ReturnWith(e) == mpc' = "return" /\ ret' = e

-----------------------------------------------------------------------------
(* The harnesses. *)

(* newServerHarness: net.Listen or NewServer may fail, or Run is started in *)
(* a goroutine.                                                            *)
StartServer ==
    /\ mpc = "listen"
    /\ \/ ReturnWith("err") /\ UNCHANGED srv
       \/ mpc' = "dial" /\ srv' = "running" /\ UNCHANGED ret
    /\ UNCHANGED <<mode, cctx, dialed, got, iters, totals, workVars, N, failed>>

NbWanted == IF mode = "sequential" THEN 1 ELSE NbClients

(* newClientHarness: one NewClient after the other, the first failure ends it. *)
Dial ==
    /\ mpc = "dial" /\ dialed < NbWanted
    /\ \/ dialed' = dialed + 1 /\ UNCHANGED <<mpc, ret>>
       \/ ReturnWith("err") /\ UNCHANGED dialed
    /\ UNCHANGED <<mode, cctx, got, srv, iters, totals, workVars, N, failed>>

(* Sequential: on to the loop.  Parallel: the channels are made, the clients *)
(* put in theirs, and RunParallel starts its workers.                      *)
Dialed ==
    /\ mpc = "dial" /\ dialed = NbWanted
    /\ IF mode = "sequential"
         THEN mpc' = "loop" /\ UNCHANGED <<clients, wpc>>
         ELSE /\ mpc' = "parallel"
              /\ clients' = [c \in Clients |-> c]
              /\ wpc' = [w \in Workers |-> "take"]
    /\ UNCHANGED <<mode, cctx, dialed, got, ret, srv, iters, totals, held, cnt, N, failed>>

-----------------------------------------------------------------------------
(* runSequentialBench. *)

Loop ==
    /\ mpc = "loop"
    /\ IF iters > 0 THEN iters' = iters - 1 /\ mpc' = "call"
                    ELSE UNCHANGED iters /\ mpc' = "setbytes"
    /\ UNCHANGED <<mode, cctx, dialed, got, ret, srv, totals, workVars, N, failed>>

Call ==
    /\ mpc = "call"
    /\ \/ mpc' = "loop" /\ N' = N + 1 /\ UNCHANGED ret
       \/ ReturnWith("err") /\ UNCHANGED N
    /\ UNCHANGED <<mode, cctx, dialed, got, srv, iters, totals, workVars, failed>>

-----------------------------------------------------------------------------
(* The workers of runParallelBench. *)

(* Seeded fault: the client is looked at and left in the channel. *)
TakePeek(w) ==
    /\ wpc[w] = "take" /\ clients # <<>>
    /\ held' = [held EXCEPT ![w] = Head(clients)]
    /\ wpc' = [wpc EXCEPT ![w] = "next"]
    /\ UNCHANGED <<mode, mainVars, srv, iters, totals, clients, cnt, N, failed>>

Take(w) ==
    /\ wpc[w] = "take" /\ clients # <<>>
    /\ held' = [held EXCEPT ![w] = Head(clients)]
    /\ clients' = Tail(clients)
    /\ wpc' = [wpc EXCEPT ![w] = "next"]
    /\ UNCHANGED <<mode, mainVars, srv, iters, totals, cnt, N, failed>>

(* Seeded fault: N++ before the iteration is known to exist. *)
ClaimNextCounted(w) ==
    /\ wpc[w] = "next"
    /\ IF iters > 0 THEN iters' = iters - 1 /\ wpc' = [wpc EXCEPT ![w] = "call"]
                    ELSE UNCHANGED iters /\ wpc' = [wpc EXCEPT ![w] = "send"]
    /\ cnt' = [cnt EXCEPT ![w] = @ + IF iters > 0 THEN 0 ELSE 1]
    /\ UNCHANGED <<mode, mainVars, srv, totals, clients, held, N, failed>>

(* p.Next: iterations are handed out to whoever asks first. *)
ClaimNext(w) ==
    /\ wpc[w] = "next"
    /\ IF iters > 0 THEN iters' = iters - 1 /\ wpc' = [wpc EXCEPT ![w] = "call"]
                    ELSE UNCHANGED iters /\ wpc' = [wpc EXCEPT ![w] = "send"]
    /\ UNCHANGED <<mode, mainVars, srv, totals, clients, held, cnt, N, failed>>

(* b.Fatal marks the benchmark as failed and ends the calling goroutine,   *)
(* which RunParallel then counts as done.                                  *)
WorkerCall(w) ==
    /\ wpc[w] = "call"
    /\ \/ /\ wpc' = [wpc EXCEPT ![w] = "next"]
          /\ cnt' = [cnt EXCEPT ![w] = @ + 1]
          /\ UNCHANGED failed
       \/ /\ wpc' = [wpc EXCEPT ![w] = "exit"]
          /\ failed' = TRUE
          /\ UNCHANGED cnt
    /\ UNCHANGED <<mode, mainVars, srv, iters, totals, clients, held, N>>

(* Seeded fault: the channel has room for all workers but one. *)
TotalsCapShort == NbClients - 1

TotalsCap == NbClients

Send(w) ==
    /\ wpc[w] = "send" /\ Len(totals) < TotalsCap
    /\ totals' = Append(totals, cnt[w])
    /\ wpc' = [wpc EXCEPT ![w] = "exit"]
    /\ UNCHANGED <<mode, mainVars, srv, iters, clients, held, cnt, N, failed>>

(* Seeded fault: the first failure ends RunParallel. *)
JoinWorkersOrFail ==
    /\ mpc = "parallel"
    /\ failed \/ \A w \in Workers : wpc[w] = "exit"
    /\ IF failed THEN ReturnWith("err") ELSE mpc' = "totals" /\ UNCHANGED ret
    /\ UNCHANGED <<mode, cctx, dialed, got, srv, iters, totals, workVars, N, failed>>

(* RunParallel returns when every worker has ended, one way or the other. *)
JoinWorkers ==
    /\ mpc = "parallel"
    /\ \A w \in Workers : wpc[w] = "exit"
    /\ mpc' = "totals"
    /\ UNCHANGED <<mode, cctx, dialed, got, ret, srv, iters, totals, workVars, N, failed>>

(* Seeded fault: the last total is left in the channel. *)
ReceiveShort ==
    /\ mpc = "totals"
    /\ \/ /\ got < NbClients - 1 /\ totals # <<>>
          /\ N' = N + Head(totals)
          /\ totals' = Tail(totals)
          /\ got' = got + 1
          /\ UNCHANGED mpc
       \/ /\ got >= NbClients - 1
          /\ mpc' = "setbytes"
          /\ UNCHANGED <<N, totals, got>>
    /\ UNCHANGED <<mode, cctx, dialed, ret, srv, iters, workVars, failed>>

(* for range nbClients { tot := <-totalsChan ... } *)
Receive ==
    /\ mpc = "totals"
    /\ \/ /\ got < NbClients /\ totals # <<>>
          /\ N' = N + Head(totals)
          /\ totals' = Tail(totals)
          /\ got' = got + 1
          /\ UNCHANGED mpc
       \/ /\ got = NbClients
          /\ mpc' = "setbytes"
          /\ UNCHANGED <<N, totals, got>>
    /\ UNCHANGED <<mode, cctx, dialed, ret, srv, iters, workVars, failed>>

(* b.SetBytes(totalBytes / N). *)
SetBytes ==
    /\ mpc = "setbytes" /\ N > 0
    /\ ReturnWith("nil")
    /\ UNCHANGED <<mode, cctx, dialed, got, srv, iters, totals, workVars, N, failed>>

-----------------------------------------------------------------------------
(* The end: BenchmarkRPC makes an error of RunCase fatal, package testing  *)
(* cancels the context and runs the cleanup of newServerHarness.           *)

Finish ==
    /\ mpc = "return"
    /\ mpc' = "cleanup"
    /\ failed' = (failed \/ ret = "err")
    /\ cctx' = TRUE
    /\ UNCHANGED <<mode, dialed, got, ret, srv, iters, totals, workVars, N>>

(* Seeded fault: errors of Run are not reported. *)
CleanupQuiet ==
    /\ mpc = "cleanup"
    /\ srv # "running"
    /\ mpc' = "end"
    /\ UNCHANGED <<mode, cctx, dialed, got, ret, srv, iters, totals, workVars, N, failed>>

(* runErr := <-runChan.  The err the cleanup tests for context.Canceled is *)
(* the one of NewServer, nil, so every error of Run is reported.  Without a *)
(* server there is no cleanup.                                             *)
Cleanup ==
    /\ mpc = "cleanup"
    /\ srv # "running"
    /\ mpc' = "end"
    /\ failed' = (failed \/ srv = "err")
    /\ UNCHANGED <<mode, cctx, dialed, got, ret, srv, iters, totals, workVars, N>>

(* <-time.After(time.Second): whether or not the server is about to return. *)
CleanupTimeout ==
    /\ mpc = "cleanup"
    /\ srv # "none"
    /\ mpc' = "end"
    /\ failed' = TRUE
    /\ UNCHANGED <<mode, cctx, dialed, got, ret, srv, iters, totals, workVars, N>>

Server == INSTANCE ServerRun WITH run <- srv

(* Run returns, as ServerRun allows it to.  That the servers keep to it is   *)
(* shown in PooledServer and HttpServer.                                   *)
ServerReturns ==
    /\ Server!Return
    /\ UNCHANGED <<mode, mpc, dialed, got, ret, iters, totals, workVars, N, failed>>

-----------------------------------------------------------------------------
MainStep ==
    \/ StartServer \/ Dial \/ Dialed \/ Loop \/ Call
    \/ JoinWorkers \/ Receive \/ SetBytes \/ Finish \/ Cleanup \/ CleanupTimeout

WorkerStep(w) == Take(w) \/ ClaimNext(w) \/ WorkerCall(w) \/ Send(w)

Next ==
    \/ MainStep
    \/ \E w \in Workers : WorkerStep(w)
    \/ ServerReturns

(* Every goroutine that can go on does; a call returns or fails.  Nothing is *)
(* assumed of the server: the cleanup has its timeout.                     *)
Fairness == WF_vars(MainStep) /\ \A w \in Workers : WF_vars(WorkerStep(w))

Spec == Init /\ [][Next]_vars /\ Fairness

-----------------------------------------------------------------------------
(* Properties. *)

(* The variables keep their types, and nobody counts more iterations than
   there are. *)
TypeOK ==
    /\ mode \in {"sequential", "parallel"}
    /\ mpc \in {"listen", "dial", "loop", "call", "parallel", "totals", "setbytes",
                "return", "cleanup", "end"}
    /\ {cctx, failed} \subseteq BOOLEAN
    /\ srv \in {"none", "running", "nil", "err"}
    /\ dialed \in 0..NbClients /\ got \in 0..NbClients
    /\ iters \in 0..Iters /\ N \in 0..Iters
    /\ clients \in Seq(Clients) /\ totals \in Seq(0..Iters)
    /\ wpc \in [Workers -> {"none", "take", "next", "call", "send", "exit"}]
    /\ held \in [Workers -> Clients \cup {NoClient}]
    /\ cnt \in [Workers -> 0..Iters]
    /\ ret \in {"none", "nil", "err"}

(* "A client will only ever by used by a single goroutine to make calls"
   (rpcbench/interface.go:102-103): the clients are written without locks and
   reuse their buffers between calls. *)
OneGoroutinePerClient ==
    \A v, w \in Workers : held[v] # NoClient /\ held[v] = held[w] => v = w

(* The averages divide by the number of operations that were really made: every
   iteration handed out is counted once, and the divisor is never zero. *)
EveryCallCounted == mpc = "setbytes" => N = Iters /\ N > 0

(* No call is under way when the context ends: the clients' goroutines close
   their connections then (TcpConn's ClientClose, PooledServer's). *)
NoCallAfterCancel ==
    cctx => mpc # "call" /\ \A w \in Workers : wpc[w] # "call"

(* The benchmark passes only if its server ended without an error: one that
   failed at any time, or is still running, fails it. *)
ServerFaultFails == mpc = "end" /\ ~failed => srv = "nil" /\ ret = "nil"

WorkerFailed == mode = "parallel" /\ failed /\ ~cctx

(* Unless a call of a parallel benchmark fails, the benchmark ends. *)
BenchEnds == <>(mpc = "end" \/ WorkerFailed)

(* A failed benchmark ends: BenchmarkRPC reports what RunCase returns
   (benches_test.go:18-21), the workers call b.Fatal (bench_runner.go:166). *)
FailureEnds == failed ~> (mpc = "end")
=============================================================================
