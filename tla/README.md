# gorpcbench in TLA+

gorpcbench measures RPC systems against each other. Every system implements the
same interface (`rpcbench/interface.go`): a factory creates a server on a
listener and clients of it, a client makes four calls (Nop, Add, MultTreeValues,
ToHex), and a harness times them, one client alone or one per processor in
parallel. This directory holds a formal model of the parts of that program in
which something can go wrong that a test would hardly reach, the configurations
that model-check it with TLC, and proofs checked by TLAPS.

## Inventory

| Part | State it keeps | Operations | What is hard | Module |
|---|---|---|---|---|
| TCP connection (`internal/rpc/tcp`, `internal/binutils`) | four `bufio` buffers, two socket directions, the call in progress on each side | the stubs, `runConn`, close on context | partial reads and writes, replies that start before the request has arrived, end of stream in the middle of a call | `TcpConn`, `RpcQueue` |
| Pool-based servers (`tcp_server.go`, `gocapnp_server.go`, `mdcp_server.go`: `Run`) | listener, two pools with contexts and first errors, one task per connection | accept, serve, close the listener, join | cancellation in several steps, errors that race with cancellations, joining | `PooledServer`, `ServerRun` |
| Benchmark runner (`rpcbench/bench_runner.go`, `bench_harness.go`) | server goroutine, clients, worker goroutines, two channels, the cleanup | start, dial, call, collect, clean up | workers that end early, channel sizes, the timeout of the cleanup | `BenchRunner` |
| HTTP servers (`http1`, `websocket`, `grpc`: `Run`) | `http.Server` / `grpc.Server`, a stopper goroutine | serve, shut down | the stopper overtakes `Serve`; `Serve` returns before the handlers do; hijacked connections | `HttpServer`, `ServerRun` |
| Websocket connection (`ws_client.go`, `ws_server.go`, `jsonutils`) | message readers and writers, reused messages and buffers | binary loop, JSON loop | messages cut into frames, replies that start before the request has arrived, stale fields of reused messages | `WsConn`, `JsonConn`, `Trees` |
| Trees (`treenode.go`, `binutils.go`) and their adapters (`structdef_adapter.go`, `api_adapter.go`, `gocapnp_helpers.go`) | slices that are truncated and revealed again | init, copy, reset, multiply, read, write, compare | reuse of storage over a sequence of calls | `Trees` |
| HTTP/1 calls (`http1_client.go`, `http1_server.go`) | two request bodies, the transport's connection and write loop | the stubs and their handlers | a body that is still being read when it is filled again, full duplex, early close of a reply | `HttpCalls`, `Trees` |
| gRPC and Cap'n Proto stubs | one request tree, reused builders | the calls | swallowed errors, reuse of storage | `HttpServer`, `PooledServer`, `Trees` |
| Benchmark matrix, plots, generated code | none of their own | | | not modelled |

How the parts interact: the harness calls `Server.Run` in a goroutine and the
clients' constructors in its own; clients and server share nothing but the
network and one context, whose end is what makes both of them stop. Inside a
server the accepting goroutine, the goroutine that closes the listener and the
connections' tasks share contexts, and a pool's first error. The workers of a
parallel benchmark share a channel of clients and a channel of totals.

Three small modules hold what one part promises another, and the detailed modules
are shown to implement them: `RpcQueue` (a connection to the harness), `ServerRun`
(`Server.Run` to the harness) and, for results, the reference definitions of `Trees`.

| Promise | Implemented by | Used by |
|---|---|---|
| `RpcQueue` | `TcpConn`, `WsConn` | a call of `BenchRunner` is one step |
| `ServerRun` | `PooledServer`, `HttpServer` | `BenchRunner`: its server goroutine takes `ServerRun`'s steps and no others |

`PROJECT.json` lists under "hazards" what is hard to test in this code, at the
line where it bites, with the properties below that would catch it.

## TcpConn: one TCP connection

State. A *unit* is what the protocol counts in: the command byte, an int64 or a
payload byte. The units of a request move from `toWrite` (not yet in the client's
`bufio.Writer`) through `cw` (that writer), `c2s` (socket buffers) and `sr`
(`runConn`'s reader) into `hdr` and `left` (what `runConn` still has to read);
those of the reply from `out` through `sw`, `s2c` and `cr` to the stub, which
still wants `toRead`. `reqs` holds the calls whose command byte `runConn` has not
read. `cpc` and `spc` say where stub and `runConn` are; `ret` is what `runConn`
returned. The values of the integers do not matter to any of this and are left
out; how many of them sit in which buffer is what the properties are about.

| Action | Code |
|---|---|
| `StartCall`, `ClientFill`, `ClientFlush` | the stubs of `tcpClient` up to `writer.Flush()`, `binutils.Write*` |
| `ClientRecv`, `ClientTake` | reading the reply: `ReadByte`, `ReadInt64`, `ReadTree`, `io.ReadFull` |
| `ClientClose` | the goroutine of `newTCPClient` |
| `ServerTop` | `for ctx.Err() == nil` |
| `ServerFill`, `ServerReadCmd`, `ServerReadInt`, `ServerReadVal`, `ServerReadHex` | the reads of `runConn` and `DoMultTreeRequest` |
| `ServerPut`, `ServerPush`, `ServerFlushed` | the writes, with the flush a full `bufio.Writer` makes in the middle of them |
| `ServerEOF`, `ServerReset` | the error returns |
| `HarnessCancel`, `PropagateCancel`, `SiblingFails` | the contexts |

Details worth knowing when reading it:

* The socket takes and delivers any number of units between one and what there
  is, so every split of the stream into reads and writes is explored.
* A `ToHex` of nothing has a reply of nothing: `io.ReadFull` of an empty slice
  returns at once. The stub is then over before the server has read the request,
  and a second call may be queued behind it. `makeCall` does choose size 0. All
  other calls return only after the server has executed them.
* `runConn` never closes its connection; only the client does. When the client
  closes with data of the server unread, the kernel resets the connection (`rst`).
* The client may close at any point of a call: the harness cancels between calls
  (`NoCallAfterCancel` below), but the constructor's contract allows any context.

Properties (run `tcp_conn`):

* `Framed`: while the connection is open, the units in the pipe are exactly those
  that the calls under way still need, in both directions.
* `StuckOnlyOverCapacity`: client and server can block each other only during a
  tree of more nodes than the server's writer and one direction of the socket
  buffers hold. (They really can: with 262144-byte writers a tree of the largest
  random shape, 87381 nodes or 699048 bytes, needs about 430 kB of socket buffers.)
* `CleanClose`: `runConn` returns an error only when the client left inside a
  call, and Canceled only between calls.
* `CallReturns`, `ConnReturns`: a call that fits returns unless the pool's context
  ends; after the client has closed, `runConn` returns.
* `RefinesRpcQueue`: the connection implements `RpcQueue`, the promise to the
  harness: calls are executed once, in order, and a call with a reply returns only
  after it was executed. The mapping reads the queue off as the job in progress
  followed by `reqs`.

Run `tcp_hex_max` checks what `bench_harness.go:18` says of `MaxHexEncodeSize`,
"the maximum size of a toHex message": `HexAnswered`, a `ToHex` of up to that size
is answered. It is not. At exactly that size the slice
`readHexBuf[min(len(readHexBuf), size):]` is empty, `reader.Read` returns 0 and no
error, and the loop spins. The harness draws sizes below the maximum, which is
why the benchmarks do not meet it.

Bounds. Buffers and payloads are shrunk together and keep the code's ratios: both
writers and the client's reader are twice the server's reader and hex buffer (8
and 4 units, sockets of 3). Payloads go from 0 to the buffer size less one, so
every call can be split, wrapped around a full buffer and read in one piece, and
the trees of 12 and 13 nodes are the largest that cannot and the smallest that
can block. `CHECK_DEADLOCK FALSE`: the blocked tree is a deadlock, and so is
a connection whose client has closed. The calls themselves are unbounded; the state
space is finite because all buffers are.

Fairness. `WF` on client and server steps (the Go scheduler and the kernel's
sockets), on closing once the context has ended, and on the propagation of a
cancelled context. None on starting a call or on cancelling.

## PooledServer: the lifecycle of three servers

`tcpServer.Run`, `gocapnpServer.Run` and the mdcapnp server's `Run` are the same
function but for what serves a connection; the module chooses one of them in
`Init` (`kind`). Contexts form the chain `cctx` (given to `Run`) > `gctx` (pool `g`) >
`pctx` (`connPool`), each ending some time after its parent (`PropagateToG`,
`PropagateToConnPool`). A pool keeps its first error (`Record`) and cancels its
context in a second step, so a task that fails is "failed" between the two.

| Action | Code |
|---|---|
| `Dial`, `DialFails`, `StartCall`, `CallFails`, `ClientClose` | `newClientHarness` and the constructors of the clients |
| `Accept`, `AcceptEnds` | the accept loop |
| `CloseListener` | the first task of `g` |
| `Join`, `AcceptorCancels`, `RunReturns` | `connPool.Wait`, the error it turns into, `g.Wait` |
| `VatEnds`, `VatCancels` | `g.Go(s.v.Run)` |
| `ConnTop`, `ConnRead`, `ConnReply`, `ConnEOF`, `ConnError`, `ConnCancels` | `tcpServer.runConn` with the inside of a call as one step (`TcpConn` has it in full) |
| `CapServe`, `CapPeerGone`, `CapClose` | `gocapnpServer.runConn`, and the vat's connections |
| `Break` | the network |

External and modelled from their use: `conc/pool`, the capnp connection, the vat
(which is assumed to end with its context and to take its connections along).

The clients are of four sorts, like `kind`: mdcapnp has a second client, "level0",
that nobody ever closes (`mdcp_client_level0.go` starts no vat and no goroutine). The
constructors of the Cap'n Proto clients ask the server for its capability and wait
("dialing"); tcp's does not wait for anything.

Properties (run `pooled_server`): `Joined`, `Reported`, `FaultsAreReal`,
`AbandonedOnlyAfterFault`, and under fairness `CallSettles` and `RefinesServerRun`, the
promise of `ServerRun`: no return of nil before the context has ended, whatever the
connections do, and a return after that.
`AbandonedOnlyAfterFault` and `CallSettles` are as strong as the code allows, and
their exceptions are worth reading: over TCP one broken connection cancels the
pool's context, the other connections then return Canceled after their next answer
without closing, and their clients' next call waits until the benchmark's context
ends; connections accepted later fare the same. And when Accept fails, the clients
in the backlog wait, with the listener open, until the last connection has ended.

In `Reported` one exception is the code's: mdcapnp's vat returns its context's Canceled as
an error of `g`, and once the benchmark has ended its context that can be recorded before a
failure of Accept, which is then lost. Before the end of the context it cannot, since what
ends `gctx` then is the failure itself, already recorded.

Run `capnp_nop` checks what `README.md:72` of the repository says of every
operation, that it is a request and its response: `NilMeansAnswered`, no call succeeds
on a connection that is gone. gocapnp's `Nop` waits for its future and does not ask it
for an error (`gocapnp_client.go:22-27`), so the benchmark goes on counting Nops on a
broken connection (second disjunct of `CallFails`).

Bounds: two clients, one to fail and one to suffer from it; every connection makes
any number of calls, breaks at most once (a broken connection stays broken), and
every interleaving of the contexts' steps is explored. `CHECK_DEADLOCK FALSE`: `Run`
returns and the clients close, and then nothing is left to do.

Fairness: `WF` on every goroutine of the server, on each connection, on the clients'
closing and on a call noticing that its connection ended. `AcceptEnds` is fair only
when the listener is closed: an open one need never fail. No fairness for calls,
dialing, faults and the end of the benchmark.

## BenchRunner: one benchmark

`mpc` is the benchmark's goroutine through `newServerHarness`, `newClientHarness`, the
sequential loop or `RunParallel` and the collection of totals, the return of
`RunCase`, and the cleanup. `wpc`, `held` and `cnt` are the workers, `clients` and
`totals` the two channels, `srv` the goroutine that runs the server. `package
testing` is external: it hands out iterations (`ClaimNext`), waits for the workers
(`JoinWorkers`), cancels the context when the function is over (`Finish`) and then
runs the cleanup. A call is one step that succeeds or fails; that calls end is
what the other modules are about.

Properties (run `bench_runner`): no two workers use one client
(`OneGoroutinePerClient`), each iteration is counted once and the divisor is not
zero (`EveryCallCounted`), no call is under way when the context ends
(`NoCallAfterCancel`), a benchmark whose server failed or did not stop in time fails
(`ServerFaultFails`), and the benchmark ends unless a worker's call fails
(`BenchEnds`).

Run `bench_failure` shows why that exception is there. A failing call makes the worker
call `b.Fatal`, which ends that goroutine before it has sent its total.
`RunParallel` returns all the same, and `runParallelBench` waits for as many totals as
there are clients: `FailureEnds`, that a failed benchmark ends, is violated, and
`BenchmarkRPC` never sees the error it checks for (`benches_test.go:18-21`).

Also visible in `Cleanup`: the condition on `bench_harness.go:152` tests the `err` of
`NewServer`, always nil there, and not `runErr`; every error of `Run` is reported,
and context.Canceled would be. It makes no difference: no server of `PooledServer` or
`HttpServer` returns that one.

The server is `ServerRun` itself (`Server == INSTANCE ServerRun WITH run <- srv`): what
`BenchRunner` assumes of it is what `PooledServer` and `HttpServer` are checked, and for
its safety part proved, to implement.

Bounds: three clients and four iterations, so that workers may get none, one or all
of the iterations; the failure run needs two and two. Fairness: `WF` on the main
goroutine and on each worker, none on the server: the cleanup has its timeout.
`CHECK_DEADLOCK FALSE`: a benchmark ends, and the hang above is a deadlock.

## Trees: MultTreeValues over a sequence of calls

The connection modules count integers; this one has their values, and the storage the
trees live in. A tree is a function from positions to nodes: `<<>>` is the root's,
`Append(p, i)` that of the i-th child of the node at `p`. A node has its value, the
*capacity* of its slice (there is a child for each place up to it) and how many children
are visible (`len`): truncating hides children, and `InitChildren` reveals them again
with whatever they contain.

The code walks trees recursively; the model says what such a walk does at each position.
`Visible` is what a walk from the root meets. `copyTree` and the JSON decoder are
`Overwrite`: each node of `from` is written, into the node that lies at its position if the
walk still finds the old one there (`kept`) and into a new one otherwise. A slice
that is replaced for want of room takes with it all that is below (`KeptIfRoom`), one that
gRPC grows takes nothing, one that is decoded from an empty array all. The binary form
numbers the nodes in the order of the walk (`Before`, `Rank`). `treeMatchesForMult` stops
where two counts differ, so it compares the positions that both trees show.

`TreeWalks` holds the same functions as the code writes them, each calling itself for one
child after the other on storage that its earlier steps have changed, and assumes that
`Trees` agrees with them: `WritingAgrees` (copying, growing, decoding), `WalkingAgrees`
(resetting, counting, multiplying, both directions of the binary form) and `HarnessAgrees`
(all random and dense trees). TLC evaluates these assumptions at the start of
the run `trees`, for each of 14 trees over each of 151 storages, most of them with hidden
nodes that have children. The check changes no storage and is not among them.

Each step is one whole
call, with `makeCall` before it and the reply as the harness sees it after it;
`kind` is the RPC system, chosen in `Init`.

| Action | Storage kept from call to call | Code |
|---|---|---|
| `BinaryCall` | the request tree, `Reset` first, overwritten by the reply | `MultTreeValues` of tcp, http1 and the binary websocket; `DoMultTreeRequest` |
| `JSONCall` | the client's tree and the server's `multReq.Tree`, decoded into | `ws_client.go:127-139`, `ws_server.go:142-150` |
| `GRPCCall` | the request tree, never reset; its adapter keeps nodes when it grows | `grpc_client.go:34-42`, `structdef_adapter.go:24-35` |
| `GoCapnpCall`, `MDCapnpCall` | none | `gocapnp_client.go:46-75`, `mdcp_client.go:32-55` |
| `Level0Call` | the builder's and the reader's adapters | `mdcp_client_level0.go:33-69`, `api_adapter.go` |

What encoding and decoding do to storage is external: encoders send what is visible;
`encoding/json` decodes an array into the elements the slice already has, hidden ones
included, and drops the storage for an empty array. Capacities that the runtime rounds
up are not modelled: what lies beyond has never been used, as if it were not there.
An adapter of mdcapnp holds a pointer into its message instead of a value; its `val`
stands for what that pointer leads to.

Properties (run `trees`):

* `ReplyIsProduct`, the promise of `interface.go:62-64`: the reply is this call's tree
  with every value multiplied, modulo `Values`. The right-hand side is a set of
  labelled positions, not another walk over trees.
* `CheckIsExact`: `treeMatchesForMult` accepts a reply exactly if it is the product of
  the tree it is compared with.
* `HiddenNodesAreLeaves`: where the client calls `Reset`, nodes out of sight have no
  children, at any depth. Not so for gRPC, nor in the websocket server: there
  `ReplyIsProduct` rests on `copyTree`, which initialises the children of leaves too,
  and on the decoder.

Bounds: the shapes of `newClientHarness` scaled down (a leaf, a chain of 4, 3 leaves, a
full binary tree of 7, any random tree of up to 7 nodes with branching 3 and two
levels), so that every kind of tree follows every other over storage that any
sequence of trees has left; the harness's two random trees play the same part, and
there is one of them. Integers have `Values` = 8 values for 2^64, so products wrap; one
seed suffices because the values of neighbouring nodes differ; the multiplier 6 loses
information, 3 does not. The number of calls is unbounded. All four properties are proved for trees of any
size and any number of values (below).

## HttpServer: the servers that a library runs

The `Run` of the HTTP/1, websocket and gRPC servers is one call of the library's `Serve`
and one goroutine that waits for the context and calls `Shutdown` (with a second of
patience) or `GracefulStop`. `kind` is chosen in `Init`. `conn` is the server's end of a
client's connection in the states of `net/http`: "fresh" before its first request, "idle",
"active" in a handler, "hijacked" after an Upgrade. An HTTP/1 client connects when a call
finds no connection, gRPC's does too, a websocket client when it is created.

| Action | Code |
|---|---|
| `ServeStarts`, `AcceptFails`, `ListenerClosed`, `Drained` | the call of `Serve` in `Run`, and what `Run` makes of its result |
| `Stop`, `Poll`, `ShutdownReturns` / `GoAway`, `GracefulStopReturns` | the stopping goroutine |
| `Accept`, `HandlerStarts`, `HandlerEnds`, `ConnEnds` | the library's connections (external) |
| `HandlerEnds` then `WsServe` | `wsServer`'s handler: Upgrade, and a call of its loop as one step |
| `Dial`, `StartCall`, `CallFails`, `ClientClose`, `IdleTimeout` | the constructors, the calls, the goroutine of `newGRPCClient`, `IdleConnTimeout` |

Properties (run `http_server`):

* `CleanAfterService`: the stopper can win the race against `Serve`; `grpc.Server` then
  returns an error, and the harness fails the benchmark (`http.Server` returns
  ErrServerClosed, which `Run` filters). In a benchmark that had one call answered only
  Accept can make `Run` fail.
* `DrainedAtReturn`: gRPC's `Run` returns nil only when its connections have ended. Not
  true of the other two: `http.Server.Serve` returns as soon as `Shutdown` has begun,
  and `Run` does not wait for its stopper.
* `ConnsEnd`: the HTTP/1 and gRPC connections end after the context has, those of
  handlers that outlive `Run` included: a handler that ends during a shutdown takes its
  connection with it.
* `RefinesServerRun`, as for `PooledServer`.

Run `ws_leak`: `interface.go:50-52` says that `Run` of a client that has one is called.
Nobody does; `wsClient` has one and it is what closes the connection. The server has
handed the connection over and no longer knows it. So `WsConnsEnd`, that a websocket
connection ends after its benchmark, is violated.

Left out: that the transport retries a request on a reused connection that turns out
closed (a call then takes longer and fails less), and HTTP/2's inside.

Bounds: two clients (one idle while the other is in a handler) with any number of calls
and connections; one client for `ws_leak`. Fairness: `WF` on `Serve`, the stopper, each
connection, failing calls and gRPC's closing; none on calls, faults, idle timeouts or the
end of the benchmark. That `ShutdownReturns` is always possible stands for its timeout.
`CHECK_DEADLOCK FALSE`: everything ends.

## WsConn: one binary websocket connection

The same protocol as `TcpConn` inside messages: each call is a message each way, and a
message is a sequence of frames that its writer cuts when its buffer is full *and more is
to come*, the last one being sent by `Close`, empty or not. `up` and `down` hold the
frames whose header was not read yet, the units sent and arrived, and how much of the
reader's frame is left.

| Action | Code |
|---|---|
| `StartCall`, `ClientFill`, `ClientFlush` | the stubs up to `rawWriter.Close()` |
| `ClientNext`, `ClientRead` | `conn.NextReader()`, reading the reply |
| `ServerFrameHeader`, `ServerReadCmd`, `ServerReadInt`, `ServerReadVal`, `ServerReadHex` | `runBinaryConn`'s reads |
| `ServerPut`, `ServerClose`, `ServerFlush` | its writes and `writer.Close()` |

The `bufio` readers and writers above the messages only delay what happens inside one
message and are left out; gorilla/websocket is external (`ClientFrame`, `ServerFrame`:
its default buffer and the `WriteBufferSize` of the upgrader).

Properties (run `ws_conn`):

* `Aligned`: between calls nothing of an earlier message is left in either direction. A
  frame boundary that falls on the end of a reply is where this could go wrong.
* `StuckOnlyOverCapacity`: inside a call client and server both wait only if the call is
  one that the buffers cannot hold (`~Fits`). As over TCP a reply of more than a frame may
  have to leave before the request has arrived, and the hex loop has the same empty slice
  (`HexRoom`). Unlike over TCP the sockets do not hold as many values as units: one in
  `ClientFrame + 1` is the header of a request's frame, so a tree fits up to
  `TreeCapacity == ServerFrame + NetBuf - NetBuf \div (ClientFrame + 1)` nodes. The bound
  is sharp: in the run the next larger tree does get stuck.
* `CallReturns`: a call that fits returns.
* `RefinesRpcQueue`, this time with `Unacked` empty: the stub of an empty `ToHex` waits
  for its message, so TCP's exception does not exist here.

The full size itself is the exception in `Fits`: the slice of `ws_server.go:95` is empty then,
`reader.Read` returns 0 and no error, and the loop spins inside the message. It is the
same expression as over TCP, where run `tcp_hex_max` shows it.

Bounds: frames of 2 and 8 units, a hex buffer of 4, sockets of 5. The ratios are those of
the code: the server's frame is twice the hex buffer (`ws_server.go:209`), the client's is
the smaller one. A request takes several frames, headers take their share of the sockets,
and trees of 1, 8, 12 and 13 values give replies of less than, exactly and more than a
frame, the largest that cannot block and the smallest that can. `CHECK_DEADLOCK FALSE` for
that blocked tree. Fairness: `WF` on both ends.

## JsonConn: the structures a JSON connection reuses

Both ends keep the structures they encode and decode. `Decode` leaves a field alone that
the message does not have, `Encode` drops a nil payload; a message is the record of its
fields. A tree is a single value here (its storage is in `Trees`), bytes travel in
`WsConn`. `ServeNop`, `ServeAdd`, `ServeTree`, `ServeHex` are the branches of `runJsonConn`,
`StartCall` and `Return` the stubs.

Property (run `json_conn`): `ResultIsOwn`, a result is made of the call's own arguments. It
holds although `msg.Payload` keeps an earlier call's payload through a `Nop`: the server
answers that `Nop` with the stale payload in the message, which the client decodes into
`c.msg` and does not look at. A Nop has no result, so for it `ResultIsOwn` says nothing; the
property is about the other calls, whose requests are decoded over those of earlier calls.
(`README.md:74-75` of
the repository says a Nop's response is empty; nothing the harness sees depends on it, but
after another call the bytes sent would.)

Bounds: arguments 0 (which `omitempty` on a field would drop) and 2, payloads of up to two
bytes out of two, so that long after short and short after long occur in every buffer. The
number of calls is unbounded.

## HttpCalls: the calls of one HTTP/1 client

A call is two goroutines of the client: the caller, and the transport's write loop that
reads the very object (`c.bodyWriter`, `c.bodyReader`) the caller fills again for its next
call. The tree and hex handlers enable full duplex and answer before the request has
ended. `conn` is the transport's connection, `wpc` its write loop, `stale` the bodies that
write loops of dropped connections still read.

| Action | Code |
|---|---|
| `StartCall`, `Post`, `Posted`, `ReadReply`, `ReplyCut` | the stubs of `http1Client` |
| `EndSeen`, `CloseEarly` (both may `Drop`) | `r.Body.Close()` after and before the end of the reply was seen |
| `WriteSome`, `WriteShort`, `WriteEnds`, `StaleRead` | the transport's write loops (external) |
| `HandleRead`, `HandleWrite` | the handlers of `http1Server`, and when `net/http` writes, chunked or with a length (external) |

Properties (run `http_calls`): `PooledIsClean`, a connection that is used again has nothing
of an earlier call on it and no write loop that holds the body; `FailsOnlyIfShared`, only a
body that a dropped connection's write loop still holds can make a call fail;
`CallReturns`, every call ends: unlike over TCP no size can block, because the request is
written by a goroutine of its own. The exception in `FailsOnlyIfShared` is real: a chunked
reply is read to its last unit by the stub, not to its end; closing the body then drops
the connection while its write loop may not have noticed the end of the body it sends, and
`StaleRead` can take bytes of the next request. (A connection is dropped only when the
end of the reply is late, and the write loop must be late as well.)

The transport waits 50 ms for a write loop before it gives a connection up; both outcomes
are possible in `EndSeen`. Bounds: requests that the transport's write buffer holds and
that it does not, replies with a Content-Length and chunked ones, payloads larger than all
buffers together. `CHECK_DEADLOCK FALSE`: a failed call ends the benchmark. Fairness: `WF`
on caller, write loop and handler; none on a stale loop.

## Proofs

Eight modules hold proofs, each beside the module it is about. All have the same form: an
inductive invariant `IInv` that TLC checked first, a lemma that it holds initially, lemmas
that the steps preserve its parts, and the properties of the runs as consequences.

| Module | Theorems | For every |
|---|---|---|
| `TcpConnProofs` | see below | payload and buffer sizes |
| `PooledServerProofs` | `TypesKept`, `NothingLeftBehind`, `FaultsAreReported`, `CleanClosesAreNoFault`, `OnlyFaultsAbandon`, `ImplementsServerRun` | set of clients |
| `HttpServerProofs` | `RequestsHaveCallers`, `ErrorsAreAccepts`, `GRPCDrains`, `ImplementsServerRun` | set of clients |
| `BenchRunnerProofs` | `TypeCorrect`, `CallsCounted`, `ClientsNotShared`, `CallsEndBeforeContext`, `FaultsFail` | number of clients and iterations |
| `HttpCallsProofs` | `NobodyGetsAhead`, `PooledConnectionsAreClean`, `OnlySharingFails` | payload and buffer sizes |
| `WsConnProofs` | `TypeCorrect`, `MessagesEndTogether`, `NeverStuckBelowCapacity`, `Refinement` | payload, frame and socket buffer sizes |
| `JsonConnProofs` | `TypeCorrect`, `ResultsAreOwn` | integers, bytes and payload lengths |
| `TreesProofs` | `TypeCorrect`, `RepliesAreProducts`, `ChecksAreExact`, `HiddenAreLeaves` | tree size and number of values |

### One TCP connection

`TcpConnProofs` proves about `TcpConn`, for all payload sizes and all buffer sizes
that satisfy `SizesAssumption` and `BuffersAssumption`:

| Theorem | Statement |
|---|---|
| `Invariance` | `Spec => []IInv` |
| `TypeCorrect` | `Spec => []TypeOK` |
| `Framing` | `Spec => []Framed` |
| `CleanClosing` | `Spec => []CleanClose` |
| `NeverStuckBelowCapacity` | `Spec => []StuckOnlyOverCapacity` |
| `Refinement` | `Spec => RefinesRpcQueue` |

The assumptions are those of the code: buffers are not empty, and the server's
writer holds the hex of a full hex buffer (`tcp_server.go:32` and `:34`). Without the
second, `ToHex` could block too.

The argument. None of the safety properties is inductive by itself: that the pipe
holds what the calls still need (`Framed`) is preserved by `runConn` reading a header
only if one knows that the header still to be read belongs to the call at the head
of the stream. `IInv` adds who owns what:

* `CallsInFlight`: whatever was issued before the call in progress and has not been
  executed is an empty `ToHex`, so at most one call expects reply bytes;
* `ClientAt`, `ServerAt`: what the program counters say of the counts; in
  particular the hex loop is entered only with less than a full buffer to read;
* `FullWhenDraining`: when the server is emptying a full writer while the client has
  not begun to read, writer and sockets together hold at least a writer's worth.
  With the framing of the reply this bounds the tree from below, which is
  `StuckOnlyOverCapacity` (lemma `StuckIsLarge`);
* `ArrivedIsOwed`: also after the client has closed, nothing arrived that no call owns;
* `QuietClose`: a client that closed between calls left nothing that a reply could
  be written for, hence no reset, hence no error: `CleanClose`.

There is one lemma `<Action>Preserves` per action, with one step per conjunct that
the action disturbs, and `StepIInv` puts them together. The refinement maps every
step to a step of `RpcQueue` or to a stutter; the interesting one is the return of a
stub (`ReturnRefines`), where `IInv` and `IdleIsQuiet` say that a stub with a reply
has its reply only when the job and the queue are empty.

### The servers

`Joined`, `Reported` and `AbandonedOnlyAfterFault` speak of the end, so by themselves
they say nothing of the steps before it. The invariant of `PooledServerProofs` follows the
shutdown in the code's order: `Ends` says what must have ended by the time each goroutine
has, `Errors` where the error that a pool keeps can have come from (`FirstErrorStays`:
`Record` never replaces one, and `FaultsStay`: a broken connection stays broken), and
`Quiet` that before the benchmark's context ends every cancelled context was preceded by
an error. `Quiet` is what makes `ImplementsServerRun` true: `Run` waits for the closer, the
closer for `gctx`, and `gctx` ends only with the context or with an error in `gerr`. It is
also why a client is abandoned only after a fault.

In `HttpServerProofs` the parts are `Handlers` (no client is between calls while a handler
is at work for it, without which a request could be left over), `Stops` (the order of
`Stop`, the closing of the listener and the result of `Serve`) and `Remaining` (which
connections there can be). `ErrorsAreAccepts` comes from two facts that are not visible
in one place of the code: until `Serve` was called nobody was answered, and a `Serve` that
came too late never accepts.

`ImplementsServerRun` of both modules is the safety part of `RefinesServerRun`:
`Spec => Promise!SafeSpec`. With it, what `BenchRunnerProofs` shows of a benchmark holds
with any of the six servers.

### The benchmark

`OneOwner`: a client is once in the channel, or with one worker. `Phases`: workers work only
while the benchmark's goroutine waits for them, which with the order of `Finish` gives
`NoCallAfterCancel`. `Outcome`: an error on any way out marks the benchmark as failed, and
where there is no server `RunCase` has returned an error. Assumptions: at least one
client and one iteration.

`CallsCounted` is about a sum that moves: an iteration is claimed, counted by a worker, sent
as part of its total, received and added to `N`. `Conserved` says that at every moment the
iterations not yet claimed, those the workers owe (`Owed`: counted, or under way), those in
the channel and `N` together are all of them, and less only after a failure. `Modes` keeps
the sequential and the parallel loop apart, `Exhausted` says that a worker sends its total
only when nothing is left to claim, `Counted` that there is a total at most for every worker
that has ended, and one less if a worker failed; so `got` reaches the number of clients only
if nobody failed and everything has arrived.

Sums over workers and over the channel are stated with a witness (`Adds`: there are partial
sums, and the last one is the sum). That one summand changes, is appended or removed
(`SumChange`, `SumAppend`, `SumTail`) is shown by giving the new partial sums; that partial
sums never decrease takes an induction. The library's induction theorems have an operator as
a parameter and are out of reach, so `SetInduction` states induction for a *set* of naturals
instead of a predicate, and is proved from the well-foundedness of `<`.

### One websocket connection

What TCP's `Framed` says of counts has to be said of frames here, and a direction holds a
sequence of them. `Holds(d, p)` says that the headers that were not read announce `p` units,
through a witness: a function with the sum of the lengths from each frame on (`RestOf`). A
witness can be extended and cut (`SendFrameHolds`, `NextFrameHolds`), where a recursive sum
would need an induction. `Books` then balances both directions: what the client has not
written, what is in frames and what is left of the reader's frame are what the server still
wants (`Demand`); what the stub still wants is in frames or still to come (`Ahead`).
`Client` and `Server` are what the program counters say, and `Framing` where messages end:
the last frame in a direction, and no other, is marked as the last of its message if and
only if its writer is done.

For `TypeCorrect`, `MessagesEndTogether` and `Refinement` that is enough.
`NeverStuckBelowCapacity` also needs `Full`: that every frame of a message but the last is
full, and (`FullRequests`) that all frames of a request but the one being sent have left the
client whole, which bounds the number of headers in the sockets from above. If both ends
wait, then either the server waits for the request, and `NoReaderStuck` shows that the
books leave nothing to wait for; or both wait for room, and `NoWriterStuck` adds up a full
frame on its way, full sockets and the values in them: more than `TreeCapacity`. The
assumption that `ServerFrame` is twice `HexBuf` is used for `ToHex`, as over TCP.

### HTTP/1 and JSON calls

`HttpCallsProofs`: `Places` (where caller, write loop and handler can be together),
`Amounts` (nobody takes more than was put into the body), `Unshared` (a body that was not
shared when it was filled is written in full). Two lemmas carry the arithmetic:
`WrittenGrows`, and `WholeReplyNeedsRequest`, no handler has written its whole reply before
it has read its whole request. The latter is why a stub that has its reply leaves a clean
connection although it never looks at the request.

`JsonConnProofs`: `OwnReply` says what is under way; `Received` that the server's reused
`msg` then holds this call's command and, unless it is a Nop, its request. `Fields` says
which fields messages under way and reused ones can have, which with `OwnReply` gives
`TypeCorrect`.

### Trees

The inductive invariant is `TypeOK`, `ReplyIsProduct`, `HiddenNodesAreLeaves` and
`HarnessTrees`: the five trees of the harness have no spare capacity, so that a walk
over one meets every node there is. It says nothing of the storages beyond `IsTree`, and
need not: that is the point of `RepliesAreProducts`, whatever they hold does not matter.

`WalkDown` replaces the recursion: a walk whose steps do not lead out of a set of
positions stays in it, by `SetInduction` on the steps. From it follow what is visible of a
tree that was written over (`Overwritten`), and that two trees which agree on the number of
children wherever both show a node show the same nodes (`SameCountsSameNodes`).
`Overwritten` is the main lemma: if the kept nodes lose nothing above them and nothing
below them that is not written anew (`Keeps`), the result is a tree that shows exactly
`from`, and every node it hides has as many children as before. `KeepsByPath` gives
`Keeps` for `CopyTree` and `Decode` at once, since both keep a node by what holds of its
path. Each call is then a chain of `Written`, `View` and `Answers`.

For the binary form, `Before` is shown to be a strict total order of positions, so that
nodes have numbers of their own between 1 and their count (`RankIsOwn`): what `ReadTree`
puts at a node is what `WriteTree` took from it (`RequestWritten`, `BinaryReply`).
`ChecksAreExact` needs `SameNodesSameCounts` too: the labels of a tree determine its shape.
`HiddenAreLeaves` rests on `WrittenOverReset`: if no hidden node has children, then after
`Reset` no node has any. That the trees of the harness are trees, of finitely many nodes,
is shown for all of the constants (`DenseIsSent`, `RandomIsSent`).

### Only model-checked

Liveness (`CallReturns` of three modules, `ConnReturns`, `CallSettles`, `ConnsEnd`,
`BenchEnds` and the fair part of `RefinesServerRun`): the prover does not do fairness. Every
invariant of the passing runs is proved. That the operators of `Trees`, given position by
position, are what the recursive functions compute (`TreeWalks`) would take an induction
over recursive definitions: TLC evaluates it on small trees, and no proof uses it.

## Not modelled

* Generated code (`structdef.capnp.go`, `structdef.pb.go`, `structdef_grpc.pb.go`): accessors
  and stubs whose effect is part of the modules that use them.
* `mdcapnp/handwritten_api.go`: builders that only call their library, and size hints. Of
  the Cap'n Proto calls the errors, the connections and the trees are modelled, the bytes
  of ToHex and the release of messages are not.
* `benches.go`: a constant table and loops over it. The plots and the page of results.
* The values of arguments and results in the modules that count integers; `Trees` and
  `JsonConn` have them. The byte totals and times the runner averages. Logging.
* The insides of net, net/http, grpc, gorilla/websocket, conc and the two Cap'n Proto
  libraries: modelled from how this code uses them, and marked external in the map.
* File descriptors that the garbage collector closes: `runConn` drops a connection that
  it does not close.
* `rng.IntN(branching/2)` in `treenode.go` with a branching of one: not reachable from the
  harness's constants.

## Plan

Done: `RpcQueue`, `ServerRun`, `TcpConn`, `PooledServer`, `HttpServer`, `BenchRunner`,
`WsConn`, `JsonConn`, `HttpCalls`, `Trees`, `TreeWalks`, and the eight proof
modules. What would come next:

1. The Cap'n Proto calls below their stubs: when a message is released, and what a result
   read after that is worth.
2. Liveness of a whole benchmark: `BenchRunner` composed with a server and its connections
   in one state space, for one client, instead of through `ServerRun`.
