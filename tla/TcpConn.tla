------------------------------ MODULE TcpConn -------------------------------
(***************************************************************************)
(* One connection of the baseline TCP system: the stubs of tcpClient       *)
(* (internal/rpc/tcp/tcp_client.go), the loop of tcpServer.runConn         *)
(* (internal/rpc/tcp/tcp_server.go), and the bounded buffers between them. *)
(*                                                                         *)
(* The stream is counted in units.  A unit is the command byte, one int64  *)
(* or one byte of a ToHex payload; what the integers are is abstracted,    *)
(* how many of them sit in each buffer is not.  Both directions are FIFO,  *)
(* so the calls whose request the server has not begun to read are the     *)
(* sequence reqs.                                                          *)
(***************************************************************************)
EXTENDS Integers, Sequences

CONSTANTS
    HexSizes,     \* lengths ToHex is called with
    TreeSizes,    \* node counts MultTreeValues is called with
    HexBuf,       \* len(readHexBuf) of runConn, rpcbench.MaxHexEncodeSize
    ClientWBuf,   \* size of the client's bufio.Writer
    ClientRBuf,   \* size of the client's bufio.Reader
    ServerRBuf,   \* size of runConn's bufio.Reader
    ServerWBuf,   \* size of runConn's bufio.Writer
    NetBuf        \* what the socket buffers of one direction hold

ASSUME SizesAssumption ==
    /\ HexSizes \subseteq Nat
    /\ TreeSizes \subseteq Nat \ {0}

ASSUME BuffersAssumption ==
    /\ HexBuf \in Nat \ {0}
    /\ ClientWBuf \in Nat \ {0}
    /\ ClientRBuf \in Nat \ {0}
    /\ ServerRBuf \in Nat \ {0}
    /\ ServerWBuf \in Nat /\ ServerWBuf >= 2 * HexBuf
    /\ NetBuf \in Nat \ {0}

VARIABLES
    cpc,      \* client: "idle", "fill", "flush", "read" or "closed"
    call,     \* the client's last call
    toWrite,  \* units of the request not yet in the client's bufio.Writer
    cw,       \* units in the client's bufio.Writer
    toRead,   \* units of the reply the stub has still to consume
    cr,       \* units in the client's bufio.Reader
    c2s,      \* units in the socket buffers, client to server
    s2c,      \* units in the socket buffers, server to client
    reqs,     \* calls whose command byte the server has not read
    spc,      \* server: "top", "cmd", "int", "val", "hex", "put", "drain", "flush", "done"
    job,      \* the call runConn is executing, or NoCall
    hdr,      \* int64 arguments of the job still to be read
    left,     \* tree values or payload bytes of the job still to be read
    out,      \* reply units produced and not yet in the server's bufio.Writer
    sr,       \* units in runConn's bufio.Reader
    sw,       \* units in runConn's bufio.Writer
    cctx,     \* the harness context is cancelled
    sctx,     \* the connection pool's context is cancelled
    rst,      \* the server's side of the connection has been reset
    midcall,  \* the client closed the connection inside a stub
    ret       \* what runConn returned: "none", "nil", "canceled" or "err"

clientVars == <<cpc, call, toWrite, cw, toRead, cr>>
serverVars == <<spc, job, hdr, left, out, sr, sw, ret>>
ctxVars == <<cctx, sctx, rst, midcall>>
vars == <<clientVars, c2s, s2c, reqs, serverVars, ctxVars>>

-----------------------------------------------------------------------------
(* The calls and the length of their messages. *)

NoCall == [cmd |-> "none", n |-> 0]
EmptyHex == [cmd |-> "hex", n |-> 0]

Calls ==
    [cmd : {"nop", "add"}, n : {0}]
        \cup [cmd : {"tree"}, n : TreeSizes]
        \cup [cmd : {"hex"}, n : HexSizes]

HeaderInts(c) ==
    CASE c.cmd = "nop" -> 0
      [] c.cmd = "hex" -> 1
      [] OTHER         -> 2

RequestLen(c) == 1 + HeaderInts(c) + c.n

ReplyLen(c) ==
    CASE c.cmd = "tree" -> c.n
      [] c.cmd = "hex"  -> 2 * c.n
      [] OTHER          -> 1

Lesser(a, b) == IF a <= b THEN a ELSE b

-----------------------------------------------------------------------------
Init ==
    /\ cpc = "idle" /\ call \in Calls
    /\ toWrite = 0 /\ cw = 0 /\ toRead = 0 /\ cr = 0
    /\ c2s = 0 /\ s2c = 0 /\ reqs = <<>>
    /\ spc = "top" /\ job = NoCall
    /\ hdr = 0 /\ left = 0 /\ out = 0 /\ sr = 0 /\ sw = 0
    /\ cctx = FALSE /\ sctx = FALSE /\ rst = FALSE /\ midcall = FALSE
    /\ ret = "none"

-----------------------------------------------------------------------------
(* The client's stubs: write the request through the bufio.Writer, flush   *)
(* it, read exactly the reply.                                             *)

StartCall(c) ==
    /\ cpc = "idle"
    /\ cpc' = "fill"
    /\ call' = c
    /\ toWrite' = RequestLen(c)
    /\ toRead' = ReplyLen(c)
    /\ reqs' = Append(reqs, c)
    /\ UNCHANGED <<cw, cr, c2s, s2c, serverVars, ctxVars>>

(* Writes go to the buffer until it is full or the request is complete;    *)
(* both end in a flush, the first inside bufio.Writer.Write.               *)
ClientFill ==
    /\ cpc = "fill"
    /\ LET k == Lesser(toWrite, ClientWBuf - cw) IN
        /\ toWrite' = toWrite - k
        /\ cw' = cw + k
    /\ cpc' = "flush"
    /\ UNCHANGED <<call, toRead, cr, c2s, s2c, reqs, serverVars, ctxVars>>

(* Seeded fault: the stub does not wait for the reply it will consume. *)
ClientFlushNoWait ==
    /\ cpc = "flush"
    /\ \E k \in 1..Lesser(cw, NetBuf - c2s) :
        /\ cw' = cw - k
        /\ c2s' = c2s + k
        /\ cpc' = IF cw > k THEN "flush" ELSE IF toWrite > 0 THEN "fill" ELSE "idle"
    /\ UNCHANGED <<call, toWrite, toRead, cr, s2c, reqs, serverVars, ctxVars>>

(* A flush hands the socket what it has room for and ends with the buffer  *)
(* empty.  io.ReadFull of an empty slice returns at once, so a call whose  *)
(* reply is empty is over here.                                            *)
ClientFlush ==
    /\ cpc = "flush"
    /\ \E k \in 1..Lesser(cw, NetBuf - c2s) :
        /\ cw' = cw - k
        /\ c2s' = c2s + k
        /\ cpc' = IF cw > k THEN "flush"
                  ELSE IF toWrite > 0 THEN "fill"
                  ELSE IF toRead > 0 THEN "read"
                  ELSE "idle"
    /\ UNCHANGED <<call, toWrite, toRead, cr, s2c, reqs, serverVars, ctxVars>>

ClientRecv ==
    /\ cpc = "read" /\ cr = 0
    /\ \E k \in 1..Lesser(s2c, ClientRBuf) :
        /\ s2c' = s2c - k
        /\ cr' = k
    /\ UNCHANGED <<cpc, call, toWrite, cw, toRead, c2s, reqs, serverVars, ctxVars>>

ClientTake ==
    /\ cpc = "read" /\ cr > 0
    /\ LET k == Lesser(cr, toRead) IN
        /\ cr' = cr - k
        /\ toRead' = toRead - k
        /\ cpc' = IF toRead > k THEN "read" ELSE "idle"
    /\ UNCHANGED <<call, toWrite, cw, c2s, s2c, reqs, serverVars, ctxVars>>

(* The goroutine of newTCPClient: when the context ends it closes the      *)
(* connection, whatever the stub is doing.  The kernel answers with a      *)
(* reset instead of an end of stream when received data was not read.      *)
ClientClose ==
    /\ cctx /\ cpc # "closed"
    /\ cpc' = "closed"
    /\ midcall' = (cpc # "idle")
    /\ rst' = (s2c > 0)
    /\ toWrite' = 0 /\ cw' = 0 /\ toRead' = 0 /\ cr' = 0 /\ s2c' = 0
    /\ UNCHANGED <<call, c2s, reqs, serverVars, cctx, sctx>>

-----------------------------------------------------------------------------
(* The contexts. *)

HarnessCancel ==
    /\ ~cctx
    /\ cctx' = TRUE
    /\ UNCHANGED <<clientVars, c2s, s2c, reqs, serverVars, sctx, rst, midcall>>

(* The pool's context ends with its parent. *)
PropagateCancel ==
    /\ cctx /\ ~sctx
    /\ sctx' = TRUE
    /\ UNCHANGED <<clientVars, c2s, s2c, reqs, serverVars, cctx, rst, midcall>>

(* WithCancelOnError: another connection of the pool returned an error. *)
SiblingFails ==
    /\ ~cctx /\ ~sctx
    /\ sctx' = TRUE
    /\ UNCHANGED <<clientVars, c2s, s2c, reqs, serverVars, cctx, rst, midcall>>

-----------------------------------------------------------------------------
(* runConn. *)

ServerTop ==
    /\ spc = "top"
    /\ IF sctx THEN spc' = "done" /\ ret' = "canceled"
               ELSE spc' = "cmd"  /\ UNCHANGED ret
    /\ UNCHANGED <<clientVars, c2s, s2c, reqs, job, hdr, left, out, sr, sw, ctxVars>>

(* The slice the hex loop reads into: readHexBuf[min(len, size):]. *)
HexRoom == HexBuf - Lesser(HexBuf, left)

(* runConn is inside a read that needs the connection. *)
Reading ==
    /\ sr = 0
    /\ \/ spc \in {"cmd", "int", "val"}
       \/ spc = "hex" /\ HexRoom > 0

ServerFill ==
    /\ Reading
    /\ \E k \in 1..Lesser(c2s, ServerRBuf) :
        /\ c2s' = c2s - k
        /\ sr' = k
    /\ UNCHANGED <<clientVars, s2c, reqs, spc, job, hdr, left, out, sw, ret, ctxVars>>

ServerReadCmd ==
    /\ spc = "cmd" /\ sr > 0 /\ reqs # <<>>
    /\ sr' = sr - 1
    /\ job' = Head(reqs)
    /\ reqs' = Tail(reqs)
    /\ hdr' = HeaderInts(Head(reqs))
    /\ left' = Head(reqs).n
    /\ IF Head(reqs).cmd = "nop" THEN spc' = "put" /\ out' = 1
                                 ELSE spc' = "int" /\ out' = out
    /\ UNCHANGED <<clientVars, c2s, s2c, sw, ret, ctxVars>>

(* Seeded fault: the reply stays in the bufio.Writer. *)
ContinueUnflushed ==
    IF left' > 0 THEN /\ spc' = IF job.cmd = "tree" THEN "val" ELSE "hex"
                      /\ job' = job
                 ELSE /\ spc' = "top"
                      /\ job' = NoCall

(* Where the body goes on once its arguments are read and its output is    *)
(* buffered: the loops of DoMultTreeRequest and of cmdToHex, or the flush. *)
Continue ==
    IF left' > 0 THEN /\ spc' = IF job.cmd = "tree" THEN "val" ELSE "hex"
                      /\ job' = job
                 ELSE /\ spc' = "flush"
                      /\ job' = NoCall

ServerReadInt ==
    /\ spc = "int" /\ sr > 0
    /\ sr' = sr - 1
    /\ hdr' = hdr - 1
    /\ left' = left
    /\ \/ hdr > 1 /\ UNCHANGED <<spc, job, out>>
       \/ hdr = 1 /\ job.cmd = "add" /\ spc' = "put" /\ out' = 1 /\ job' = job
       \/ hdr = 1 /\ job.cmd # "add" /\ Continue /\ out' = out
    /\ UNCHANGED <<clientVars, c2s, s2c, reqs, sw, ret, ctxVars>>

ServerReadVal ==
    /\ spc = "val" /\ sr > 0
    /\ sr' = sr - 1
    /\ left' = left - 1
    /\ out' = 1
    /\ spc' = "put"
    /\ UNCHANGED <<clientVars, c2s, s2c, reqs, job, hdr, sw, ret, ctxVars>>

(* Seeded fault: the size shrinks by the slice, not by what was read into it. *)
ServerReadHexWhole ==
    /\ spc = "hex" /\ sr > 0 /\ HexRoom > 0
    /\ LET n == Lesser(HexRoom, sr) IN sr' = sr - n /\ out' = 2 * n
    /\ left' = left - HexRoom
    /\ spc' = "put"
    /\ UNCHANGED <<clientVars, c2s, s2c, reqs, job, hdr, sw, ret, ctxVars>>

(* With no room reader.Read returns 0 bytes and no error, and the loop     *)
(* goes round without changing anything.                                   *)
ServerReadHex ==
    /\ spc = "hex" /\ sr > 0 /\ HexRoom > 0
    /\ LET n == Lesser(HexRoom, sr) IN
        /\ sr' = sr - n
        /\ left' = left - n
        /\ out' = 2 * n
    /\ spc' = "put"
    /\ UNCHANGED <<clientVars, c2s, s2c, reqs, job, hdr, sw, ret, ctxVars>>

(* Seeded fault: the writer takes everything. *)
ServerPutUnchecked ==
    /\ spc = "put"
    /\ left' = left /\ sw' = sw + out /\ out' = 0
    /\ Continue
    /\ UNCHANGED <<clientVars, c2s, s2c, reqs, hdr, sr, ret, ctxVars>>

(* Seeded fault: every value is flushed as soon as it is written. *)
ServerPutUnbuffered ==
    /\ spc = "put"
    /\ left' = left /\ sw' = sw + out /\ out' = 0
    /\ IF out > 0 THEN spc' = "drain" /\ job' = job ELSE Continue
    /\ UNCHANGED <<clientVars, c2s, s2c, reqs, hdr, sr, ret, ctxVars>>

(* bufio.Writer.Write: what does not fit waits for the buffer to drain. *)
ServerPut ==
    /\ spc = "put"
    /\ left' = left
    /\ LET k == Lesser(out, ServerWBuf - sw) IN
        /\ sw' = sw + k
        /\ out' = out - k
        /\ IF out > k THEN spc' = "drain" /\ job' = job ELSE Continue
    /\ UNCHANGED <<clientVars, c2s, s2c, reqs, hdr, sr, ret, ctxVars>>

(* A write to the socket.  Once the client has closed, the kernel takes    *)
(* the data and the peer answers with a reset.                             *)
ServerPush ==
    /\ spc \in {"drain", "flush"}
    /\ IF cpc = "closed"
         THEN /\ sw > 0
              /\ sw' = 0
              /\ rst' = TRUE
              /\ UNCHANGED s2c
         ELSE /\ \E k \in 1..Lesser(sw, NetBuf - s2c) :
                    sw' = sw - k /\ s2c' = s2c + k
              /\ UNCHANGED rst
    /\ UNCHANGED <<clientVars, c2s, reqs, spc, job, hdr, left, out, sr, ret,
                   cctx, sctx, midcall>>

ServerFlushed ==
    /\ spc \in {"drain", "flush"} /\ sw = 0
    /\ spc' = IF spc = "drain" THEN "put" ELSE "top"
    /\ UNCHANGED <<clientVars, c2s, s2c, reqs, job, hdr, left, out, sr, sw, ret, ctxVars>>

(* Seeded fault: the end of the stream is always an error. *)
ServerEOFAlwaysErr ==
    /\ Reading /\ c2s = 0 /\ cpc = "closed"
    /\ spc' = "done" /\ ret' = "err"
    /\ UNCHANGED <<clientVars, c2s, s2c, reqs, job, hdr, left, out, sr, sw, ctxVars>>

(* Seeded fault: the end of the stream is noticed at the command byte only. *)
ServerEOFAtCmd ==
    /\ Reading /\ c2s = 0 /\ cpc = "closed" /\ spc = "cmd"
    /\ spc' = "done" /\ ret' = "nil"
    /\ UNCHANGED <<clientVars, c2s, s2c, reqs, job, hdr, left, out, sr, sw, ctxVars>>

(* End of stream: clean only at the command byte. *)
ServerEOF ==
    /\ Reading /\ c2s = 0 /\ cpc = "closed"
    /\ spc' = "done"
    /\ ret' = IF spc = "cmd" THEN "nil" ELSE "err"
    /\ UNCHANGED <<clientVars, c2s, s2c, reqs, job, hdr, left, out, sr, sw, ctxVars>>

(* A read or a write on a connection that was reset fails. *)
ServerReset ==
    /\ rst
    /\ Reading \/ (spc \in {"drain", "flush"} /\ sw > 0)
    /\ spc' = "done"
    /\ ret' = "err"
    /\ UNCHANGED <<clientVars, c2s, s2c, reqs, job, hdr, left, out, sr, sw, ctxVars>>

-----------------------------------------------------------------------------
ClientStep == ClientFill \/ ClientFlush \/ ClientRecv \/ ClientTake

ServerStep ==
    \/ ServerTop \/ ServerFill \/ ServerReadCmd \/ ServerReadInt
    \/ ServerReadVal \/ ServerReadHex \/ ServerPut \/ ServerPush
    \/ ServerFlushed \/ ServerEOF \/ ServerReset

Next ==
    \/ \E c \in Calls : StartCall(c)
    \/ ClientStep
    \/ ClientClose
    \/ HarnessCancel \/ PropagateCancel \/ SiblingFails
    \/ ServerStep

(* Goroutines that can run do run, and a cancelled context reaches its     *)
(* children.  Nobody promises another call, nor that the context ends.     *)
Fairness ==
    /\ WF_vars(ClientStep)
    /\ WF_vars(ServerStep)
    /\ WF_vars(ClientClose)
    /\ WF_vars(PropagateCancel)

Spec == Init /\ [][Next]_vars /\ Fairness

-----------------------------------------------------------------------------
(* Properties. *)

(* The variables keep their types; left is a natural number because the hex
   loop never reads past its payload (runConn's size -= n). *)
TypeOK ==
    /\ cpc \in {"idle", "fill", "flush", "read", "closed"}
    /\ call \in Calls
    /\ toWrite \in Nat /\ toRead \in Nat
    /\ cw \in 0..ClientWBuf /\ cr \in 0..ClientRBuf
    /\ c2s \in 0..NetBuf /\ s2c \in 0..NetBuf
    /\ reqs \in Seq(Calls)
    /\ spc \in {"top", "cmd", "int", "val", "hex", "put", "drain", "flush", "done"}
    /\ job \in Calls \cup {NoCall}
    /\ hdr \in 0..2 /\ left \in Nat /\ out \in Nat
    /\ sr \in 0..ServerRBuf /\ sw \in 0..ServerWBuf
    /\ {cctx, sctx, rst, midcall} \subseteq BOOLEAN
    /\ ret \in {"none", "nil", "canceled", "err"}

(* Only a call without reply bytes can be followed by another one before the
   server has read it, so every queued request but the last is an EmptyHex. *)
QueuedUnits ==
    IF reqs = <<>> THEN 0
    ELSE 2 * (Len(reqs) - 1) + RequestLen(reqs[Len(reqs)])

QueuedReply == IF reqs = <<>> THEN 0 ELSE ReplyLen(reqs[Len(reqs)])

JobReply ==
    CASE job.cmd = "add"  -> IF hdr > 0 THEN 1 ELSE 0
      [] job.cmd = "tree" -> left
      [] job.cmd = "hex"  -> 2 * left
      [] OTHER            -> 0

(* Framing: while the connection is open, the units between client and server
   are exactly what the queued requests and the current job still need, and the
   units on their way back plus those still to be produced are exactly what the
   stub waits for.  Nothing is left over that a later call of the connection
   would take for its own request or reply. *)
Framed ==
    cpc # "closed" =>
        /\ toWrite + cw + c2s + sr = hdr + left + QueuedUnits
        /\ toRead = cr + s2c + sw + out + JobReply + QueuedReply
        /\ cpc = "idle" => toRead = 0 /\ toWrite + cw = 0

(* Both ends wait for the other to read: the client flushes into full socket
   buffers while DoMultTreeRequest's writer drains into full ones. *)
WriteStuck ==
    /\ cpc = "flush" /\ c2s = NetBuf
    /\ spc = "drain" /\ sw > 0 /\ s2c = NetBuf

TreeCapacity == ServerWBuf + NetBuf + 1

(* The server answers a tree while it is still arriving and the client reads
   nothing before it has written everything: the two can block each other, but
   only on a tree larger than the server's writer and the socket buffers of one
   direction together, and never in ToHex. *)
StuckOnlyOverCapacity ==
    WriteStuck => call.cmd = "tree" /\ call.n > TreeCapacity

(* runConn returns an error only when the client went away inside a stub, and it
   abandons a client that is still connected only because its context ended. *)
CleanClose ==
    /\ ret = "err" => midcall
    /\ ret \in {"nil", "err"} => cpc = "closed"
    /\ ret = "canceled" => sctx /\ job = NoCall

-----------------------------------------------------------------------------
(* The inductive invariant: what the two sides know of each other. *)

(* Only the call in progress may expect reply bytes: everything issued before
   it and not yet executed is an EmptyHex. *)
CallsInFlight ==
    /\ \A i \in 1..(Len(reqs) - 1) : reqs[i] = EmptyHex
    /\ reqs # <<>> => reqs[Len(reqs)] = call
    /\ job # NoCall => job = IF reqs = <<>> THEN call ELSE EmptyHex

ClientAt ==
    /\ cpc = "fill" => toWrite > 0 /\ cw = 0
    /\ cpc = "flush" => cw > 0
    /\ cpc \in {"fill", "flush"} => toRead = ReplyLen(call) /\ cr = 0
    /\ cpc = "read" => toRead > 0 /\ toWrite = 0 /\ cw = 0

ServerAt ==
    /\ spc \in {"top", "cmd", "flush"} =>
           job = NoCall /\ hdr = 0 /\ left = 0 /\ out = 0
    /\ spc = "int" =>
           job # NoCall /\ hdr \in 1..HeaderInts(job) /\ left = job.n /\ out = 0
    /\ spc = "val" => job.cmd = "tree" /\ hdr = 0 /\ left > 0 /\ out = 0
    /\ spc = "hex" =>
           /\ job.cmd = "hex" /\ job # EmptyHex /\ hdr = 0 /\ left > 0 /\ out = 0
           /\ left = job.n \/ job.n < HexBuf
    /\ spc \in {"put", "drain"} =>
           /\ job \notin {NoCall, EmptyHex} /\ hdr = 0 /\ out > 0
           /\ left > 0 => job.cmd \in {"tree", "hex"}
           /\ job.cmd = "hex" => job.n < HexBuf
    /\ spc = "done" <=> ret # "none"

(* A full writer is being drained while the client reads nothing. *)
FullWhenDraining ==
    spc = "drain" /\ cpc \in {"fill", "flush"} => sw + s2c >= ServerWBuf

(* What has arrived belongs to a call the server knows or will read. *)
ArrivedIsOwed == c2s + sr <= hdr + left + QueuedUnits

(* A client that closed between calls left nothing the server could fail on. *)
QuietClose ==
    /\ rst \/ midcall => cpc = "closed"
    /\ cpc = "closed" /\ ~midcall =>
           /\ ~rst /\ sw = 0 /\ out = 0
           /\ c2s + sr = hdr + left + QueuedUnits
           /\ reqs # <<>> => call = EmptyHex
           /\ job \in {NoCall, EmptyHex}

(* What every step of the connection preserves and the safety properties follow
   from: who is where, how full the buffers are and whose units are in them. *)
IInv ==
    /\ TypeOK /\ Framed /\ CleanClose
    /\ CallsInFlight /\ ClientAt /\ ServerAt
    /\ FullWhenDraining /\ ArrivedIsOwed /\ QuietClose

-----------------------------------------------------------------------------
(* Liveness and refinement. *)

(* A call the buffers can hold returns, unless the pool's context ends. *)
Fits(c) ==
    /\ c.cmd = "tree" => c.n <= TreeCapacity
    /\ c.cmd = "hex"  => c.n < HexBuf

InStub == cpc \in {"fill", "flush", "read"}

CallReturns == (InStub /\ Fits(call)) ~> (~InStub \/ sctx)

(* Once the client has closed its end, runConn returns. *)
ConnReturns == (cpc = "closed" /\ Fits(call)) ~> (spc = "done")

(* ToHex answers everything up to MaxHexEncodeSize, "the maximum size of a toHex
   message" (rpcbench/bench_harness.go:18). *)
HexAnswered ==
    (InStub /\ call.cmd = "hex" /\ call.n <= HexBuf) ~> (~InStub \/ sctx)

(* The abstract queue: the job in progress, then what was not read yet. *)
Todo == (IF job = NoCall THEN <<>> ELSE <<job>>) \o reqs

Client == IF InStub THEN "waiting" ELSE cpc

Queue == INSTANCE RpcQueue WITH
    Unacked <- {EmptyHex}, todo <- Todo, client <- Client, current <- call

(* The connection keeps the promise of RpcQueue: calls are executed once and in
   order, and a stub returns after its call was executed. *)
RefinesRpcQueue == Queue!Spec
=============================================================================
