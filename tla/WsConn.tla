------------------------------- MODULE WsConn -------------------------------
(***************************************************************************)
(* One binary websocket connection: the stubs of wsClient                  *)
(* (internal/rpc/websocket/ws_client.go) and wsServer.runBinaryConn        *)
(* (ws_server.go).  A call is one message each way, and a message is a     *)
(* sequence of frames that its writer cuts whenever its buffer is full and *)
(* more is to come; both ends must agree on where messages end.            *)
(*                                                                         *)
(* As in TcpConn a unit is the command byte, an int64, or a byte of a      *)
(* ToHex payload; a frame's header is one unit too.  The bufio layers that *)
(* the code puts above the messages only delay what is written and read    *)
(* inside one message, and are left out.  Nobody closes such a connection  *)
(* (HttpServer), so there is no end of it here.                            *)
(***************************************************************************)
EXTENDS Integers, Sequences

CONSTANTS
    HexSizes,     \* lengths ToHex is called with
    TreeSizes,    \* node counts MultTreeValues is called with
    HexBuf,       \* len(readHexBuf) of runBinaryConn, rpcbench.MaxHexEncodeSize
    ClientFrame,  \* units the client puts in one frame (gorilla's default buffer)
    ServerFrame,  \* units the server puts in one frame (WriteBufferSize)
    NetBuf        \* units the socket buffers of one direction hold

ASSUME WsAssumption ==
    /\ HexSizes \subseteq Nat /\ TreeSizes \subseteq Nat \ {0}
    /\ {HexBuf, ClientFrame, ServerFrame, NetBuf} \subseteq Nat \ {0}
    /\ ServerFrame >= 2 * HexBuf  \* ws_server.go: WriteBufferSize

VARIABLES
    cpc,      \* client: "idle", "fill", "flush", "next" (NextReader) or "read"
    call,     \* the client's last call
    toWrite,  \* units of the request not yet in a frame
    toRead,   \* units of the reply the stub has still to read
    spc,      \* server: "next", "cmd", "int", "val", "hex", "put", "drain", "close"
    job,      \* the call that is being executed, or NoCall
    hdr,      \* int64 arguments of the job still to be read
    left,     \* tree values or payload bytes of the job still to be read
    out,      \* reply units produced and not yet in the frame being filled
    sw,       \* units in that frame
    up, down  \* the two directions

clientVars == <<cpc, call, toWrite, toRead>>
jobVars == <<spc, job, hdr, left, out, sw>>
vars == <<clientVars, jobVars, up, down>>

-----------------------------------------------------------------------------
NoCall == [cmd |-> "none", n |-> 0]

Calls ==
    [cmd : {"nop", "add"}, n : {0}]
        \cup [cmd : {"tree"}, n : TreeSizes]
        \cup [cmd : {"hex"}, n : HexSizes]

HeaderInts(c) ==
    CASE c.cmd = "nop" -> 0
      [] c.cmd = "hex" -> 1
      [] OTHER         -> 2

RequestLen(c) == 1 + HeaderInts(c) + c.n

ReplyLen(c) ==
    CASE c.cmd = "tree" -> c.n
      [] c.cmd = "hex"  -> 2 * c.n
      [] OTHER          -> 1

Lesser(a, b) == IF a <= b THEN a ELSE b

(* A direction: frames whose header was not read yet, units that are still to *)
(* be sent and that have arrived, and what the reader is at: units left of its *)
(* frame, and whether that is the last one of its message.                 *)
Quiet == [frames |-> <<>>, unsent |-> 0, here |-> 0, rem |-> 0, fin |-> TRUE]

SendFrame(d, n, last) ==
    [d EXCEPT !.frames = Append(@, [len |-> n, fin |-> last]), !.unsent = n + 1]

Pushed(d, k) == [d EXCEPT !.unsent = @ - k, !.here = @ + k]

(* The header of a frame is read.  (NextReader would skip what is left of an *)
(* earlier message; Aligned says that nothing is.)                         *)
NextFrame(d) ==
    [d EXCEPT !.frames = Tail(@), !.here = @ - 1,
              !.rem = Head(d.frames).len, !.fin = Head(d.frames).fin]

HasHeader(d) == d.rem = 0 /\ d.frames # <<>> /\ d.here > 0

Taken(d, k) == [d EXCEPT !.here = @ - k, !.rem = @ - k]

Available(d) == Lesser(d.here, d.rem)

-----------------------------------------------------------------------------
Init ==
    /\ cpc = "idle" /\ call \in Calls /\ toWrite = 0 /\ toRead = 0
    /\ spc = "next" /\ job = NoCall /\ hdr = 0 /\ left = 0 /\ out = 0 /\ sw = 0
    /\ up = Quiet /\ down = Quiet

-----------------------------------------------------------------------------
(* The stubs. *)

StartCall(c) ==
    /\ cpc = "idle"
    /\ cpc' = "fill"
    /\ call' = c
    /\ toWrite' = RequestLen(c)
    /\ toRead' = ReplyLen(c)
    /\ UNCHANGED <<jobVars, up, down>>

(* The message's writer fills a frame and sends it; the last one is sent by *)
(* rawWriter.Close.                                                        *)
ClientFill ==
    /\ cpc = "fill"
    /\ LET k == Lesser(toWrite, ClientFrame) IN
        /\ toWrite' = toWrite - k
        /\ up' = SendFrame(up, k, toWrite = k)
    /\ cpc' = "flush"
    /\ UNCHANGED <<call, toRead, jobVars, down>>

ClientFlush ==
    /\ cpc = "flush"
    /\ \E k \in 1..Lesser(up.unsent, NetBuf - up.here) :
        /\ up' = Pushed(up, k)
        /\ cpc' = IF up.unsent > k THEN "flush"
                  ELSE IF toWrite > 0 THEN "fill" ELSE "next"
    /\ UNCHANGED <<call, toWrite, toRead, jobVars, down>>

(* Seeded fault: the stub of a call without reply units does not wait. *)
ClientNextSkipEmpty ==
    /\ cpc = "next"
    /\ \/ toRead = 0 /\ cpc' = "idle" /\ UNCHANGED down
       \/ /\ toRead > 0 /\ HasHeader(down)
          /\ down' = NextFrame(down)
          /\ cpc' = "read"
    /\ UNCHANGED <<call, toWrite, toRead, jobVars, up>>

(* conn.NextReader waits for a message also if the reply has no units. *)
ClientNext ==
    /\ cpc = "next" /\ HasHeader(down)
    /\ down' = NextFrame(down)
    /\ cpc' = IF toRead = 0 THEN "idle" ELSE "read"
    /\ UNCHANGED <<call, toWrite, toRead, jobVars, up>>

(* The reply is read, across as many frames as it has. *)
ClientRead ==
    /\ cpc = "read"
    /\ \/ /\ ~down.fin /\ HasHeader(down)
          /\ down' = NextFrame(down)
          /\ UNCHANGED <<cpc, toRead>>
       \/ \E k \in 1..Lesser(Available(down), toRead) :
            /\ down' = Taken(down, k)
            /\ toRead' = toRead - k
            /\ cpc' = IF toRead = k THEN "idle" ELSE "read"
    /\ UNCHANGED <<call, toWrite, jobVars, up>>

-----------------------------------------------------------------------------
(* runBinaryConn. *)

(* conn.NextReader: a new message, or the next frame of one. *)
ServerFrameHeader ==
    /\ HasHeader(up)
    /\ IF up.fin THEN spc = "next" /\ spc' = "cmd"
                 ELSE spc \in {"int", "val", "hex"} /\ UNCHANGED spc
    /\ up' = NextFrame(up)
    /\ UNCHANGED <<clientVars, job, hdr, left, out, sw, down>>

ServerReadCmd ==
    /\ spc = "cmd" /\ Available(up) > 0
    /\ up' = Taken(up, 1)
    /\ job' = call
    /\ hdr' = HeaderInts(call) /\ left' = call.n
    /\ IF call.cmd = "nop" THEN spc' = "put" /\ out' = 1
                           ELSE spc' = "int" /\ UNCHANGED out
    /\ UNCHANGED <<clientVars, sw, down>>

(* Where the body goes on when its output is in the frame. *)
Loop(l) == IF l = 0 THEN "close" ELSE IF job.cmd = "tree" THEN "val" ELSE "hex"

ServerReadInt ==
    /\ spc = "int" /\ Available(up) > 0
    /\ up' = Taken(up, 1)
    /\ hdr' = hdr - 1
    /\ \/ hdr > 1 /\ UNCHANGED <<spc, out>>
       \/ hdr = 1 /\ job.cmd = "add" /\ spc' = "put" /\ out' = 1
       \/ hdr = 1 /\ job.cmd # "add" /\ spc' = Loop(left) /\ UNCHANGED out
    /\ UNCHANGED <<clientVars, job, left, sw, down>>

ServerReadVal ==
    /\ spc = "val" /\ Available(up) > 0
    /\ up' = Taken(up, 1)
    /\ left' = left - 1
    /\ out' = 1 /\ spc' = "put"
    /\ UNCHANGED <<clientVars, job, hdr, sw, down>>

(* readHexBuf[min(len(readHexBuf), int(size)):] *)
HexRoom == HexBuf - Lesser(HexBuf, left)

(* reader.Read returns a piece of what has arrived; of nothing if there is no *)
(* room, and then the loop goes round for ever.                            *)
ServerReadHex ==
    /\ spc = "hex"
    /\ \E k \in 1..Lesser(Available(up), Lesser(HexRoom, left)) :
        /\ up' = Taken(up, k)
        /\ left' = left - k
        /\ out' = 2 * k
    /\ spc' = "put"
    /\ UNCHANGED <<clientVars, job, hdr, sw, down>>

(* Seeded fault: the buffer of the frame is taken to have room for all. *)
ServerPutAll ==
    /\ spc = "put"
    /\ sw' = sw + out
    /\ out' = 0 /\ spc' = Loop(left)
    /\ UNCHANGED <<clientVars, job, hdr, left, up, down>>

(* Seeded fault: a frame is sent when it is full, also if nothing follows. *)
ServerPutEager ==
    /\ spc = "put"
    /\ LET k == Lesser(out, ServerFrame - sw) IN
        /\ out' = out - k
        /\ IF sw + k = ServerFrame
             THEN spc' = "drain" /\ sw' = 0 /\ down' = SendFrame(down, ServerFrame, FALSE)
             ELSE spc' = Loop(left) /\ sw' = sw + k /\ UNCHANGED down
    /\ UNCHANGED <<clientVars, job, hdr, left, up>>

(* writer.Write: what does not fit sends the frame there is. *)
ServerPut ==
    /\ spc = "put"
    /\ LET k == Lesser(out, ServerFrame - sw) IN
        /\ out' = out - k
        /\ IF out > k
             THEN spc' = "drain" /\ sw' = 0 /\ down' = SendFrame(down, ServerFrame, FALSE)
             ELSE spc' = Loop(left) /\ sw' = sw + k /\ UNCHANGED down
    /\ UNCHANGED <<clientVars, job, hdr, left, up>>

(* Seeded fault: the writer of an empty reply is not closed. *)
ServerCloseIfAny ==
    /\ spc = "close"
    /\ IF sw > 0 THEN down' = SendFrame(down, sw, TRUE) ELSE UNCHANGED down
    /\ sw' = 0 /\ job' = NoCall /\ spc' = "drain"
    /\ UNCHANGED <<clientVars, hdr, left, out, up>>

(* writer.Close sends the last frame, empty or not. *)
ServerClose ==
    /\ spc = "close"
    /\ down' = SendFrame(down, sw, TRUE)
    /\ sw' = 0 /\ job' = NoCall /\ spc' = "drain"
    /\ UNCHANGED <<clientVars, hdr, left, out, up>>

ServerFlush ==
    /\ spc = "drain"
    /\ \/ \E k \in 1..Lesser(down.unsent, NetBuf - down.here) :
            down' = Pushed(down, k) /\ UNCHANGED spc
       \/ /\ down.unsent = 0
          /\ spc' = IF job = NoCall THEN "next" ELSE "put"
          /\ UNCHANGED down
    /\ UNCHANGED <<clientVars, job, hdr, left, out, sw, up>>

-----------------------------------------------------------------------------
ClientStep == ClientFill \/ ClientFlush \/ ClientNext \/ ClientRead

ServerStep ==
    \/ ServerFrameHeader \/ ServerReadCmd \/ ServerReadInt \/ ServerReadVal
    \/ ServerReadHex \/ ServerPut \/ ServerClose \/ ServerFlush

Next == (\E c \in Calls : StartCall(c)) \/ ClientStep \/ ServerStep

(* Goroutines that can run do run; nobody promises another call. *)
Spec == Init /\ [][Next]_vars /\ WF_vars(ClientStep) /\ WF_vars(ServerStep)

-----------------------------------------------------------------------------
(* Properties. *)

Direction(d) ==
    /\ d.unsent \in Nat /\ d.here \in 0..NetBuf
    /\ d.rem \in Nat /\ d.fin \in BOOLEAN
    /\ \A i \in DOMAIN d.frames : d.frames[i] \in [len : Nat, fin : BOOLEAN]

(* The variables keep their types; nothing is read past the end of a frame, a
   message or a payload (rem and left stay natural numbers). *)
TypeOK ==
    /\ cpc \in {"idle", "fill", "flush", "next", "read"}
    /\ call \in Calls /\ job \in Calls \cup {NoCall}
    /\ spc \in {"next", "cmd", "int", "val", "hex", "put", "drain", "close"}
    /\ {toWrite, toRead, left, out} \subseteq Nat
    /\ hdr \in 0..2 /\ sw \in 0..ServerFrame
    /\ Direction(up) /\ Direction(down)

(* Both ends agree on where messages end: between calls no frame, no unit and no
   unfinished message of an earlier call is left in either direction, whatever the
   frames the replies were cut into; the next call starts on a clean connection. *)
Aligned == cpc = "idle" => up = Quiet /\ down = Quiet

(* The server's frame, and the values among what the sockets hold of a request: one
   unit in ClientFrame + 1 is a header. *)
TreeCapacity == ServerFrame + NetBuf - NetBuf \div (ClientFrame + 1)

(* A reply of more than a frame may have to leave before the request has arrived. *)
Fits(c) ==
    /\ c.cmd = "tree" => c.n <= TreeCapacity
    /\ c.cmd = "hex"  => c.n < HexBuf

(* What an end waits for has happened: there is room to send or something to read. *)
ClientReady ==
    \/ cpc = "fill"
    \/ cpc = "flush" /\ up.here < NetBuf
    \/ cpc = "next" /\ HasHeader(down)
    \/ cpc = "read" /\ (Available(down) > 0 \/ (~down.fin /\ HasHeader(down)))

ServerReady ==
    \/ spc = "next" /\ HasHeader(up)
    \/ spc \in {"cmd", "int", "val"} /\ Available(up) > 0
    \/ spc = "hex" /\ Available(up) > 0 /\ HexRoom > 0
    \/ spc \in {"int", "val", "hex"} /\ HasHeader(up)
    \/ spc \in {"put", "close"}
    \/ spc = "drain" /\ (down.unsent = 0 \/ down.here < NetBuf)

(* Inside a call, client and server never both wait for the other, unless the call
   is one that the buffers cannot hold: a tree whose reply fills them while its
   request is being sent, or a payload that fills readHexBuf. *)
StuckOnlyOverCapacity ==
    cpc # "idle" /\ ~ClientReady /\ ~ServerReady => ~Fits(call)

(* A call that the buffers can hold returns. *)
CallReturns == (cpc # "idle" /\ Fits(call)) ~> (cpc = "idle")

(* The abstract queue: a call is waiting until its command has been executed. *)
Todo ==
    IF job # NoCall THEN <<job>>
    ELSE IF cpc \in {"fill", "flush"} \/ (cpc = "next" /\ up # Quiet)
    THEN <<call>> ELSE <<>>

Queue == INSTANCE RpcQueue WITH
    Unacked <- {}, todo <- Todo,
    client <- IF cpc = "idle" THEN "idle" ELSE "waiting", current <- call

(* The connection keeps the promise of RpcQueue without TcpConn's exception: every
   call, that with an empty reply too, returns after it was executed. *)
RefinesRpcQueue == Queue!Spec
=============================================================================
