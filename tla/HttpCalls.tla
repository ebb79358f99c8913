----------------------------- MODULE HttpCalls -----------------------------
(***************************************************************************)
(* The calls of one http1Client (internal/rpc/http1/http1_client.go) and   *)
(* the handlers that answer them (http1_server.go).                        *)
(*                                                                         *)
(* A call is two goroutines of the client: the caller fills c.bodyWriter   *)
(* (or sets c.bodyReader), and net/http's write loop reads that same object *)
(* while the caller may already be reading the reply.  The handlers of     *)
(* trees and payloads enable full duplex: they answer before they have read *)
(* everything.  A reply that outgrows the server's buffer is chunked, and  *)
(* its end comes after its last unit; a caller that has all it wants closes *)
(* the body, and what then becomes of the connection depends on whether the *)
(* end had been seen.                                                      *)
(*                                                                         *)
(* Lengths are in units: an int64, or a byte of a payload (two in its      *)
(* reply).  Servers and connections do not fail here (HttpServer).         *)
(***************************************************************************)
EXTENDS Integers

CONSTANTS
    HexSizes,   \* lengths ToHex is called with
    TreeSizes,  \* node counts MultTreeValues is called with
    WriteBuf,   \* request units the transport holds back until the body was read
    OutBuf,     \* reply units net/http holds back for a Content-Length
    NetBuf      \* units a socket holds

ASSUME HttpCallsAssumption ==
    /\ HexSizes \subseteq Nat /\ TreeSizes \subseteq Nat \ {0}
    /\ {WriteBuf, OutBuf} \subseteq Nat /\ NetBuf \in Nat \ {0}

VARIABLES
    cpc,      \* "idle", "filled", "post" (in hc.Post), "read", "end" or "failed"
    call,     \* the caller's last call
    got,      \* units of the reply the caller has read
    buf,      \* what c.bodyWriter and c.bodyReader still hold
    stale,    \* which of them a dropped connection's write loop still reads
    shared,   \* whether the call's body was in stale when it was filled
    conn,     \* the transport's connection: "none", "pooled" or "busy"
    wpc,      \* its write loop: "idle", "body", or "extra" (looks for more)
    length,   \* the request's Content-Length
    sent,     \* units the write loop has written
    spc,      \* the server's side: "idle", "serve", "write" or "last"
    taken,    \* request units the handler has read
    given,    \* reply units written to the socket
    head, chunked, term  \* reply: header sent, chunked, end of the body sent

callVars == <<cpc, call, got>>
bodyVars == <<buf, stale, shared>>
writeVars == <<wpc, length, sent>>
serveVars == <<spc, taken, given, head, chunked, term>>
vars == <<callVars, bodyVars, conn, writeVars, serveVars>>

-----------------------------------------------------------------------------
Calls ==
    [cmd : {"nop", "add"}, n : {0}]
        \cup [cmd : {"tree"}, n : TreeSizes]
        \cup [cmd : {"hex"}, n : HexSizes]

Bodies == {"bodyWriter", "bodyReader"}

Body(c) == IF c.cmd = "hex" THEN "bodyReader" ELSE "bodyWriter"

RequestLen(c) ==
    CASE c.cmd = "add"  -> 2
      [] c.cmd = "tree" -> 2 + c.n
      [] OTHER          -> c.n

(* What a handler has written after it has read so many units. *)
Written(c, in) ==
    CASE c.cmd = "add"  -> in \div 2
      [] c.cmd = "tree" -> IF in > 2 THEN in - 2 ELSE 0
      [] c.cmd = "hex"  -> 2 * in
      [] OTHER          -> 0

ReplyLen(c) == Written(c, RequestLen(c))

Ready == given - got       \* reply units in the client's socket
Arriving == sent - taken   \* request units in the server's

-----------------------------------------------------------------------------
Init ==
    /\ cpc = "idle" /\ call \in Calls /\ got = 0
    /\ buf = [b \in Bodies |-> 0] /\ stale = {} /\ shared = FALSE
    /\ conn = "none"
    /\ wpc = "idle" /\ length = 0 /\ sent = 0
    /\ spc = "idle" /\ taken = 0 /\ given = 0
    /\ head = FALSE /\ chunked = FALSE /\ term = FALSE

-----------------------------------------------------------------------------
(* The caller. *)

(* bodyWriter.Reset and the writes of the arguments, or bodyReader.Reset.  Nop *)
(* has no body.                                                            *)
StartCall(c) ==
    /\ cpc = "idle"
    /\ cpc' = "filled" /\ call' = c /\ got' = 0
    /\ buf' = IF c.cmd = "nop" THEN buf ELSE [buf EXCEPT ![Body(c)] = RequestLen(c)]
    /\ shared' = (c.cmd # "nop" /\ Body(c) \in stale)
    /\ UNCHANGED <<stale, conn, writeVars, serveVars>>

(* Seeded fault: the length of the body before it was filled again. *)
PostOldLength ==
    /\ cpc = "filled"
    /\ cpc' = "post" /\ conn' = "busy"
    /\ wpc' = IF RequestLen(call) = 0 THEN "idle" ELSE "body"
    /\ sent' = 0
    /\ spc' = "serve" /\ taken' = 0 /\ given' = 0
    /\ head' = FALSE /\ chunked' = FALSE /\ term' = FALSE
    /\ UNCHANGED <<call, got, bodyVars, length>>

(* hc.Post takes the length from the body, and a pooled connection or a new one. *)
Post ==
    /\ cpc = "filled"
    /\ cpc' = "post"
    /\ conn' = "busy"
    /\ length' = IF call.cmd = "nop" THEN 0 ELSE buf[Body(call)]
    /\ wpc' = IF length' = 0 THEN "idle" ELSE "body"
    /\ sent' = 0
    /\ spc' = "serve" /\ taken' = 0 /\ given' = 0
    /\ head' = FALSE /\ chunked' = FALSE /\ term' = FALSE
    /\ UNCHANGED <<call, got, bodyVars>>

(* Seeded fault: the request is written to its end before the reply is looked at. *)
PostedWhenWritten ==
    /\ cpc = "post" /\ head /\ wpc = "idle"
    /\ cpc' = IF got = ReplyLen(call) THEN "end" ELSE "read"
    /\ UNCHANGED <<call, got, bodyVars, conn, writeVars, serveVars>>

(* hc.Post returns when the header has come, whatever the write loop is at. *)
Posted ==
    /\ cpc = "post" /\ head
    /\ cpc' = IF got = ReplyLen(call) THEN "end" ELSE "read"
    /\ UNCHANGED <<call, got, bodyVars, conn, writeVars, serveVars>>

ReadReply ==
    /\ cpc = "read"
    /\ \E k \in 1..Ready :
        /\ got' = got + k
        /\ cpc' = IF got' = ReplyLen(call) THEN "end" ELSE "read"
    /\ UNCHANGED <<call, bodyVars, conn, writeVars, serveVars>>

(* The body ends too early: io.ErrUnexpectedEOF. *)
ReplyCut ==
    /\ cpc = "read" /\ term /\ Ready = 0
    /\ cpc' = "failed"
    /\ UNCHANGED <<call, got, bodyVars, conn, writeVars, serveVars>>

(* The connection is given up; its write loop is not waited for. *)
Drop ==
    /\ conn' = "none"
    /\ stale' = IF wpc = "idle" THEN stale ELSE stale \cup {Body(call)}
    /\ wpc' = "idle" /\ spc' = "idle"
    /\ UNCHANGED <<buf, shared, length, sent, taken, given, head, chunked, term>>

(* Seeded fault: a connection is pooled before its write loop has ended. *)
EndSeenNoWait ==
    /\ cpc = "end" /\ term
    /\ cpc' = "idle" /\ conn' = "pooled"
    /\ UNCHANGED <<call, got, bodyVars, writeVars, serveVars>>

(* The end of the reply was seen with its last unit: the connection is pooled *)
(* if the write loop has ended, for which the transport waits 50 ms.       *)
EndSeen ==
    /\ cpc = "end" /\ term
    /\ cpc' = "idle"
    /\ \/ wpc = "idle" /\ conn' = "pooled" /\ UNCHANGED <<bodyVars, writeVars, serveVars>>
       \/ wpc # "idle" /\ Drop
    /\ UNCHANGED <<call, got>>

(* r.Body.Close before the end was seen. *)
CloseEarly ==
    /\ cpc = "end" /\ chunked
    /\ cpc' = "idle"
    /\ Drop
    /\ UNCHANGED <<call, got>>

-----------------------------------------------------------------------------
(* The write loops. *)

(* A request that fits the buffer is flushed after its body was read to the end; *)
(* a longer one is in the socket before the loop looks for more.           *)
WriteSome ==
    /\ wpc = "body"
    /\ \E k \in 1..buf[Body(call)] :
        /\ length > WriteBuf => k <= NetBuf - Arriving
        /\ length <= WriteBuf => k = buf[Body(call)]
        /\ buf' = [buf EXCEPT ![Body(call)] = @ - k]
        /\ sent' = sent + k
        /\ wpc' = IF sent' < length THEN "body"
                  ELSE IF length > WriteBuf THEN "extra" ELSE "idle"
    /\ UNCHANGED <<callVars, stale, shared, conn, length, serveVars>>

(* Less than Content-Length: an error, and the connection is closed. *)
WriteShort ==
    /\ wpc = "body" /\ buf[Body(call)] = 0
    /\ cpc' = "failed"
    /\ wpc' = "idle" /\ conn' = "none" /\ spc' = "idle"
    /\ UNCHANGED <<call, got, bodyVars, length, sent, taken, given, head, chunked, term>>

WriteEnds ==
    /\ wpc = "extra"
    /\ wpc' = "idle"
    /\ UNCHANGED <<callVars, bodyVars, conn, length, sent, serveVars>>

(* The write loop of a dropped connection looks for more and takes what it finds. *)
StaleRead(b) ==
    /\ b \in stale
    /\ stale' = stale \ {b}
    /\ \E k \in 0..buf[b] : buf' = [buf EXCEPT ![b] = @ - k]
    /\ UNCHANGED <<callVars, shared, conn, writeVars, serveVars>>

-----------------------------------------------------------------------------
(* The handlers. *)

(* Seeded fault: without EnableFullDuplex the first write of the reply throws *)
(* the rest of the request away, and the handler's next read fails.        *)
HandleReadHalfDuplex ==
    /\ spc = "serve"
    /\ \E k \in 0..Arriving :
        /\ k > 0 \/ taken = length
        /\ taken' = taken + k
        /\ LET more == Written(call, taken') - given IN
            spc' = IF taken' = length \/ more > OutBuf THEN "last" ELSE "serve"
        /\ chunked' = (chunked \/ Written(call, taken') - given > OutBuf)
    /\ UNCHANGED <<callVars, bodyVars, conn, writeVars, given, head, term>>

(* A handler reads, and writes what it has; more than the buffer holds goes to *)
(* the socket, in chunks, before the handler goes on.                      *)
HandleRead ==
    /\ spc = "serve"
    /\ \E k \in 0..Arriving :
        /\ k > 0 \/ taken = length
        /\ taken' = taken + k
        /\ LET spill == Written(call, taken') - given > OutBuf IN
            /\ chunked' = (chunked \/ spill)
            /\ spc' = IF taken' = length THEN "last" ELSE IF spill THEN "write" ELSE "serve"
    /\ UNCHANGED <<callVars, bodyVars, conn, writeVars, given, head, term>>

(* The reply goes out as the client reads.  A reply with a Content-Length ends *)
(* with its last unit; the end of a chunked one is written after the handler. *)
HandleWrite ==
    /\ spc \in {"write", "last"}
    /\ LET left == Written(call, taken) - given IN
       \E k \in 0..left :
        /\ k <= NetBuf - Ready /\ (k > 0 \/ left = 0)
        /\ given' = given + k
        /\ head' = TRUE
        /\ IF spc = "last" /\ k = left /\ (k = 0 \/ ~chunked)
             THEN term' = TRUE /\ spc' = "idle"
             ELSE /\ UNCHANGED term
                  /\ spc' = IF k = left /\ spc = "write" THEN "serve" ELSE spc
    /\ UNCHANGED <<callVars, bodyVars, conn, writeVars, taken, chunked>>

-----------------------------------------------------------------------------
CallerStep == Post \/ Posted \/ ReadReply \/ ReplyCut \/ EndSeen \/ CloseEarly
WriteStep == WriteSome \/ WriteShort \/ WriteEnds
HandlerStep == HandleRead \/ HandleWrite

Next ==
    \/ \E c \in Calls : StartCall(c)
    \/ CallerStep \/ WriteStep \/ HandlerStep
    \/ \E b \in Bodies : StaleRead(b)

(* Goroutines that can run do run; nobody promises another call. *)
Spec ==
    /\ Init /\ [][Next]_vars
    /\ WF_vars(CallerStep) /\ WF_vars(WriteStep) /\ WF_vars(HandlerStep)

-----------------------------------------------------------------------------
(* Properties. *)

(* The variables keep their types, and nobody gets ahead of the bytes: what was
   read was written, and what was written was there to write. *)
TypeOK ==
    /\ cpc \in {"idle", "filled", "post", "read", "end", "failed"}
    /\ call \in Calls /\ got \in 0..ReplyLen(call) /\ got <= given
    /\ buf \in [Bodies -> Nat] /\ stale \subseteq Bodies
    /\ {shared, head, chunked, term} \subseteq BOOLEAN
    /\ conn \in {"none", "pooled", "busy"}
    /\ wpc \in {"idle", "body", "extra"} /\ spc \in {"idle", "serve", "write", "last"}
    /\ length \in Nat /\ sent \in 0..length /\ taken \in 0..sent
    /\ given \in 0..Written(call, taken) \/ cpc = "filled"

(* A connection goes back to the pool clean: the call's request was read and its
   reply taken to the end, both sides of the connection are at rest, and no write
   loop has a hold of the body that the next call will fill. *)
PooledIsClean ==
    conn = "pooled" =>
        /\ wpc = "idle" /\ spc = "idle" /\ Arriving = 0
        /\ cpc = "idle" => Ready = 0 /\ taken = RequestLen(call)

(* The client makes one call at a time and yet may share a body with a write loop;
   nothing else makes a call fail: not the two directions of a full-duplex reply, a
   reply that starts before its request has ended, nor a reply closed early. *)
FailsOnlyIfShared == cpc = "failed" => shared

(* Every call ends, whatever its size: unlike TcpConn's, a tree or payload that no
   buffer holds cannot block, because the request is written by another goroutine. *)
CallReturns == cpc \in {"filled", "post", "read", "end"} ~> cpc \in {"idle", "failed"}
=============================================================================
