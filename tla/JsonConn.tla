------------------------------ MODULE JsonConn ------------------------------
(***************************************************************************)
(* A JSON websocket connection: the isJson stubs of wsClient               *)
(* (internal/rpc/websocket/ws_client.go) and wsServer.runJsonConn          *)
(* (ws_server.go).  Both ends keep the structures that they encode and     *)
(* decode from one call to the next.  A decoder leaves a field alone that  *)
(* the message does not have, and an encoder leaves out an empty field     *)
(* that is marked omitempty: what an earlier call left can come back.      *)
(*                                                                         *)
(* A message is a record of the fields that it has.  A tree stands for its *)
(* values, a single one here; how decoders reuse a tree's storage is in    *)
(* Trees, how messages travel in WsConn.                                   *)
(***************************************************************************)
EXTENDS Naturals, Sequences

CONSTANTS
    Ints,    \* arguments of Add and values of trees, zero among them
    Bytes,   \* bytes of a payload
    MaxHex   \* rpcbench.MaxHexEncodeSize

ASSUME JsonAssumption == Ints \subseteq Nat /\ Bytes \subseteq 0..255 /\ MaxHex \in Nat

VARIABLES
    call,     \* the client's last call
    busy,     \* whether it is inside a stub
    result,   \* what the stub returned last, as a sequence
    outMsg,   \* the client's c.outMsg
    clientMsg,  \* its c.msg, decoded by Nop only
    up, down, \* the message under way in each direction, if any
    msg, addReq, multReq, toHexIn, toHexOut  \* the variables of runJsonConn

clientVars == <<call, busy, result, outMsg, clientMsg>>
serverVars == <<msg, addReq, multReq, toHexIn, toHexOut>>
vars == <<clientVars, up, down, serverVars>>

-----------------------------------------------------------------------------
Nil == [nil |-> TRUE]  \* a nil payload
None == {}             \* no message

Payloads == UNION {[1..n -> Bytes] : n \in 0..MaxHex}

Calls ==
    [cmd : {"nop"}]
        \cup [cmd : {"add"}, a : Ints, b : Ints]
        \cup [cmd : {"tree"}, mult : Ints, tree : Ints]
        \cup [cmd : {"hex"}, in : Payloads]

(* json.Unmarshal into a structure that has been used before. *)
Decode(old, m) == [f \in DOMAIN old |-> IF f \in DOMAIN m THEN m[f] ELSE old[f]]

(* OutMessage and Message: omitempty drops a nil payload. *)
Encode(m) == IF m.payload = Nil THEN [command |-> m.command] ELSE m

(* Seeded fault: AddRequest's fields are marked omitempty as well. *)
RequestOmitZero(c) ==
    CASE c.cmd = "nop"  -> Nil
      [] c.cmd = "add"  -> [f \in {g \in {"a", "b"} : c[g] # 0} |-> c[f]]
      [] c.cmd = "tree" -> [mult |-> c.mult, tree |-> c.tree]
      [] c.cmd = "hex"  -> [data |-> c.in]

(* AddRequest and MultTreeRequest have all their fields always. *)
Request(c) ==
    CASE c.cmd = "nop"  -> Nil
      [] c.cmd = "add"  -> [a |-> c.a, b |-> c.b]
      [] c.cmd = "tree" -> [mult |-> c.mult, tree |-> c.tree]
      [] c.cmd = "hex"  -> [data |-> c.in]

(* encoding/hex: two digits for each byte, the higher one first. *)
Digits(data) ==
    [i \in 1..(2 * Len(data)) |->
        LET byte == data[(i + 1) \div 2] IN IF i % 2 = 1 THEN byte \div 16 ELSE byte % 16]

-----------------------------------------------------------------------------
Init ==
    /\ call = [cmd |-> "nop"] /\ busy = FALSE /\ result = <<>>
    /\ outMsg = [command |-> "nop", payload |-> Nil]
    /\ clientMsg = [command |-> "nop", payload |-> Nil]
    /\ up = None /\ down = None
    /\ msg = [command |-> "nop", payload |-> Nil]
    /\ addReq = [a |-> 0, b |-> 0] /\ multReq = [mult |-> 0, tree |-> 0]
    /\ toHexIn = [i \in 1..MaxHex |-> 0]
    /\ toHexOut = [i \in 1..(2 * MaxHex) |-> 0]

-----------------------------------------------------------------------------
(* The stubs: WriteJSON(c.outMsg). *)
StartCall(c) ==
    /\ ~busy /\ busy' = TRUE
    /\ call' = c
    /\ outMsg' = [command |-> c.cmd, payload |-> Request(c)]
    /\ up' = {Encode(outMsg')}
    /\ UNCHANGED <<result, clientMsg, down, serverVars>>

(* ReadJSON of the reply: into c.msg for Nop, into a fresh variable or a tree that *)
(* was reset for the others.                                               *)
Return ==
    /\ \E m \in down :
        /\ IF call.cmd = "nop"
             THEN clientMsg' = Decode(clientMsg, m) /\ result' = <<>>
             ELSE result' = m.res /\ UNCHANGED clientMsg
    /\ busy' = FALSE /\ down' = None
    /\ UNCHANGED <<call, outMsg, up, serverVars>>

-----------------------------------------------------------------------------
(* runJsonConn: ReadJSON(&msg), the handler, WriteJSON. *)

Receive(cmd) ==
    /\ \E m \in up : msg' = Decode(msg, m)
    /\ msg'.command = cmd
    /\ up' = None

(* The message goes back as it is, with the payload an earlier call left in it. *)
ServeNop ==
    /\ Receive("nop")
    /\ down' = {Encode(msg')}
    /\ UNCHANGED <<clientVars, addReq, multReq, toHexIn, toHexOut>>

ServeAdd ==
    /\ Receive("add")
    /\ addReq' = Decode(addReq, msg'.payload)
    /\ down' = {[res |-> <<addReq'.a + addReq'.b>>]}
    /\ UNCHANGED <<clientVars, multReq, toHexIn, toHexOut>>

(* The tree is multiplied in place. *)
ServeTree ==
    /\ Receive("tree")
    /\ LET req == Decode(multReq, msg'.payload) IN
        /\ multReq' = [req EXCEPT !.tree = @ * req.mult]
        /\ down' = {[res |-> <<multReq'.tree>>]}
    /\ UNCHANGED <<clientVars, addReq, toHexIn, toHexOut>>

(* Seeded fault: the output buffer is cut to the length of its last use. *)
ServeHexCut ==
    /\ Receive("hex")
    /\ toHexIn' = msg'.payload.data
    /\ toHexOut' = Digits(toHexIn')
    /\ down' = {[res |-> toHexOut']}
    /\ UNCHANGED <<clientVars, addReq, multReq>>

(* The decoder replaces toHexInBuf; the digits are a prefix of toHexOutBuf. *)
ServeHex ==
    /\ Receive("hex")
    /\ toHexIn' = msg'.payload.data
    /\ LET digits == Digits(toHexIn') IN
        /\ toHexOut' = digits \o SubSeq(toHexOut, Len(digits) + 1, Len(toHexOut))
        /\ down' = {[res |-> SubSeq(toHexOut', 1, Len(digits))]}
    /\ UNCHANGED <<clientVars, addReq, multReq>>

-----------------------------------------------------------------------------
Next ==
    \/ \E c \in Calls : StartCall(c)
    \/ Return
    \/ ServeNop \/ ServeAdd \/ ServeTree \/ ServeHex

Spec == Init /\ [][Next]_vars

-----------------------------------------------------------------------------
(* Properties. *)

(* The variables keep their types; toHexOutBuf keeps its length, so that it can
   still hold the digits of the largest payload; one message is under way at most. *)
TypeOK ==
    /\ call \in Calls /\ busy \in BOOLEAN
    /\ DOMAIN outMsg = {"command", "payload"} /\ DOMAIN msg = {"command", "payload"}
    /\ DOMAIN clientMsg = {"command", "payload"}
    /\ result \in Seq(Nat)
    /\ addReq \in [a : Nat, b : Nat] /\ multReq \in [mult : Nat, tree : Nat]
    /\ toHexIn \in Seq(Nat) /\ Len(toHexIn) <= MaxHex
    /\ toHexOut \in Seq(0..15) /\ Len(toHexOut) = 2 * MaxHex
    /\ up = None \/ down = None
    /\ busy <=> (up \cup down # None)

Answer(c) ==
    CASE c.cmd = "nop"  -> <<>>
      [] c.cmd = "add"  -> <<c.a + c.b>>
      [] c.cmd = "tree" -> <<c.mult * c.tree>>
      [] c.cmd = "hex"  -> Digits(c.in)

(* A call's result is made of its own arguments, though every structure that its
   request and its reply pass through still holds those of an earlier call. *)
ResultIsOwn == ~busy => result = Answer(call)
=============================================================================
