--------------------------- MODULE JsonConnProofs ---------------------------
(***************************************************************************)
(* A JSON websocket connection gives every call a result of its own, for   *)
(* all integers, bytes and payload lengths, although both ends decode into *)
(* structures that still hold an earlier call.                             *)
(***************************************************************************)
EXTENDS JsonConn, SequenceTheorems, TLAPS

-----------------------------------------------------------------------------
(* The inductive invariant. *)

(* The structures keep their fields, for a decoder neither adds nor removes one, and
   toHexOutBuf its length. *)
Fields ==
    /\ call \in Calls /\ busy \in BOOLEAN /\ result \in Seq(Nat)
    /\ DOMAIN outMsg = {"command", "payload"} /\ DOMAIN msg = {"command", "payload"}
    /\ DOMAIN clientMsg = {"command", "payload"}
    /\ addReq \in [a : Nat, b : Nat] /\ multReq \in [mult : Nat, tree : Nat]
    /\ toHexIn \in Seq(Nat) /\ Len(toHexIn) <= MaxHex
    /\ toHexOut \in Seq(0..15) /\ Len(toHexOut) = 2 * MaxHex

(* The request under way, as StartCall has sent it. *)
Sent == Encode([command |-> call.cmd, payload |-> Request(call)])

(* A call is a request under way, then a reply made of its own arguments, and its
   result after that. *)
OwnReply ==
    \/ busy = TRUE /\ up = {Sent} /\ down = None
    \/ /\ busy = TRUE /\ up = None
       /\ \E m : down = {m} /\ (call.cmd = "nop" \/ m.res = Answer(call))
    \/ busy = FALSE /\ up = None /\ down = None /\ result = Answer(call)

IInv == Fields /\ OwnReply

-----------------------------------------------------------------------------
(* Calls and their requests. *)

LEMMA CallFields ==
    ASSUME NEW c \in Calls
    PROVE  /\ c.cmd \in {"nop", "add", "tree", "hex"}
           /\ c.cmd = "add" => c.a \in Nat /\ c.b \in Nat
           /\ c.cmd = "tree" => c.mult \in Nat /\ c.tree \in Nat
           /\ c.cmd = "hex" => c.in \in Payloads
<1>1. \/ c \in [cmd : {"nop"}]
      \/ c \in [cmd : {"add"}, a : Ints, b : Ints]
      \/ c \in [cmd : {"tree"}, mult : Ints, tree : Ints]
      \/ c \in [cmd : {"hex"}, in : Payloads]
    BY Zenon DEF Calls
<1>2. CASE c \in [cmd : {"nop"}]
    BY <1>2
<1>3. CASE c \in [cmd : {"add"}, a : Ints, b : Ints]
  <2>1. c.cmd = "add" /\ c.a \in Ints /\ c.b \in Ints
    BY <1>3
  <2> QED BY <2>1, JsonAssumption
<1>4. CASE c \in [cmd : {"tree"}, mult : Ints, tree : Ints]
  <2>1. c.cmd = "tree" /\ c.mult \in Ints /\ c.tree \in Ints
    BY <1>4
  <2> QED BY <2>1, JsonAssumption
<1>5. CASE c \in [cmd : {"hex"}, in : Payloads]
    BY <1>5
<1> QED BY <1>1, <1>2, <1>3, <1>4, <1>5

(* A payload is a sequence of bytes and has two hexadecimal digits for each of them. *)
LEMMA DigitsOf ==
    ASSUME NEW data \in Payloads
    PROVE  /\ data \in Seq(Nat) /\ Len(data) <= MaxHex
           /\ Digits(data) \in Seq(0..15) /\ Len(Digits(data)) = 2 * Len(data)
<1>1. PICK n \in 0..MaxHex : data \in [1..n -> Bytes]
    BY DEF Payloads
<1>2. /\ n \in Nat /\ n <= MaxHex /\ data \in Seq(Nat) /\ Len(data) = n
      /\ \A i \in 1..n : data[i] \in 0..255
  <2>1. n \in Nat /\ n <= MaxHex
      BY JsonAssumption
  <2>2. \A byte \in Bytes : byte \in 0..255
      BY JsonAssumption
  <2>3. \A i \in 1..n : data[i] \in 0..255
      BY <1>1, <2>2
  <2>4. \A byte \in Bytes : byte \in Nat
      BY <2>2
  <2>5. data \in [1..n -> Nat]
      BY <1>1, <2>4
  <2> QED BY <2>1, <2>3, <2>5
<1>3. \A i \in 1..(2 * n) : Digits(data)[i] \in 0..15
  <2> SUFFICES ASSUME NEW i \in 1..(2 * n) PROVE Digits(data)[i] \in 0..15
      OBVIOUS
  <2> DEFINE j == (i + 1) \div 2
  <2>1. j \in 1..n
      BY <1>2
  <2>2. data[j] \in 0..255
      BY <1>2, <2>1
  <2>3. data[j] \div 16 \in 0..15 /\ data[j] % 16 \in 0..15
      BY <2>2
  <2> QED BY <1>2, <2>3 DEF Digits
<1> QED BY <1>2, <1>3 DEF Digits

LEMMA AnswerOf ==
    ASSUME NEW c \in Calls
    PROVE  Answer(c) \in Seq(Nat)
<1>1. /\ c.cmd \in {"nop", "add", "tree", "hex"}
      /\ c.cmd = "add" => c.a \in Nat /\ c.b \in Nat
      /\ c.cmd = "tree" => c.mult \in Nat /\ c.tree \in Nat
      /\ c.cmd = "hex" => c.in \in Payloads
    BY CallFields
<1>2. CASE c.cmd = "nop"
    BY <1>2 DEF Answer
<1>3. CASE c.cmd = "add"
  <2>1. c.a + c.b \in Nat
    BY <1>1, <1>3
  <2> QED BY <1>3, <2>1 DEF Answer
<1>4. CASE c.cmd = "tree"
  <2>1. PICK m, t \in Nat : m = c.mult /\ t = c.tree
    BY <1>1, <1>4
  <2>2. m * t \in Nat
    OBVIOUS
  <2>3. Answer(c) = <<m * t>>
    BY <1>4, <2>1 DEF Answer
  <2> QED BY <2>2, <2>3
<1>5. CASE c.cmd = "hex"
  <2>1. Digits(c.in) \in Seq(0..15)
    BY <1>1, <1>5, DigitsOf
  <2>2. \A d \in 0..15 : d \in Nat
    OBVIOUS
  <2>3. Digits(c.in) \in Seq(Nat)
    BY <2>1, <2>2
  <2> QED BY <1>5, <2>3 DEF Answer
<1> QED BY <1>1, <1>2, <1>3, <1>4, <1>5

(* A nil payload does not travel; any other does. *)
LEMMA SentFields ==
    ASSUME NEW c \in Calls,
           NEW m, m = Encode([command |-> c.cmd, payload |-> Request(c)])
    PROVE  /\ m.command = c.cmd /\ "command" \in DOMAIN m
           /\ c.cmd # "nop" => "payload" \in DOMAIN m /\ m.payload = Request(c)
<1>1. CASE c.cmd = "nop"
    BY <1>1 DEF Encode, Request
<1>2. CASE c.cmd # "nop"
  <2>1. "nil" \notin DOMAIN Request(c)
    BY <1>2, CallFields DEF Request
  <2>2. Request(c) # Nil
    BY <2>1 DEF Nil
  <2> QED BY <2>2 DEF Encode
<1> QED BY <1>1, <1>2

(* So the server's msg holds the call's command, and its request if it has one. *)
LEMMA Received ==
    ASSUME IInv, NEW cmd, Receive(cmd)
    PROVE  /\ busy = TRUE /\ down = None /\ up' = None
           /\ call.cmd = cmd /\ DOMAIN msg' = {"command", "payload"}
           /\ cmd # "nop" => msg'.payload = Request(call)
<1>1. PICK m \in up : msg' = Decode(msg, m)
    BY DEF Receive
<1>2. busy = TRUE /\ down = None /\ m = Sent
    BY <1>1 DEF IInv, OwnReply, None
<1>3. /\ m.command = call.cmd /\ "command" \in DOMAIN m
      /\ call.cmd # "nop" => "payload" \in DOMAIN m /\ m.payload = Request(call)
    BY <1>2, SentFields DEF IInv, Fields, Sent
<1>4. DOMAIN msg' = {"command", "payload"} /\ msg'.command = call.cmd
      /\ (call.cmd # "nop" => msg'.payload = Request(call))
    BY <1>1, <1>3 DEF IInv, Fields, Decode
<1> QED BY <1>2, <1>4 DEF Receive

-----------------------------------------------------------------------------
LEMMA InitSatisfies == Init => IInv
<1> SUFFICES ASSUME Init PROVE IInv
    OBVIOUS
<1>1. /\ toHexIn \in Seq(Nat) /\ Len(toHexIn) <= MaxHex
      /\ toHexOut \in Seq(0..15) /\ Len(toHexOut) = 2 * MaxHex
  <2>1. MaxHex \in Nat
    BY JsonAssumption
  <2>2. toHexIn \in Seq({0}) /\ Len(toHexIn) = MaxHex
    BY <2>1 DEF Init
  <2>3. toHexOut \in Seq({0}) /\ Len(toHexOut) = 2 * MaxHex
    BY <2>1 DEF Init
  <2> QED BY <2>1, <2>2, <2>3
<1>2. call \in Calls /\ result \in Seq(Nat)
    BY DEF Init, Calls
<1>3. Fields
    BY <1>1, <1>2 DEF Init, Fields
<1>4. OwnReply
    BY DEF Init, OwnReply, Answer
<1> QED BY <1>3, <1>4 DEF IInv

LEMMA StubPreserves ==
    ASSUME IInv, (\E c \in Calls : StartCall(c)) \/ Return
    PROVE  IInv'
<1>1. ASSUME NEW c \in Calls, StartCall(c) PROVE IInv'
  <2>1. Fields'
    <3>1. DOMAIN outMsg' = {"command", "payload"} /\ busy' = TRUE /\ call' \in Calls
      BY <1>1 DEF StartCall
    <3>2. UNCHANGED <<result, clientMsg, msg, addReq, multReq, toHexIn, toHexOut>>
      BY <1>1 DEF StartCall, serverVars
    <3> QED BY <3>1, <3>2 DEF IInv, Fields
  <2>2. /\ busy' = TRUE /\ down' = down /\ call' = c
        /\ up' = {Encode([command |-> c.cmd, payload |-> Request(c)])}
    BY <1>1 DEF StartCall
  <2>3. down = None
    BY <1>1 DEF IInv, OwnReply, StartCall
  <2> QED BY <2>1, <2>2, <2>3 DEF IInv, OwnReply, Sent
<1>2. CASE Return
  <2>1. PICK m \in down : IF call.cmd = "nop" THEN result' = <<>> ELSE result' = m.res
    BY <1>2 DEF Return
  <2>2. up = None /\ (call.cmd = "nop" \/ m.res = Answer(call))
    BY <2>1 DEF IInv, OwnReply, None
  <2>3. result' = Answer(call)
    BY <2>1, <2>2 DEF Answer
  <2>4. Fields'
    <3>1. DOMAIN clientMsg' = {"command", "payload"}
      BY <1>2 DEF IInv, Fields, Return, Decode
    <3>2. /\ UNCHANGED <<call, outMsg, msg, addReq, multReq, toHexIn, toHexOut>>
          /\ busy' = FALSE
      BY <1>2 DEF Return, serverVars
    <3>3. result' \in Seq(Nat)
      BY <2>3, AnswerOf DEF IInv, Fields
    <3> QED BY <3>1, <3>2, <3>3 DEF IInv, Fields
  <2> QED BY <1>2, <2>2, <2>3, <2>4 DEF IInv, OwnReply, Return, Answer
<1> QED BY <1>1, <1>2

(* The server's answers, each in structures that another call has used. *)

LEMMA ServeNopPreserves ==
    ASSUME IInv, ServeNop
    PROVE  IInv'
<1>1. call.cmd = "nop" /\ busy = TRUE /\ up' = None /\ DOMAIN msg' = {"command", "payload"}
    BY Received DEF ServeNop
<1>2. /\ UNCHANGED <<call, busy, result, outMsg, clientMsg, addReq, multReq, toHexIn, toHexOut>>
      /\ \E m : down' = {m}
    BY DEF ServeNop, clientVars
<1> QED BY <1>1, <1>2 DEF IInv, Fields, OwnReply

LEMMA ReplyOf ==
    ASSUME NEW r, down' = {[res |-> r]}, r = Answer(call),
           busy = TRUE, up' = None, UNCHANGED <<call, busy>>
    PROVE  OwnReply'
<1>1. [res |-> r].res = Answer(call')
    OBVIOUS
<1> QED BY <1>1 DEF OwnReply

LEMMA ServeAddPreserves ==
    ASSUME IInv, ServeAdd
    PROVE  IInv'
<1>1. /\ call.cmd = "add" /\ busy = TRUE /\ up' = None
      /\ DOMAIN msg' = {"command", "payload"} /\ msg'.payload = Request(call)
  <2>1. Receive("add") /\ "add" # "nop"
    BY DEF ServeAdd
  <2> QED BY <2>1, Received, Zenon
<1>2. msg'.payload = [a |-> call.a, b |-> call.b]
    BY <1>1 DEF Request
<1>3. addReq' = [a |-> call.a, b |-> call.b]
  <2>1. addReq' = Decode(addReq, [a |-> call.a, b |-> call.b]) /\ DOMAIN addReq = {"a", "b"}
    BY <1>2 DEF ServeAdd, IInv, Fields
  <2> QED BY <2>1 DEF Decode
<1>4. down' = {[res |-> <<call.a + call.b>>]}
    BY <1>3 DEF ServeAdd
<1>5. Answer(call) = <<call.a + call.b>>
    BY <1>1 DEF Answer
<1>6. UNCHANGED <<call, busy, result, outMsg, clientMsg, multReq, toHexIn, toHexOut>>
    BY DEF ServeAdd, clientVars
<1>7. addReq' \in [a : Nat, b : Nat]
  <2>1. call.a \in Nat /\ call.b \in Nat
    BY <1>1, CallFields DEF IInv, Fields
  <2> QED BY <1>3, <2>1
<1>8. Fields'
    BY <1>1, <1>6, <1>7 DEF IInv, Fields
<1>9. OwnReply'
    BY <1>1, <1>4, <1>5, <1>6, ReplyOf
<1> QED BY <1>8, <1>9 DEF IInv

LEMMA ServeTreePreserves ==
    ASSUME IInv, ServeTree
    PROVE  IInv'
<1>1. /\ call.cmd = "tree" /\ busy = TRUE /\ up' = None
      /\ DOMAIN msg' = {"command", "payload"} /\ msg'.payload = Request(call)
  <2>1. Receive("tree") /\ "tree" # "nop"
    BY DEF ServeTree
  <2> QED BY <2>1, Received, Zenon
<1> DEFINE req == Decode(multReq, msg'.payload)
<1>2. msg'.payload = [mult |-> call.mult, tree |-> call.tree]
    BY <1>1 DEF Request
<1>3. req = [mult |-> call.mult, tree |-> call.tree]
  <2>1. DOMAIN multReq = {"mult", "tree"}
    BY DEF IInv, Fields
  <2> QED BY <1>2, <2>1 DEF Decode
<1>4. multReq' = [req EXCEPT !.tree = @ * req.mult] /\ down' = {[res |-> <<multReq'.tree>>]}
    BY DEF ServeTree
<1>5. multReq' = [mult |-> call.mult, tree |-> call.tree * call.mult]
    BY <1>3, <1>4
<1>6. call.tree * call.mult = call.mult * call.tree
    BY <1>1, CallFields DEF IInv, Fields
<1>7. Answer(call) = <<call.mult * call.tree>>
    BY <1>1 DEF Answer
<1>8. UNCHANGED <<call, busy, result, outMsg, clientMsg, addReq, toHexIn, toHexOut>>
    BY DEF ServeTree, clientVars
<1>9. multReq' \in [mult : Nat, tree : Nat]
  <2>1. PICK m, t \in Nat : m = call.mult /\ t = call.tree
    BY <1>1, CallFields DEF IInv, Fields
  <2>2. t * m \in Nat
    OBVIOUS
  <2> QED BY <1>5, <2>1, <2>2
<1>10. Fields'
    BY <1>1, <1>8, <1>9 DEF IInv, Fields
<1>11. OwnReply'
    BY <1>1, <1>4, <1>5, <1>6, <1>7, <1>8, ReplyOf
<1> QED BY <1>10, <1>11 DEF IInv

(* What is left of a sequence after its first l elements. *)
LEMMA RestOfSeq ==
    ASSUME NEW D, NEW s \in Seq(D), NEW l \in Nat, l <= Len(s)
    PROVE  /\ SubSeq(s, l + 1, Len(s)) \in Seq(D)
           /\ Len(SubSeq(s, l + 1, Len(s))) = Len(s) - l
<1>1. l + 1 \in Int /\ Len(s) \in Int
    BY LenProperties
<1>2. \A i \in (l + 1)..Len(s) : s[i] \in D
    BY ElementOfSeq
<1>3. /\ SubSeq(s, l + 1, Len(s)) \in Seq(D)
      /\ Len(SubSeq(s, l + 1, Len(s))) =
           IF l + 1 <= Len(s) THEN Len(s) - (l + 1) + 1 ELSE 0
    BY <1>1, <1>2, SubSeqProperties
<1>4. Len(s) - l = IF l + 1 <= Len(s) THEN Len(s) - (l + 1) + 1 ELSE 0
    BY <1>1
<1> QED BY <1>3, <1>4

(* A sequence begins with what was put in front. *)
LEMMA BeginsWith ==
    ASSUME NEW D, NEW s \in Seq(D), NEW t \in Seq(D)
    PROVE  /\ s \o t \in Seq(D) /\ SubSeq(s \o t, 1, Len(s)) = s
           /\ Len(s \o t) = Len(s) + Len(t) /\ Len(s) \in Nat
OBVIOUS

LEMMA ServeHexPreserves ==
    ASSUME IInv, ServeHex
    PROVE  IInv'
<1>1. /\ call.cmd = "hex" /\ busy = TRUE /\ up' = None
      /\ DOMAIN msg' = {"command", "payload"} /\ msg'.payload = Request(call)
  <2>1. Receive("hex") /\ "hex" # "nop"
    BY DEF ServeHex
  <2> QED BY <2>1, Received, Zenon
<1> DEFINE digits == Digits(call.in)
<1> DEFINE rest == SubSeq(toHexOut, Len(digits) + 1, Len(toHexOut))
<1>2. msg'.payload.data = call.in
    BY <1>1 DEF Request
<1>3. /\ digits \in Seq(0..15) /\ Len(digits) = 2 * Len(call.in)
      /\ call.in \in Seq(Nat) /\ Len(call.in) <= MaxHex
      /\ toHexOut \in Seq(0..15) /\ Len(toHexOut) = 2 * MaxHex
    BY <1>1, CallFields, DigitsOf DEF IInv, Fields
<1>4. toHexIn' = call.in /\ toHexOut' = digits \o rest
      /\ down' = {[res |-> SubSeq(toHexOut', 1, Len(digits))]}
    BY <1>2 DEF ServeHex
<1> HIDE DEF digits
<1>5. rest \in Seq(0..15) /\ Len(rest) = 2 * MaxHex - Len(digits)
  <2>1. PICK k, m \in Nat : k = Len(call.in) /\ m = MaxHex
    BY <1>3, JsonAssumption
  <2>2. k <= m
    BY <1>3, <2>1
  <2>3. 2 * k \in Nat /\ 2 * m \in Nat /\ 2 * k <= 2 * m
    BY <2>2
  <2>4. Len(digits) = 2 * k /\ Len(toHexOut) = 2 * m
    BY <1>3, <2>1
  <2>5. /\ Len(digits) \in Nat /\ Len(digits) <= Len(toHexOut)
        /\ Len(toHexOut) - Len(digits) = 2 * MaxHex - Len(digits)
    BY <2>1, <2>3, <2>4
  <2>6. rest \in Seq(0..15) /\ Len(rest) = Len(toHexOut) - Len(digits)
    <3>1. toHexOut \in Seq(0..15)
      BY <1>3
    <3> QED BY <2>5, <3>1, RestOfSeq, Zenon
  <2> QED BY <2>5, <2>6
<1> HIDE DEF rest
<1>6. /\ toHexOut' \in Seq(0..15) /\ Len(toHexOut') = 2 * MaxHex
      /\ SubSeq(toHexOut', 1, Len(digits)) = digits
  <2>1. PICK D : D = 0..15 /\ digits \in Seq(D) /\ rest \in Seq(D)
    BY <1>3, <1>5
  <2>2. /\ toHexOut' \in Seq(D) /\ SubSeq(toHexOut', 1, Len(digits)) = digits
        /\ Len(toHexOut') = Len(digits) + Len(rest) /\ Len(digits) \in Nat
    BY <1>4, <2>1, BeginsWith, Zenon
  <2>3. PICK k, m \in Nat : k = Len(digits) /\ m = MaxHex
    BY <2>2, JsonAssumption, Zenon
  <2>4. k + (2 * m - k) = 2 * m
    OBVIOUS
  <2> QED BY <1>5, <2>1, <2>2, <2>3, <2>4
<1>7. Answer(call) = digits
    BY <1>1 DEF Answer, digits
<1>8. UNCHANGED <<call, busy, result, outMsg, clientMsg, addReq, multReq>>
    BY DEF ServeHex, clientVars
<1>9. Fields'
    BY <1>1, <1>3, <1>4, <1>6, <1>8 DEF IInv, Fields
<1>10. OwnReply'
    BY <1>1, <1>4, <1>6, <1>7, <1>8, ReplyOf
<1> QED BY <1>9, <1>10 DEF IInv

-----------------------------------------------------------------------------
(* The theorems. *)

(* Every reachable state satisfies the inductive invariant. *)
THEOREM Invariance == Spec => []IInv
<1>1. IInv /\ UNCHANGED vars => IInv'
    BY DEF IInv, Fields, OwnReply, Sent, vars, clientVars, serverVars
<1>2. IInv /\ [Next]_vars => IInv'
    BY <1>1, StubPreserves, ServeNopPreserves, ServeAddPreserves, ServeTreePreserves,
       ServeHexPreserves DEF Next
<1> QED BY InitSatisfies, <1>2, PTL DEF Spec

(* runJsonConn and the isJson stubs of wsClient return to each call a result made
   of its own arguments, whatever calls came before it. *)
THEOREM ResultsAreOwn == Spec => []ResultIsOwn
<1>1. IInv => ResultIsOwn
    BY DEF IInv, Fields, OwnReply, ResultIsOwn
<1> QED BY Invariance, <1>1, PTL

(* Decoders that keep what a message leaves out, and the buffers that are used again,
   never change the shape of what runJsonConn and the stubs hold: toHexOutBuf keeps
   the room for the largest payload, and there is one message at most, and only
   inside a stub. *)
THEOREM TypeCorrect == Spec => []TypeOK
<1>1. IInv => TypeOK
    BY DEF IInv, Fields, OwnReply, TypeOK, None
<1> QED BY Invariance, <1>1, PTL
=============================================================================
