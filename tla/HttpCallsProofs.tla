-------------------------- MODULE HttpCallsProofs ---------------------------
(***************************************************************************)
(* What the calls of an HTTP/1 client promise for all payloads and buffers: *)
(* only a body that the write loop of a dropped connection still reads can *)
(* make a call fail, and connections are clean when they are used again.   *)
(***************************************************************************)
EXTENDS HttpCalls, TLAPS

-----------------------------------------------------------------------------
(* The inductive invariant. *)

Open == cpc \in {"post", "read", "end"}   \* a connection is at work for the call

(* What the places of caller, write loop and handler say of each other. *)
Places ==
    /\ cpc = "filled" => got = 0
    /\ wpc # "idle" => Open \/ cpc = "failed"
    /\ spc # "idle" => Open
    /\ conn = "pooled" => cpc \in {"idle", "filled"}
    /\ cpc = "end" => got = ReplyLen(call)
    /\ cpc = "read" => got < ReplyLen(call)
    /\ term = TRUE => spc = "idle"

(* Nobody takes more than the call has put into its body, or answers more than
   was taken. *)
Amounts ==
    /\ cpc = "filled" /\ call.cmd # "nop" => buf[Body(call)] <= RequestLen(call)
    /\ Open => length <= RequestLen(call)
    /\ wpc = "body" => sent + buf[Body(call)] <= length
    /\ Open /\ (spc = "last" \/ term = TRUE) => taken = length
    /\ Open /\ term = TRUE => given = Written(call, taken)

(* A body that was not shared when it was filled is not shared later in the call:
   it is written in full. *)
Unshared ==
    shared = FALSE =>
        /\ Open \/ cpc = "filled" => call.cmd = "nop" \/ Body(call) \notin stale
        /\ cpc = "filled" /\ call.cmd # "nop" => buf[Body(call)] = RequestLen(call)
        /\ Open => length = RequestLen(call)
        /\ wpc = "body" => sent < length /\ sent + buf[Body(call)] = length
        /\ cpc # "failed"

IInv == TypeOK /\ Places /\ Amounts /\ Unshared /\ PooledIsClean

-----------------------------------------------------------------------------
(* Lengths. *)

LEMMA CallTypes ==
    ASSUME NEW c \in Calls
    PROVE  /\ c.cmd \in {"nop", "add", "tree", "hex"} /\ c.n \in Nat
           /\ c.cmd = "tree" => c.n > 0
           /\ c.cmd \in {"nop", "add"} => c.n = 0
           /\ RequestLen(c) \in Nat /\ Body(c) \in Bodies
           /\ c.cmd = "nop" <=> RequestLen(c) = 0 /\ c.cmd # "hex"
<1>1. /\ c.cmd \in {"nop", "add", "tree", "hex"} /\ c.n \in Nat
      /\ c.cmd = "tree" => c.n > 0
      /\ c.cmd \in {"nop", "add"} => c.n = 0
  <2>1. CASE c \in [cmd : {"nop", "add"}, n : {0}]
    BY <2>1
  <2>2. CASE c \in [cmd : {"tree"}, n : TreeSizes]
    <3>1. c.cmd = "tree" /\ c.n \in TreeSizes
      BY <2>2
    <3>2. c.n \in Nat \ {0}
      BY <3>1, HttpCallsAssumption
    <3> QED BY <3>1, <3>2
  <2>3. CASE c \in [cmd : {"hex"}, n : HexSizes]
    BY <2>3, HttpCallsAssumption
  <2>4. \/ c \in [cmd : {"nop", "add"}, n : {0}]
        \/ c \in [cmd : {"tree"}, n : TreeSizes]
        \/ c \in [cmd : {"hex"}, n : HexSizes]
    BY Zenon DEF Calls
  <2> QED BY <2>1, <2>2, <2>3, <2>4
<1> QED BY <1>1 DEF RequestLen, Body, Bodies

(* What a handler has written grows with what it has read. *)
LEMMA WrittenGrows ==
    ASSUME NEW c \in Calls, NEW a \in Nat, NEW b \in Nat, a <= b
    PROVE  Written(c, a) \in Nat /\ Written(c, b) \in Nat /\ Written(c, a) <= Written(c, b)
<1>1. CASE c.cmd = "add"
    BY <1>1 DEF Written
<1>2. CASE c.cmd = "tree"
    BY <1>2 DEF Written
<1>3. CASE c.cmd = "hex"
    BY <1>3 DEF Written
<1>4. CASE c.cmd = "nop"
    BY <1>4 DEF Written
<1> QED BY <1>1, <1>2, <1>3, <1>4, CallTypes

(* No handler has written its whole reply before it has read its whole request. *)
LEMMA WholeReplyNeedsRequest ==
    ASSUME NEW c \in Calls, NEW a \in 0..RequestLen(c), Written(c, a) >= ReplyLen(c)
    PROVE  a = RequestLen(c)
<1>1. CASE c.cmd = "add"
    BY <1>1 DEF Written, ReplyLen, RequestLen
<1>2. CASE c.cmd = "tree"
    BY <1>2, CallTypes DEF Written, ReplyLen, RequestLen
<1>3. CASE c.cmd = "hex"
    BY <1>3, CallTypes DEF Written, ReplyLen, RequestLen
<1>4. CASE c.cmd = "nop"
    BY <1>4, CallTypes DEF RequestLen
<1> QED BY <1>1, <1>2, <1>3, <1>4, CallTypes

-----------------------------------------------------------------------------
(* Initially there is no call. *)
LEMMA InitSatisfies == Init => IInv
<1> SUFFICES ASSUME Init PROVE IInv
    OBVIOUS
<1>1. /\ ReplyLen(call) \in Nat /\ Written(call, 0) \in Nat
    BY CallTypes, WrittenGrows DEF Init, ReplyLen
<1>2. TypeOK
  <2>1. /\ buf \in [Bodies -> Nat] /\ stale \subseteq Bodies /\ call \in Calls
        /\ got = 0 /\ given = 0 /\ taken = 0 /\ length = 0 /\ sent = 0
    BY DEF Init
  <2>2. got \in 0..ReplyLen(call) /\ given \in 0..Written(call, taken)
    BY <1>1, <2>1
  <2>3. sent \in 0..length /\ taken \in 0..sent /\ length \in Nat /\ got <= given
    BY <2>1
  <2> QED BY <2>1, <2>2, <2>3 DEF Init, TypeOK
<1>3. Places /\ Amounts /\ Unshared /\ PooledIsClean
    BY DEF Init, Places, Amounts, Unshared, PooledIsClean, Open
<1> QED BY <1>2, <1>3 DEF IInv

(* What the actions may take for granted of lengths. *)
LEMMA Lengths ==
    ASSUME IInv
    PROVE  /\ RequestLen(call) \in Nat /\ ReplyLen(call) \in Nat
           /\ Written(call, taken) \in Nat
           /\ Open => Written(call, taken) <= ReplyLen(call)
           /\ Open /\ given >= ReplyLen(call) => taken = RequestLen(call)
<1> USE DEF IInv, TypeOK
<1>1. RequestLen(call) \in Nat /\ taken \in Nat /\ (Open => taken <= RequestLen(call))
    BY CallTypes DEF Amounts
<1>2. ReplyLen(call) \in Nat /\ Written(call, taken) \in Nat
    BY <1>1, WrittenGrows DEF ReplyLen
<1>3. Open => Written(call, taken) <= ReplyLen(call)
    BY <1>1, WrittenGrows DEF ReplyLen
<1>4. Open /\ given >= ReplyLen(call) => taken = RequestLen(call)
  <2> SUFFICES ASSUME Open, given >= ReplyLen(call) PROVE taken = RequestLen(call)
      OBVIOUS
  <2>1. given \in Nat /\ given <= Written(call, taken)
      BY <1>2 DEF Open
  <2>2. Written(call, taken) >= ReplyLen(call)
      BY <1>2, <2>1
  <2> QED BY <1>1, <2>2, WholeReplyNeedsRequest
<1> QED BY <1>1, <1>2, <1>3, <1>4

-----------------------------------------------------------------------------
(* The caller. *)

LEMMA StartCallPreserves ==
    ASSUME IInv, NEW c \in Calls, StartCall(c)
    PROVE  IInv'
<1> USE DEF StartCall, Open, writeVars, serveVars
<1>1. /\ RequestLen(c) \in Nat /\ ReplyLen(c) \in Nat /\ Body(c) \in Bodies
    BY CallTypes, WrittenGrows DEF ReplyLen
<1>2. TypeOK'
    BY <1>1 DEF IInv, TypeOK
<1>3. Places' /\ PooledIsClean'
    BY DEF IInv, TypeOK, Places, PooledIsClean, Arriving
<1>4. c.cmd # "nop" => buf'[Body(c)] = RequestLen(c)
    BY <1>1 DEF IInv, TypeOK
<1>5. wpc = "idle" /\ cpc' = "filled" /\ call' = c /\ wpc' = wpc
    BY DEF IInv, TypeOK, Places
<1>6. Amounts'
    BY <1>1, <1>4, <1>5 DEF Amounts
<1>7. Unshared'
    BY <1>1, <1>4, <1>5 DEF Unshared
<1> QED BY <1>2, <1>3, <1>6, <1>7 DEF IInv

LEMMA PostPreserves ==
    ASSUME IInv, Post
    PROVE  IInv'
<1> USE DEF Post, Open, bodyVars
<1>1. /\ RequestLen(call) \in Nat /\ ReplyLen(call) \in Nat /\ Written(call, 0) \in Nat
      /\ Body(call) \in Bodies
      /\ call.cmd = "nop" => RequestLen(call) = 0
    BY CallTypes, WrittenGrows DEF IInv, TypeOK, ReplyLen
<1>2. TypeOK'
  <2>1. length' \in Nat /\ sent' \in 0..length' /\ taken' \in 0..sent'
    BY <1>1 DEF IInv, TypeOK
  <2>2. got' \in 0..ReplyLen(call') /\ got' = 0
    BY DEF IInv, TypeOK, Places
  <2>3. given' \in 0..Written(call', taken') /\ given' = 0
    BY <1>1
  <2>4. /\ call' \in Calls /\ got' <= given'
        /\ buf' \in [Bodies -> Nat] /\ stale' \subseteq Bodies
        /\ shared' \in BOOLEAN
    BY <2>2, <2>3 DEF IInv, TypeOK
  <2>5. /\ wpc' \in {"idle", "body", "extra"} /\ spc' = "serve"
        /\ cpc' = "post" /\ conn' = "busy"
        /\ head' = FALSE /\ chunked' = FALSE /\ term' = FALSE
    OBVIOUS
  <2> QED BY <2>1, <2>2, <2>3, <2>4, <2>5 DEF TypeOK
<1>3. Places' /\ PooledIsClean'
    BY DEF IInv, TypeOK, Places, PooledIsClean
<1>4. Amounts'
    BY <1>1 DEF IInv, TypeOK, Amounts
<1>5. Unshared'
    BY <1>1 DEF IInv, TypeOK, Unshared
<1> QED BY <1>2, <1>3, <1>4, <1>5 DEF IInv

LEMMA ReadPreserves ==
    ASSUME IInv, Posted \/ ReadReply
    PROVE  IInv'
<1> USE DEF Posted, ReadReply, Ready, Open, bodyVars, writeVars, serveVars
<1>1. ReplyLen(call) \in Nat /\ Written(call, taken) \in Nat /\ Written(call, taken) <= ReplyLen(call)
    BY Lengths
<1>2. TypeOK'
    BY <1>1 DEF IInv, TypeOK
<1>3. Places' /\ PooledIsClean'
    BY <1>1 DEF IInv, TypeOK, Places, PooledIsClean
<1>4. Amounts' /\ Unshared'
    BY DEF IInv, TypeOK, Amounts, Unshared
<1> QED BY <1>2, <1>3, <1>4 DEF IInv

(* Only the reply of a request that was cut short can be too short. *)
LEMMA ReplyCutPreserves ==
    ASSUME IInv, ReplyCut
    PROVE  IInv'
<1> USE DEF ReplyCut, Open, bodyVars, writeVars, serveVars
<1>1. shared = TRUE
  <2> SUFFICES ASSUME shared = FALSE PROVE FALSE
      BY DEF IInv, TypeOK
  <2>1. taken = RequestLen(call) /\ given = Written(call, taken)
      BY DEF IInv, TypeOK, Amounts, Unshared
  <2>2. given = ReplyLen(call)
      BY <2>1 DEF ReplyLen
  <2> QED BY <2>2, Lengths DEF IInv, TypeOK, Places, Ready
<1>2. TypeOK'
    BY DEF IInv, TypeOK
<1>3. Places' /\ PooledIsClean'
    BY DEF IInv, TypeOK, Places, PooledIsClean
<1>4. Amounts' /\ Unshared'
    BY <1>1 DEF IInv, TypeOK, Amounts, Unshared
<1> QED BY <1>2, <1>3, <1>4 DEF IInv

(* A connection that is pooled has been read to the end in both directions; one
   that is dropped takes the body with it. *)
LEMMA EndPreserves ==
    ASSUME IInv, EndSeen \/ CloseEarly
    PROVE  IInv'
<1> USE DEF EndSeen, CloseEarly, Drop, Open, bodyVars, writeVars, serveVars
<1>1. /\ ReplyLen(call) \in Nat /\ Written(call, taken) \in Nat /\ Body(call) \in Bodies
      /\ Written(call, taken) <= ReplyLen(call)
      /\ given >= ReplyLen(call) => taken = RequestLen(call)
    BY Lengths, CallTypes DEF IInv, TypeOK
<1>2. got = ReplyLen(call) /\ got <= given /\ given <= Written(call, taken)
    BY <1>1 DEF IInv, TypeOK, Places
<1>3. given = got /\ taken = RequestLen(call)
    BY <1>1, <1>2 DEF IInv, TypeOK
<1>4. TypeOK'
    BY <1>1 DEF IInv, TypeOK
<1>5. Places'
    BY DEF IInv, TypeOK, Places
<1>6. PooledIsClean'
  <2>1. CASE conn' = "pooled"
    <3>1. term = TRUE /\ wpc = "idle" /\ UNCHANGED <<wpc, spc, sent, taken, given, got, call>>
      BY <2>1
    <3>2. taken = length /\ spc = "idle"
      BY <3>1 DEF IInv, Places, Amounts
    <3>3. sent = taken
      BY <3>2 DEF IInv, TypeOK
    <3> QED BY <1>1, <1>3, <3>1, <3>2, <3>3 DEF IInv, TypeOK, PooledIsClean, Arriving, Ready
  <2> QED BY <2>1 DEF PooledIsClean
<1>7. Amounts' /\ Unshared'
    BY DEF IInv, TypeOK, Amounts, Unshared, Places
<1> QED BY <1>4, <1>5, <1>6, <1>7 DEF IInv

-----------------------------------------------------------------------------
(* The write loops.  One that was dropped may take what the caller has put into a
   shared body; nobody else's. *)

LEMMA WriteSomePreserves ==
    ASSUME IInv, WriteSome
    PROVE  IInv'
<1> USE DEF WriteSome, Open, callVars, serveVars
<1> DEFINE b == Body(call)
<1>1. PICK k \in 1..buf[b] : /\ buf' = [buf EXCEPT ![b] = @ - k]
                             /\ sent' = sent + k
    OBVIOUS
<1>2. b \in Bodies /\ buf[b] \in Nat /\ buf'[b] = buf[b] - k
      /\ buf' \in [Bodies -> Nat]
    BY <1>1, CallTypes DEF IInv, TypeOK
<1>3. sent \in Nat /\ length \in Nat /\ sent + buf[b] <= length
    BY DEF IInv, TypeOK, Amounts
<1>4. sent' \in 0..length /\ sent <= sent' /\ sent' + buf'[b] = sent + buf[b]
    BY <1>1, <1>2, <1>3
<1>5. TypeOK'
    BY <1>2, <1>4 DEF IInv, TypeOK
<1>6. Places' /\ PooledIsClean'
    BY DEF IInv, TypeOK, Places, PooledIsClean
<1>7. Amounts'
    BY <1>2, <1>3, <1>4 DEF IInv, TypeOK, Places, Amounts
<1>8. Unshared'
    BY <1>2, <1>3, <1>4 DEF IInv, TypeOK, Places, Unshared
<1> QED BY <1>5, <1>6, <1>7, <1>8 DEF IInv

LEMMA WriteShortPreserves ==
    ASSUME IInv, WriteShort
    PROVE  IInv'
<1> USE DEF WriteShort, Open, bodyVars
<1>1. shared = TRUE
  <2>1. sent \in Nat /\ length \in Nat
    BY DEF IInv, TypeOK
  <2> QED BY <2>1 DEF IInv, TypeOK, Unshared
<1>2. TypeOK'
    BY DEF IInv, TypeOK, Places
<1>3. Places' /\ PooledIsClean'
    BY DEF IInv, TypeOK, Places, PooledIsClean
<1>4. Amounts' /\ Unshared'
    BY <1>1 DEF IInv, TypeOK, Amounts, Unshared
<1> QED BY <1>2, <1>3, <1>4 DEF IInv

LEMMA WriteEndsPreserves ==
    ASSUME IInv, WriteEnds
    PROVE  IInv'
BY DEF WriteEnds, IInv, TypeOK, Places, Amounts, Unshared, PooledIsClean, Open, Arriving, Ready,
       callVars, bodyVars, serveVars

LEMMA StaleReadPreserves ==
    ASSUME IInv, NEW b \in Bodies, StaleRead(b)
    PROVE  IInv'
<1> USE DEF StaleRead, Open, callVars, writeVars, serveVars
<1>1. PICK k \in 0..buf[b] : buf' = [buf EXCEPT ![b] = @ - k]
    OBVIOUS
<1>2. /\ buf' \in [Bodies -> Nat] /\ buf \in [Bodies -> Nat]
      /\ \A d \in Bodies : buf'[d] <= buf[d] /\ (d \notin stale => buf'[d] = buf[d])
    BY <1>1 DEF IInv, TypeOK
<1>3. Body(call) \in Bodies /\ RequestLen(call) \in Nat
      /\ (call.cmd = "nop" => RequestLen(call) = 0)
    BY CallTypes DEF IInv, TypeOK
<1>4. TypeOK'
    BY <1>2 DEF IInv, TypeOK
<1>5. Places' /\ PooledIsClean'
    BY DEF IInv, TypeOK, Places, PooledIsClean, Arriving, Ready
<1>6. Amounts'
    BY <1>2, <1>3 DEF IInv, TypeOK, Amounts
<1>7. Unshared'
  <2>1. CASE shared = FALSE /\ wpc = "body"
    <3>1. Open /\ sent < length /\ length = RequestLen(call) /\ sent \in Nat
      BY <2>1 DEF IInv, TypeOK, Places, Unshared
    <3>2. Body(call) \notin stale
      BY <1>3, <2>1, <3>1 DEF IInv, Unshared
    <3> QED BY <1>2, <1>3, <2>1, <3>1, <3>2 DEF IInv, Unshared
  <2>2. CASE ~(shared = FALSE /\ wpc = "body")
    BY <1>2, <1>3, <2>2 DEF IInv, Unshared
  <2> QED BY <2>1, <2>2
<1> QED BY <1>4, <1>5, <1>6, <1>7 DEF IInv

-----------------------------------------------------------------------------
(* The handlers. *)

LEMMA HandleReadPreserves ==
    ASSUME IInv, HandleRead
    PROVE  IInv'
<1> USE DEF HandleRead, Arriving, Open, callVars, bodyVars, writeVars
<1>1. PICK k \in 0..Arriving : taken' = taken + k
    OBVIOUS
<1>2. sent \in Nat /\ taken \in 0..sent /\ taken' \in 0..sent /\ taken <= taken'
    BY <1>1 DEF IInv, TypeOK
<1>3. /\ Written(call, taken) \in Nat /\ Written(call, taken') \in Nat
      /\ Written(call, taken) <= Written(call, taken')
    BY <1>2, WrittenGrows DEF IInv, TypeOK
<1>4. term = FALSE /\ cpc \in {"post", "read", "end"}
    BY DEF IInv, TypeOK, Places
<1>5. TypeOK'
  <2>1. given' \in 0..Written(call', taken')
    BY <1>3, <1>4 DEF IInv, TypeOK
  <2>2. chunked' \in BOOLEAN /\ spc' \in {"idle", "serve", "write", "last"}
    BY DEF IInv, TypeOK
  <2> QED BY <1>2, <2>1, <2>2 DEF IInv, TypeOK
<1>6. Places' /\ PooledIsClean'
    BY <1>4 DEF IInv, TypeOK, Places, PooledIsClean
<1>7. spc' = "last" => taken' = length'
    OBVIOUS
<1>8. Amounts' /\ Unshared'
    BY <1>4, <1>7 DEF IInv, Amounts, Unshared
<1> QED BY <1>5, <1>6, <1>8 DEF IInv

LEMMA HandleWritePreserves ==
    ASSUME IInv, HandleWrite
    PROVE  IInv'
<1> USE DEF HandleWrite, Ready, Open, callVars, bodyVars, writeVars
<1>1. PICK k \in 0..(Written(call, taken) - given) :
        /\ given' = given + k
        /\ IF spc = "last" /\ k = Written(call, taken) - given /\ (k = 0 \/ ~chunked)
             THEN term' = TRUE /\ spc' = "idle"
             ELSE /\ UNCHANGED term
                  /\ spc' = IF k = Written(call, taken) - given /\ spc = "write" THEN "serve" ELSE spc
    OBVIOUS
<1>2. cpc \in {"post", "read", "end"} /\ term = FALSE
    BY DEF IInv, TypeOK, Places
<1>3. Written(call, taken) \in Nat /\ given \in 0..Written(call, taken)
    BY <1>2, Lengths DEF IInv, TypeOK
<1>4. given' \in 0..Written(call, taken) /\ given <= given'
      /\ (k = Written(call, taken) - given => given' = Written(call, taken))
    BY <1>1, <1>3
<1>5. TypeOK'
  <2>1. got <= given' /\ got \in 0..ReplyLen(call)
    BY <1>3, <1>4, Lengths DEF IInv, TypeOK
  <2>2. spc' \in {"idle", "serve", "write", "last"} /\ term' \in BOOLEAN /\ head' = TRUE
    BY <1>1, <1>2
  <2> QED BY <1>4, <2>1, <2>2 DEF IInv, TypeOK
<1>6. Places' /\ PooledIsClean'
    BY <1>1, <1>2 DEF IInv, TypeOK, Places, PooledIsClean
<1>7. Amounts' /\ Unshared'
    BY <1>1, <1>2, <1>4 DEF IInv, Amounts, Unshared
<1> QED BY <1>5, <1>6, <1>7 DEF IInv

LEMMA StutterPreserves ==
    ASSUME IInv, UNCHANGED vars
    PROVE  IInv'
BY DEF IInv, TypeOK, Places, Amounts, Unshared, PooledIsClean, Open, Arriving, Ready,
       vars, callVars, bodyVars, writeVars, serveVars

-----------------------------------------------------------------------------
(* The theorems. *)

(* Every reachable state satisfies the inductive invariant. *)
THEOREM Invariance == Spec => []IInv
<1>1. IInv /\ [Next]_vars => IInv'
    BY StartCallPreserves, PostPreserves, ReadPreserves, ReplyCutPreserves, EndPreserves,
       WriteSomePreserves, WriteShortPreserves, WriteEndsPreserves, StaleReadPreserves,
       HandleReadPreserves, HandleWritePreserves, StutterPreserves
       DEF Next, CallerStep, WriteStep, HandlerStep
<1> QED BY InitSatisfies, <1>1, PTL DEF Spec

(* Nobody reads what was not written, or writes what was not there, for all
   payloads and buffers and however the two directions overlap. *)
THEOREM NobodyGetsAhead == Spec => []TypeOK
<1>1. IInv => TypeOK
    BY DEF IInv
<1> QED BY Invariance, <1>1, PTL

(* What http1_client.go leaves of a call on a connection that is used again:
   nothing, though it closes replies without reading them to their end. *)
THEOREM PooledConnectionsAreClean == Spec => []PooledIsClean
<1>1. IInv => PooledIsClean
    BY DEF IInv
<1> QED BY Invariance, <1>1, PTL

(* The reuse of bodyWriter and bodyReader is the only thing in the client and the
   handlers that can make a call fail. *)
THEOREM OnlySharingFails == Spec => []FailsOnlyIfShared
<1>1. IInv => FailsOnlyIfShared
    BY DEF IInv, TypeOK, Unshared, FailsOnlyIfShared
<1> QED BY Invariance, <1>1, PTL
=============================================================================
