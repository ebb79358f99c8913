---------------------------- MODULE WsConnProofs ----------------------------
(***************************************************************************)
(* What one websocket connection promises for frames, payloads and buffers *)
(* of every size: both ends agree on where messages end, whatever frames   *)
(* the replies are cut into, the connection implements RpcQueue, and no    *)
(* call that the buffers can hold gets stuck.                              *)
(*                                                                         *)
(* The argument is bookkeeping: every unit of a request is not written     *)
(* yet, in a frame on its way, or what the server still wants to read; and *)
(* every unit of a reply is still ahead, on its way, or has been read.     *)
(* That frames are full but for the last one of a message bounds what the  *)
(* headers take of the socket buffers.                                     *)
(***************************************************************************)
EXTENDS WsConn, SequenceTheorems, TLAPS

Frame == [len : Nat, fin : BOOLEAN]

Directions ==
    [frames : Seq(Frame), unsent : Nat, here : Nat, rem : Nat, fin : BOOLEAN]

(* The lengths of frames i, i + 1, ... together. *)
RestOf(frames) ==
    {R \in [1..(Len(frames) + 1) -> Nat] :
        /\ R[Len(frames) + 1] = 0
        /\ \A i \in 1..Len(frames) : R[i] = frames[i].len + R[i + 1]}

(* Direction d is well-formed and has p units in frames whose header was not read:
   what was sent or is being sent are these frames and what is left of another. *)
Holds(d, p) ==
    /\ d \in Directions /\ d.here <= NetBuf
    /\ \E R \in RestOf(d.frames) : R[1] = p
    /\ d.here + d.unsent = p + Len(d.frames) + d.rem

-----------------------------------------------------------------------------
(* The inductive invariant. *)

(* The server has not read the command of the client's call; or has, and the
   message of the reply has not been closed. *)
Unread == job = NoCall /\ (spc = "cmd" \/ toWrite > 0 \/ up.frames # <<>>)
Open == job # NoCall \/ Unread

(* Units of the request the server has still to read. *)
Demand ==
    IF Unread THEN RequestLen(call) ELSE IF job = NoCall THEN 0 ELSE hdr + left

(* Units of the reply that are not in a frame yet. *)
Future ==
    CASE job.cmd = "tree" -> left
      [] job.cmd = "hex"  -> 2 * left
      [] OTHER            -> IF spc = "int" THEN 1 ELSE 0

Ahead ==
    IF Unread THEN ReplyLen(call) ELSE IF job = NoCall THEN 0 ELSE sw + out + Future

Books ==
    \E p, q \in Nat :
        /\ Holds(up, p) /\ toWrite + p + up.rem = Demand
        /\ Holds(down, q) /\ toRead = down.rem + q + Ahead

(* The client's side. *)
Client ==
    /\ cpc \in {"idle", "fill", "flush", "next", "read"}
    /\ call \in Calls /\ toWrite \in Nat /\ toRead \in Nat
    /\ cpc = "fill" <=> toWrite > 0 /\ up.unsent = 0
    /\ cpc = "flush" <=> up.unsent > 0
    /\ cpc = "read" => toRead > 0
    /\ cpc \in {"fill", "flush", "next"} => toRead = ReplyLen(call)
    /\ cpc = "idle" => toRead = 0 /\ ~Open /\ down = Quiet
    /\ Unread => cpc \in {"fill", "flush", "next"} /\ down = Quiet

(* The server's side. *)
Server ==
    /\ spc \in {"next", "cmd", "int", "val", "hex", "put", "drain", "close"}
    /\ hdr \in 0..2 /\ left \in Nat /\ out \in Nat /\ sw \in 0..ServerFrame
    /\ IF job = NoCall
         THEN spc \in {"next", "cmd", "drain"} /\ sw = 0 /\ out = 0
         ELSE job = call /\ spc \notin {"next", "cmd"}
    /\ job.cmd \in {"nop", "add"} => left = 0
    /\ IF spc = "int" THEN hdr > 0 /\ job.cmd # "nop" ELSE job # NoCall => hdr = 0
    /\ spc \notin {"put", "drain"} => out = 0
    /\ spc = "val" => left > 0 /\ job.cmd = "tree"
    /\ spc = "hex" => left > 0 /\ job.cmd = "hex"
    /\ spc = "close" => left = 0
    /\ spc # "drain" => down.unsent = 0

(* Where messages end. *)
Framing ==
    /\ \A i \in 1..Len(up.frames) :
          up.frames[i].len > 0 /\ (up.frames[i].fin <=> i = Len(up.frames) /\ toWrite = 0)
    /\ IF job = NoCall /\ spc # "cmd" THEN up.fin = TRUE /\ up.rem = 0
       ELSE up.fin <=> up.frames = <<>> /\ toWrite = 0
    /\ \A i \in 1..Len(down.frames) :
          /\ down.frames[i].fin <=> i = Len(down.frames) /\ ~Open
          /\ down.frames[i].len = 0 => down.frames[i].fin /\ ReplyLen(call) = 0
    /\ IF cpc = "read" THEN ReplyLen(call) > 0 /\ (down.fin <=> down.frames = <<>> /\ ~Open)
                       ELSE down.fin = TRUE /\ down.rem = 0
    /\ Open /\ ReplyLen(call) > 0 => Ahead > 0

IInv == Books /\ Client /\ Server /\ Framing

-----------------------------------------------------------------------------
(* Calls and what they are long. *)

LEMMA CallCases ==
    ASSUME NEW c \in Calls
    PROVE  /\ c # NoCall /\ c.n \in Nat
           /\ \/ c.cmd = "nop" /\ c.n = 0
              \/ c.cmd = "add" /\ c.n = 0
              \/ c.cmd = "tree" /\ c.n > 0
              \/ c.cmd = "hex"
<1>1. \/ c \in [cmd : {"nop", "add"}, n : {0}]
      \/ c \in [cmd : {"tree"}, n : TreeSizes]
      \/ c \in [cmd : {"hex"}, n : HexSizes]
    BY Zenon DEF Calls
<1>2. HexSizes \subseteq Nat /\ TreeSizes \subseteq Nat \ {0}
    BY WsAssumption
<1>3. CASE c \in [cmd : {"nop", "add"}, n : {0}]
  <2>1. c.cmd \in {"nop", "add"} /\ c.n = 0 /\ c # NoCall
    BY <1>3 DEF NoCall
  <2>2. c.n \in Nat
    BY <2>1
  <2> QED BY <2>1, <2>2
<1>4. CASE c \in [cmd : {"tree"}, n : TreeSizes]
  <2>1. c.cmd = "tree" /\ c.n \in TreeSizes
    BY <1>4
  <2>2. c.n \in Nat \ {0}
    BY <1>2, <2>1
  <2>3. c # NoCall /\ c.n \in Nat /\ c.n > 0
    BY <2>1, <2>2 DEF NoCall
  <2> QED BY <2>1, <2>3
<1>5. CASE c \in [cmd : {"hex"}, n : HexSizes]
  <2>1. c.cmd = "hex" /\ c.n \in HexSizes
    BY <1>5
  <2>2. c.n \in Nat
    BY <1>2, <2>1
  <2>3. c # NoCall
    BY <2>1 DEF NoCall
  <2> QED BY <2>1, <2>2, <2>3
<1> QED BY <1>1, <1>3, <1>4, <1>5, Zenon

LEMMA CallLengths ==
    ASSUME NEW c \in Calls
    PROVE  /\ HeaderInts(c) \in 0..2 /\ RequestLen(c) = 1 + HeaderInts(c) + c.n
           /\ HeaderInts(c) = 0 <=> c.cmd = "nop"
           /\ RequestLen(c) \in Nat \ {0} /\ ReplyLen(c) \in Nat
           /\ c.cmd \in {"nop", "add"} => ReplyLen(c) = 1
           /\ c.cmd = "tree" => ReplyLen(c) = c.n
           /\ c.cmd = "hex" => ReplyLen(c) = 2 * c.n
<1>1. c.n \in Nat /\ c.cmd \in {"nop", "add", "tree", "hex"}
    BY CallCases
<1>2. HeaderInts(c) \in 0..2 /\ (HeaderInts(c) = 0 <=> c.cmd = "nop")
    BY <1>1 DEF HeaderInts
<1>3. RequestLen(c) = 1 + HeaderInts(c) + c.n /\ RequestLen(c) \in Nat \ {0}
    BY <1>1, <1>2 DEF RequestLen
<1> QED BY <1>1, <1>2, <1>3 DEF ReplyLen

LEMMA LesserOf ==
    ASSUME NEW i \in Int, NEW j \in Int
    PROVE  Lesser(i, j) \in Int /\ Lesser(i, j) <= i /\ Lesser(i, j) <= j
           /\ (Lesser(i, j) = i \/ Lesser(i, j) = j)
BY DEF Lesser

LEMMA Bounds ==
    /\ HexBuf \in Nat \ {0} /\ ClientFrame \in Nat \ {0}
    /\ ServerFrame \in Nat \ {0} /\ NetBuf \in Nat \ {0}
BY WsAssumption

(* What is owed of a reply beyond the frames is an amount. *)
LEMMA AheadIsNat ==
    ASSUME IInv
    PROVE  Ahead \in Nat
<1>1. call \in Calls /\ left \in Nat /\ out \in Nat /\ sw \in 0..ServerFrame
    BY DEF IInv, Client, Server
<1>2. ReplyLen(call) \in Nat
    BY <1>1, CallLengths
<1>3. sw \in Nat
    BY <1>1, Bounds
<1>4. Future \in Nat
    BY <1>1 DEF Future
<1>5. sw + out + Future \in Nat
    BY <1>1, <1>3, <1>4
<1> QED BY <1>2, <1>5 DEF Ahead

-----------------------------------------------------------------------------
(* What the operations on a direction do to what it holds. *)

LEMMA EmptyOrNot ==
    ASSUME NEW S, NEW s \in Seq(S)
    PROVE  s = <<>> <=> Len(s) = 0
BY EmptySeq

LEMMA SendBooks ==
    ASSUME NEW h \in Nat, NEW p \in Nat, NEW m \in Nat, NEW r \in Nat, NEW n \in Nat,
           h + 0 = p + m + r
    PROVE  h + (n + 1) = (p + n) + (m + 1) + r
OBVIOUS

LEMMA HoldsType ==
    ASSUME NEW d, NEW p, Holds(d, p)
    PROVE  /\ d \in Directions /\ d.frames \in Seq(Frame) /\ Len(d.frames) \in Nat
           /\ d.unsent \in Nat /\ d.here \in 0..NetBuf /\ d.rem \in Nat /\ d.fin \in BOOLEAN
           /\ \A i \in 1..Len(d.frames) : /\ d.frames[i] \in Frame
                                          /\ d.frames[i].len \in Nat /\ d.frames[i].fin \in BOOLEAN
           /\ p \in Nat
           /\ d.here + d.unsent = p + Len(d.frames) + d.rem
<1>1. /\ d \in Directions /\ d.frames \in Seq(Frame) /\ Len(d.frames) \in Nat
      /\ d.unsent \in Nat /\ d.here \in Nat /\ d.rem \in Nat /\ d.fin \in BOOLEAN
    BY DEF Holds, Directions
<1>2. d.here \in 0..NetBuf
    BY <1>1, Bounds DEF Holds
<1>3. \A i \in 1..Len(d.frames) : d.frames[i] \in Frame
    BY <1>1
<1>4. \A f \in Frame : f.len \in Nat /\ f.fin \in BOOLEAN
    BY DEF Frame
<1>5. p \in Nat
    BY <1>1 DEF Holds, RestOf
<1>6. d.here + d.unsent = p + Len(d.frames) + d.rem
    BY DEF Holds
<1> QED BY <1>1, <1>2, <1>3, <1>4, <1>5, <1>6

LEMMA IsQuiet ==
    ASSUME NEW d \in Directions, d.frames = <<>>, d.unsent = 0, d.here = 0, d.rem = 0,
           d.fin = TRUE
    PROVE  d = Quiet
BY DEF Directions, Quiet

LEMMA QuietHolds == Holds(Quiet, 0)
<1>1. <<>> \in Seq(Frame)
    BY EmptySeq
<1>2. Quiet \in Directions
    BY <1>1 DEF Quiet, Directions
<1>3. Quiet.frames = <<>> /\ Quiet.here = 0 /\ Quiet.unsent = 0 /\ Quiet.rem = 0
    BY DEF Quiet
<1>4. [i \in 1..1 |-> 0] \in RestOf(<<>>)
    BY DEF RestOf
<1> QED BY <1>2, <1>3, <1>4, Bounds DEF Holds

(* A direction without frames has no units in them; one with frames that are not
   empty has some. *)
LEMMA NoFrames ==
    ASSUME NEW d, NEW p, Holds(d, p)
    PROVE  /\ d.frames = <<>> => p = 0
           /\ d.frames # <<>> => /\ 1 \in 1..Len(d.frames) /\ Head(d.frames) = d.frames[1]
                                 /\ d.frames[1].len <= p
<1>1. PICK R \in RestOf(d.frames) : R[1] = p
    BY DEF Holds
<1>2. /\ R \in [1..(Len(d.frames) + 1) -> Nat] /\ R[Len(d.frames) + 1] = 0
      /\ \A i \in 1..Len(d.frames) : R[i] = d.frames[i].len + R[i + 1]
    BY <1>1 DEF RestOf
<1>3. d.frames \in Seq(Frame) /\ Len(d.frames) \in Nat
      /\ \A i \in 1..Len(d.frames) : d.frames[i].len \in Nat
    BY HoldsType
<1>4. ASSUME d.frames = <<>> PROVE p = 0
    BY <1>1, <1>2, <1>4
<1>5. ASSUME d.frames # <<>>
      PROVE  /\ 1 \in 1..Len(d.frames) /\ Head(d.frames) = d.frames[1]
             /\ d.frames[1].len <= p
  <2>1. 1 \in 1..Len(d.frames) /\ Head(d.frames) = d.frames[1] /\ 2 \in 1..(Len(d.frames) + 1)
    BY <1>3, <1>5
  <2>2. R[1] = d.frames[1].len + R[2] /\ R[2] \in Nat
    BY <1>2, <2>1
  <2> QED BY <1>1, <1>3, <2>1, <2>2
<1> QED BY <1>4, <1>5

(* Direction e is d with a frame of n units more. *)
Sent(d, e, n, last) ==
    /\ e.rem = d.rem /\ e.fin = d.fin /\ e.unsent = n + 1
    /\ e.frames # <<>> /\ Len(e.frames) = Len(d.frames) + 1
    /\ \A i \in 1..Len(e.frames) :
          IF i = Len(e.frames)
          THEN e.frames[i].len = n /\ (e.frames[i].fin <=> last)
          ELSE i \in 1..Len(d.frames) /\ e.frames[i] = d.frames[i]

LEMMA SendFrameHolds ==
    ASSUME NEW d, NEW p \in Nat, Holds(d, p), d.unsent = 0,
           NEW n \in Nat, NEW last \in BOOLEAN,
           NEW e, e = SendFrame(d, n, last)
    PROVE  Holds(e, p + n) /\ Sent(d, e, n, last)
<1> DEFINE f == [len |-> n, fin |-> last]
           m == Len(d.frames)
<1>1. d \in Directions /\ d.frames \in Seq(Frame) /\ m \in Nat
    BY HoldsType
<1>2. f \in Frame /\ f.len = n /\ f.fin = last
    BY DEF Frame
<1>3. /\ e.frames = Append(d.frames, f) /\ e.unsent = n + 1
      /\ e.rem = d.rem /\ e.fin = d.fin /\ e.here = d.here
    BY <1>1 DEF SendFrame, Directions
<1>4. Append(d.frames, f) \in Seq(Frame) /\ Len(Append(d.frames, f)) = m + 1
      /\ Append(d.frames, f)[m + 1] = f
      /\ \A i \in 1..m : Append(d.frames, f)[i] = d.frames[i]
  <2> HIDE DEF f, Frame
  <2> QED BY <1>1, <1>2
<1>5. e \in Directions
  <2>1. e = [d EXCEPT !.frames = Append(d.frames, f), !.unsent = n + 1]
    BY DEF SendFrame
  <2>2. n + 1 \in Nat
    OBVIOUS
  <2> HIDE DEF f, Frame
  <2> QED BY <1>1, <1>4, <2>1, <2>2 DEF Directions
<1>6. \E R \in RestOf(e.frames) : R[1] = p + n
  <2>1. PICK R \in RestOf(d.frames) : R[1] = p
    BY DEF Holds
  <2>2. /\ R \in [1..(m + 1) -> Nat] /\ R[m + 1] = 0
        /\ \A i \in 1..m : R[i] = d.frames[i].len + R[i + 1]
    BY <2>1 DEF RestOf
  <2>3. \A i \in 1..m : d.frames[i].len \in Nat
    BY HoldsType
  <2> DEFINE Q == [i \in 1..(m + 2) |-> IF i = m + 2 THEN 0 ELSE R[i] + n]
  <2> HIDE DEF f, m
  <2>4. Q \in [1..(m + 2) -> Nat] /\ Q[m + 2] = 0 /\ Q[1] = p + n
    BY <1>1, <2>1, <2>2
  <2>5. ASSUME NEW i \in 1..(m + 1) PROVE Q[i] = e.frames[i].len + Q[i + 1]
    <3>1. CASE i = m + 1
      BY <1>1, <1>2, <1>3, <1>4, <2>2, <3>1
    <3>2. CASE i \in 1..m
      <4>1. R[i] = d.frames[i].len + R[i + 1] /\ R[i + 1] \in Nat /\ d.frames[i].len \in Nat
        BY <1>1, <2>2, <2>3, <3>2
      <4>2. Q[i] = R[i] + n /\ Q[i + 1] = R[i + 1] + n /\ e.frames[i] = d.frames[i]
        BY <1>1, <1>3, <1>4, <3>2
      <4> QED BY <4>1, <4>2
    <3> QED BY <1>1, <3>1, <3>2
  <2>6. Q \in RestOf(e.frames)
    <3>1. Len(e.frames) = m + 1 /\ Len(e.frames) + 1 = m + 2
      BY <1>1, <1>3, <1>4 DEF m
    <3> HIDE DEF Q
    <3> QED BY <2>4, <2>5, <3>1 DEF RestOf
  <2> QED BY <2>4, <2>6
<1>7. d.here + d.unsent = p + m + d.rem /\ d.here \in 0..NetBuf /\ d.rem \in Nat
    BY HoldsType
<1>8. e.here + e.unsent = (p + n) + Len(e.frames) + e.rem
  <2>1. Len(e.frames) = m + 1
    BY <1>3, <1>4
  <2> HIDE DEF m
  <2>2. d.here + (n + 1) = (p + n) + (m + 1) + d.rem
    <3>1. PICK h, r \in Nat : h = d.here /\ r = d.rem
      BY <1>7, Bounds
    <3>2. h + 0 = p + m + r
      BY <1>1, <1>7, <3>1
    <3>3. h + (n + 1) = (p + n) + (m + 1) + r
      BY <1>1, <3>2, SendBooks
    <3> QED BY <3>1, <3>3
  <2> QED BY <1>3, <2>1, <2>2
<1>9. e.here <= NetBuf
    BY <1>3, <1>7
<1>10. Holds(e, p + n)
    BY <1>5, <1>6, <1>8, <1>9 DEF Holds
<1>11. e.frames # <<>>
  <2>1. Len(e.frames) = m + 1 /\ m + 1 # 0
    BY <1>1, <1>3, <1>4
  <2> QED BY <2>1
<1> HIDE DEF f, m
<1>12. Len(e.frames) = m + 1 /\ e.frames[m + 1] = f /\ \A i \in 1..m : e.frames[i] = d.frames[i]
    BY <1>3, <1>4
<1>13. \A i \in 1..Len(e.frames) :
          IF i = Len(e.frames) THEN e.frames[i].len = n /\ (e.frames[i].fin <=> last)
          ELSE i \in 1..m /\ e.frames[i] = d.frames[i]
    BY <1>1, <1>2, <1>12
<1> QED BY <1>3, <1>10, <1>11, <1>12, <1>13 DEF m, Sent

LEMMA PushedHolds ==
    ASSUME NEW d, NEW p \in Nat, Holds(d, p),
           NEW k \in 1..Lesser(d.unsent, NetBuf - d.here),
           NEW e, e = Pushed(d, k)
    PROVE  /\ Holds(e, p)
           /\ k <= d.unsent /\ e.unsent = d.unsent - k
           /\ e.rem = d.rem /\ e.fin = d.fin /\ e.frames = d.frames
<1>1. /\ d \in Directions /\ d.unsent \in Nat /\ d.here \in 0..NetBuf /\ d.rem \in Nat
      /\ Len(d.frames) \in Nat /\ d.here + d.unsent = p + Len(d.frames) + d.rem
    BY HoldsType
<1>2. k \in Nat /\ k <= d.unsent /\ k <= NetBuf - d.here
    BY <1>1, Bounds, LesserOf DEF Lesser
<1>3. /\ e.here = d.here + k /\ e.unsent = d.unsent - k
      /\ e.rem = d.rem /\ e.fin = d.fin /\ e.frames = d.frames
    BY <1>1 DEF Pushed, Directions
<1>4. d.here + k \in Nat /\ d.unsent - k \in Nat /\ d.here + k <= NetBuf
  <2>1. PICK h, u, b \in Nat : h = d.here /\ u = d.unsent /\ b = NetBuf
      BY <1>1, Bounds
  <2>2. k <= u /\ k <= b - h
      BY <1>2, <2>1
  <2>3. h + k \in Nat /\ u - k \in Nat /\ h + k <= b
      BY <1>2, <2>2
  <2> QED BY <2>1, <2>3
<1>5. e \in Directions
    BY <1>1, <1>4 DEF Pushed, Directions
<1>6. e.here + e.unsent = d.here + d.unsent
    BY <1>1, <1>2, <1>3
<1> QED BY <1>1, <1>2, <1>3, <1>4, <1>5, <1>6 DEF Holds

LEMMA NextFrameHolds ==
    ASSUME NEW d, NEW p \in Nat, Holds(d, p), HasHeader(d),
           NEW e, e = NextFrame(d)
    PROVE  /\ p - e.rem \in Nat /\ Holds(e, p - e.rem)
           /\ e.rem = d.frames[1].len /\ e.fin = d.frames[1].fin /\ e.unsent = d.unsent
           /\ Len(e.frames) = Len(d.frames) - 1 /\ 1 \in 1..Len(d.frames) /\ d.rem = 0
           /\ e.frames = <<>> <=> Len(d.frames) = 1
           /\ \A i \in 1..Len(e.frames) :
                 i + 1 \in 1..Len(d.frames) /\ e.frames[i] = d.frames[i + 1]
<1> DEFINE m == Len(d.frames) - 1
           h == d.frames[1].len
<1>1. d \in Directions /\ d.frames \in Seq(Frame) /\ d.frames # <<>> /\ d.rem = 0 /\ d.here > 0
      /\ d.here \in 0..NetBuf /\ d.unsent \in Nat
    BY HoldsType DEF HasHeader
<1>2. /\ m \in Nat /\ Len(d.frames) = m + 1 /\ 1 \in 1..Len(d.frames)
      /\ Head(d.frames) = d.frames[1] /\ d.frames[1] \in Frame /\ h \in Nat /\ h <= p
      /\ d.frames[1].fin \in BOOLEAN
    BY <1>1, HoldsType, NoFrames
<1>3. /\ Tail(d.frames) \in Seq(Frame) /\ Len(Tail(d.frames)) = m
      /\ \A i \in 1..m : Tail(d.frames)[i] = d.frames[i + 1]
      /\ Tail(d.frames) = <<>> <=> m = 0
  <2> HIDE DEF Frame
  <2>1. /\ Tail(d.frames) \in Seq(Frame) /\ Len(Tail(d.frames)) = m
        /\ \A i \in 1..m : Tail(d.frames)[i] = d.frames[i + 1]
    BY <1>1
  <2>2. Tail(d.frames) = <<>> <=> Len(Tail(d.frames)) = 0
    BY <2>1, EmptyOrNot
  <2> QED BY <2>1, <2>2
<1>4. /\ e.frames = Tail(d.frames) /\ e.here = d.here - 1 /\ e.unsent = d.unsent
      /\ e.rem = h /\ e.fin = d.frames[1].fin
    BY <1>1, <1>2 DEF NextFrame, Directions
<1>5. d.here - 1 \in Nat
    BY <1>1, Bounds
<1> HIDE DEF h, m
<1>6. e \in Directions
  <2>1. e = [d EXCEPT !.frames = Tail(d.frames), !.here = d.here - 1, !.rem = h,
                      !.fin = d.frames[1].fin]
    BY <1>2 DEF NextFrame, h
  <2> QED BY <1>1, <1>2, <1>3, <1>5, <2>1 DEF Directions
<1>7. \E R \in RestOf(e.frames) : R[1] = p - h
  <2>1. PICK R \in RestOf(d.frames) : R[1] = p
    BY DEF Holds
  <2>2. /\ R \in [1..(m + 2) -> Nat] /\ R[m + 2] = 0
        /\ \A i \in 1..(m + 1) : R[i] = d.frames[i].len + R[i + 1]
    <3>1. /\ R \in [1..(Len(d.frames) + 1) -> Nat] /\ R[Len(d.frames) + 1] = 0
          /\ \A i \in 1..Len(d.frames) : R[i] = d.frames[i].len + R[i + 1]
      BY <2>1 DEF RestOf
    <3>2. Len(d.frames) = m + 1 /\ Len(d.frames) + 1 = m + 2
      BY <1>2
    <3> QED BY <3>1, <3>2
  <2> DEFINE Q == [i \in 1..(m + 1) |-> R[i + 1]]
  <2>3. Q \in [1..(m + 1) -> Nat] /\ Q[m + 1] = 0
    BY <1>2, <2>2
  <2>4. Q[1] = p - h
    <3>1. p = h + R[2] /\ R[2] \in Nat
      BY <1>2, <2>1, <2>2 DEF h
    <3>2. Q[1] = R[2]
      BY <1>2
    <3> QED BY <1>2, <3>1, <3>2
  <2>5. ASSUME NEW i \in 1..m PROVE Q[i] = e.frames[i].len + Q[i + 1]
    <3>1. i + 1 \in 1..(m + 1) /\ i \in 1..(m + 1)
      BY <1>2
    <3>2. Q[i] = R[i + 1] /\ Q[i + 1] = R[(i + 1) + 1] /\ e.frames[i] = d.frames[i + 1]
      BY <1>3, <1>4, <3>1
    <3> QED BY <2>2, <3>1, <3>2
  <2>6. Q \in RestOf(e.frames)
    <3>1. Len(e.frames) = m
      BY <1>3, <1>4
    <3> HIDE DEF Q
    <3> QED BY <2>3, <2>5, <3>1 DEF RestOf
  <2> QED BY <2>4, <2>6
<1>8. e.here + e.unsent = (p - h) + Len(e.frames) + e.rem
  <2>1. d.here + d.unsent = p + (m + 1) + 0
    BY <1>1, <1>2, HoldsType
  <2>2. Len(e.frames) = m
    BY <1>3, <1>4
  <2>3. d.here \in Nat /\ d.unsent \in Nat /\ h \in Nat
    BY <1>1, <1>2, Bounds
  <2>4. \A a, u \in Nat : a + u = p + (m + 1) + 0 => (a - 1) + u = (p - h) + m + h
    BY <1>2
  <2>5. (d.here - 1) + d.unsent = (p - h) + m + h
    BY <2>1, <2>3, <2>4
  <2> QED BY <1>4, <2>2, <2>5
<1>9. e.here <= NetBuf
    BY <1>1, <1>4, Bounds
<1>10. Holds(e, p - h) /\ p - h \in Nat
    BY <1>2, <1>6, <1>7, <1>8, <1>9 DEF Holds
<1>11. \A i \in 1..Len(e.frames) :
          i + 1 \in 1..Len(d.frames) /\ e.frames[i] = d.frames[i + 1]
    BY <1>2, <1>3, <1>4
<1>12. e.frames = <<>> <=> Len(d.frames) = 1
    BY <1>2, <1>3, <1>4
<1>13. Len(e.frames) = Len(d.frames) - 1
    BY <1>2, <1>3, <1>4
<1> QED BY <1>1, <1>2, <1>4, <1>10, <1>11, <1>12, <1>13 DEF h

LEMMA TakenHolds ==
    ASSUME NEW d, NEW p \in Nat, Holds(d, p),
           NEW k \in Nat, k <= Available(d),
           NEW e, e = Taken(d, k)
    PROVE  /\ Holds(e, p)
           /\ k <= d.rem /\ e.rem = d.rem - k
           /\ e.unsent = d.unsent /\ e.fin = d.fin /\ e.frames = d.frames
<1>1. /\ d \in Directions /\ d.unsent \in Nat /\ d.here \in 0..NetBuf /\ d.rem \in Nat
      /\ Len(d.frames) \in Nat /\ d.here + d.unsent = p + Len(d.frames) + d.rem
    BY HoldsType
<1>2. k <= d.rem /\ k <= d.here
    BY <1>1 DEF Available, Lesser
<1>3. /\ e.here = d.here - k /\ e.unsent = d.unsent
      /\ e.rem = d.rem - k /\ e.fin = d.fin /\ e.frames = d.frames
    BY <1>1 DEF Taken, Directions
<1>4. d.here - k \in Nat /\ d.rem - k \in Nat /\ d.here - k <= NetBuf
  <2>1. PICK h, r, b \in Nat : h = d.here /\ r = d.rem /\ b = NetBuf /\ h <= b
      BY <1>1, Bounds
  <2>2. h - k \in Nat /\ r - k \in Nat /\ h - k <= b
      BY <1>2, <2>1
  <2> QED BY <2>1, <2>2
<1>5. e \in Directions
    BY <1>1, <1>4 DEF Taken, Directions
<1>6. e.here + e.unsent = p + Len(e.frames) + e.rem
  <2>1. (d.here - k) + d.unsent = p + Len(d.frames) + (d.rem - k)
    <3>1. PICK h, u, m, r \in Nat :
            h = d.here /\ u = d.unsent /\ m = Len(d.frames) /\ r = d.rem
      <4>1. d.here \in Nat
        BY <1>1, Bounds
      <4> QED BY <1>1, <4>1
    <3>2. h + u = p + m + r
      BY <1>1, <3>1
    <3>3. (h - k) + u = p + m + (r - k)
      BY <3>2
    <3> QED BY <3>1, <3>3
  <2> QED BY <1>3, <2>1
<1> QED BY <1>1, <1>2, <1>3, <1>4, <1>5, <1>6 DEF Holds

-----------------------------------------------------------------------------
(* The steps of the client. *)

LEMMA InitHolds == Init => IInv
<1> SUFFICES ASSUME Init PROVE IInv
    OBVIOUS
<1>1. /\ up.frames = <<>> /\ up.rem = 0 /\ up.unsent = 0 /\ up.fin = TRUE
      /\ down.frames = <<>> /\ down.rem = 0 /\ down.unsent = 0 /\ down.fin = TRUE
      /\ up = Quiet /\ down = Quiet
    BY DEF Init, Quiet
<1>2. ~Unread /\ ~Open /\ Demand = 0 /\ Ahead = 0
    BY <1>1 DEF Init, Unread, Open, Demand, Ahead
<1>3. Books
    BY <1>1, <1>2, QuietHolds DEF Init, Books
<1>4. Client
    BY <1>1, <1>2 DEF Init, Client
<1>5. Server
    BY <1>1, Bounds DEF Init, Server, NoCall
<1>6. Framing
    BY <1>1, <1>2 DEF Init, Framing
<1> QED BY <1>3, <1>4, <1>5, <1>6 DEF IInv

(* When no reply is awaited from the server, nothing of a request is left. *)
LEMMA AtRest ==
    ASSUME IInv, ~Open
    PROVE  /\ job = NoCall /\ spc \in {"next", "drain"} /\ toWrite = 0
           /\ up = Quiet /\ Demand = 0 /\ Ahead = 0
<1>1. job = NoCall /\ ~Unread
    BY DEF Open
<1>2. spc \in {"next", "drain"} /\ toWrite = 0 /\ up.frames = <<>>
    BY <1>1 DEF IInv, Server, Client, Unread
<1>3. up.fin = TRUE /\ up.rem = 0
    BY <1>1, <1>2 DEF IInv, Framing
<1>4. PICK p \in Nat : Holds(up, p)
    BY DEF IInv, Books
<1>5. p = 0
    BY <1>2, <1>4, NoFrames
<1>6. /\ up \in Directions /\ up.unsent \in Nat /\ up.here \in Nat
      /\ up.here + up.unsent = p + Len(up.frames) + up.rem
    BY <1>4, HoldsType
<1>7. up.here = 0 /\ up.unsent = 0
    BY <1>2, <1>3, <1>5, <1>6
<1>8. up = Quiet
    BY <1>2, <1>3, <1>6, <1>7, IsQuiet
<1> QED BY <1>1, <1>2, <1>8 DEF Demand, Ahead

LEMMA StartCallKeeps ==
    ASSUME IInv, NEW c \in Calls, StartCall(c)
    PROVE  IInv'
<1>1. ~Open /\ down = Quiet
    BY DEF IInv, Client, StartCall
<1>2. job = NoCall /\ spc \in {"next", "drain"} /\ up = Quiet
    BY <1>1, AtRest
<1>3. /\ cpc' = "fill" /\ call' = c /\ toWrite' = RequestLen(c) /\ toRead' = ReplyLen(c)
      /\ UNCHANGED <<jobVars, up, down>>
    BY DEF StartCall
<1>4. RequestLen(c) \in Nat \ {0} /\ ReplyLen(c) \in Nat
    BY CallLengths
<1>5. Unread' /\ Open' /\ Demand' = RequestLen(c) /\ Ahead' = ReplyLen(c)
    BY <1>2, <1>3, <1>4 DEF jobVars, Unread, Open, Demand, Ahead
<1>6. /\ up'.frames = <<>> /\ up'.rem = 0 /\ up'.unsent = 0 /\ up'.fin = TRUE
      /\ down'.frames = <<>> /\ down'.rem = 0 /\ down'.unsent = 0 /\ down'.fin = TRUE
      /\ up' = Quiet /\ down' = Quiet
    BY <1>1, <1>2, <1>3 DEF Quiet
<1>7. Books'
  <2>1. Holds(up', 0) /\ Holds(down', 0)
    BY <1>6, QuietHolds
  <2>2. toWrite' + 0 + up'.rem = Demand' /\ toRead' = down'.rem + 0 + Ahead'
    BY <1>3, <1>4, <1>5, <1>6
  <2> QED BY <2>1, <2>2 DEF Books
<1>8. Client'
    BY <1>3, <1>4, <1>5, <1>6 DEF Client
<1>9. Server'
    BY <1>2, <1>3, <1>6 DEF IInv, Server, jobVars
<1>10. Framing'
    BY <1>2, <1>3, <1>5, <1>6 DEF Framing, jobVars
<1> QED BY <1>7, <1>8, <1>9, <1>10 DEF IInv

LEMMA ClientFillKeeps ==
    ASSUME IInv, ClientFill
    PROVE  IInv'
<1> DEFINE k == Lesser(toWrite, ClientFrame)
<1>1. /\ toWrite \in Nat /\ toWrite > 0 /\ up.unsent = 0 /\ cpc = "fill"
    BY DEF IInv, Client, ClientFill
<1>2. k \in Nat /\ 0 < k /\ k <= toWrite
    BY <1>1, Bounds DEF Lesser
<1>3. /\ cpc' = "flush" /\ toWrite' = toWrite - k /\ up' = SendFrame(up, k, toWrite = k)
      /\ UNCHANGED <<call, toRead, jobVars, down>>
    BY DEF ClientFill
<1> HIDE DEF k
<1> DEFINE last == (toWrite = k)
<1>4. PICK p, q \in Nat :
        /\ Holds(up, p) /\ toWrite + p + up.rem = Demand
        /\ Holds(down, q) /\ toRead = down.rem + q + Ahead
    BY DEF IInv, Books
<1>5. last \in BOOLEAN /\ up' = SendFrame(up, k, last)
    BY <1>3
<1>6. up.rem \in Nat /\ Len(up.frames) \in Nat
    BY <1>4, HoldsType
<1> HIDE DEF last
<1>7. /\ Holds(up', p + k)
      /\ up'.rem = up.rem /\ up'.fin = up.fin /\ up'.unsent = k + 1
      /\ up'.frames # <<>> /\ Len(up'.frames) = Len(up.frames) + 1
      /\ \A i \in 1..Len(up'.frames) :
            IF i = Len(up'.frames)
            THEN up'.frames[i].len = k /\ (up'.frames[i].fin <=> last)
            ELSE i \in 1..Len(up.frames) /\ up'.frames[i] = up.frames[i]
  <2>1. /\ p \in Nat /\ Holds(up, p) /\ up.unsent = 0 /\ k \in Nat /\ last \in BOOLEAN
        /\ up' = SendFrame(up, k, last)
    BY <1>1, <1>2, <1>4, <1>5
  <2>2. PICK e : e = up'
    OBVIOUS
  <2>3. Holds(e, p + k) /\ Sent(up, e, k, last)
    BY <2>1, <2>2, SendFrameHolds
  <2> QED BY <2>2, <2>3 DEF Sent
<1>8. (Unread' <=> Unread) /\ (Open' <=> Open)
    BY <1>1, <1>3, <1>7 DEF Unread, Open, jobVars
<1>9. Demand' = Demand /\ Ahead' = Ahead
    BY <1>3, <1>8 DEF Demand, Ahead, Future, jobVars
<1>10. toWrite' \in Nat /\ (toWrite' = 0 <=> last)
    BY <1>1, <1>2, <1>3 DEF last
<1>11. Books'
  <2>1. toWrite' + (p + k) + up'.rem = Demand'
    <3>1. PICK w, r \in Nat : w = toWrite /\ r = up.rem
      BY <1>1, <1>6
    <3>2. (w - k) + (p + k) + r = w + p + r
      BY <1>2
    <3> QED BY <1>3, <1>4, <1>7, <1>9, <3>1, <3>2
  <2>2. p + k \in Nat /\ Holds(down', q) /\ toRead' = down'.rem + q + Ahead'
    BY <1>2, <1>3, <1>4, <1>9
  <2> QED BY <1>4, <1>7, <2>1, <2>2 DEF Books
<1>12. Client'
    BY <1>1, <1>2, <1>3, <1>7, <1>8, <1>10 DEF IInv, Client
<1>13. Server'
    BY <1>3 DEF IInv, Server, jobVars
<1>14. Framing'
  <2>1. ASSUME NEW i \in 1..Len(up'.frames)
        PROVE  /\ up'.frames[i].len > 0
               /\ up'.frames[i].fin <=> i = Len(up'.frames) /\ toWrite' = 0
    <3>1. CASE i = Len(up'.frames)
      BY <1>2, <1>7, <1>10, <3>1
    <3>2. CASE i # Len(up'.frames)
      <4>1. i \in 1..Len(up.frames)
        BY <1>6, <1>7, <3>2
      <4>2. up.frames[i].len > 0 /\ ~up.frames[i].fin
        BY <1>1, <4>1 DEF IInv, Framing
      <4> QED BY <1>7, <3>2, <4>1, <4>2
    <3> QED BY <3>1, <3>2
  <2>2. IF job' = NoCall /\ spc' # "cmd" THEN up'.fin = TRUE /\ up'.rem = 0
        ELSE up'.fin <=> up'.frames = <<>> /\ toWrite' = 0
    BY <1>1, <1>3, <1>7 DEF IInv, Framing, jobVars
  <2>3. /\ \A i \in 1..Len(down.frames) :
              /\ down.frames[i].fin <=> i = Len(down.frames) /\ ~Open
              /\ down.frames[i].len = 0 => down.frames[i].fin /\ ReplyLen(call) = 0
        /\ down.fin = TRUE /\ down.rem = 0
        /\ Open /\ ReplyLen(call) > 0 => Ahead > 0
    BY <1>1 DEF IInv, Framing
  <2> QED BY <1>3, <1>8, <1>9, <2>1, <2>2, <2>3 DEF Framing
<1> QED BY <1>11, <1>12, <1>13, <1>14 DEF IInv

LEMMA ClientFlushKeeps ==
    ASSUME IInv, ClientFlush
    PROVE  IInv'
<1>1. PICK p, q \in Nat :
        /\ Holds(up, p) /\ toWrite + p + up.rem = Demand
        /\ Holds(down, q) /\ toRead = down.rem + q + Ahead
    BY DEF IInv, Books
<1>2. PICK k \in 1..Lesser(up.unsent, NetBuf - up.here) :
        /\ up' = Pushed(up, k)
        /\ cpc' = IF up.unsent > k THEN "flush" ELSE IF toWrite > 0 THEN "fill" ELSE "next"
    BY DEF ClientFlush
<1>3. /\ Holds(up', p) /\ k <= up.unsent /\ up'.unsent = up.unsent - k
      /\ up'.rem = up.rem /\ up'.fin = up.fin /\ up'.frames = up.frames
    BY <1>1, <1>2, PushedHolds
<1>4. cpc = "flush" /\ UNCHANGED <<call, toWrite, toRead, jobVars, down>>
    BY DEF ClientFlush
<1>5. /\ Unread' <=> Unread
      /\ Open' <=> Open
      /\ Demand' = Demand /\ Ahead' = Ahead
    BY <1>3, <1>4 DEF Unread, Open, Demand, Ahead, Future, jobVars
<1>6. Books'
    BY <1>1, <1>3, <1>4, <1>5 DEF Books
<1>7. Client'
  <2>1. k \in Nat /\ up.unsent \in Nat /\ k > 0
    <3>1. up.unsent \in Nat /\ up.here \in 0..NetBuf
      BY <1>1, HoldsType
    <3> QED BY <1>2, <3>1, Bounds DEF Lesser
  <2>2. up'.unsent > 0 <=> up.unsent > k
    BY <1>3, <2>1
  <2>3. up'.unsent = 0 <=> ~(up.unsent > k)
    BY <1>3, <2>1
  <2>4. toWrite \in Nat /\ call \in Calls /\ toRead = ReplyLen(call) /\ toRead \in Nat
        /\ (Unread => down = Quiet)
    BY <1>4 DEF IInv, Client
  <2> QED BY <1>2, <1>4, <1>5, <2>2, <2>3, <2>4 DEF Client
<1>8. Server'
    BY <1>4 DEF IInv, Server, jobVars
<1>9. Framing'
  <2>1. cpc # "read" /\ cpc' # "read"
    BY <1>2, <1>4
  <2> QED BY <1>3, <1>4, <1>5, <2>1 DEF IInv, Framing, jobVars
<1> QED BY <1>6, <1>7, <1>8, <1>9 DEF IInv

(* A frame of the reply is opened: by ClientNext the first, by ClientRead a further
   one. *)
LEMMA ReplyFrame ==
    ASSUME IInv, HasHeader(down), down' = NextFrame(down),
           UNCHANGED <<call, toWrite, toRead, jobVars, up>>
    PROVE  /\ ~Unread /\ ~Unread' /\ (Open' <=> Open) /\ Ahead' = Ahead
           /\ Books' /\ Server'
           /\ down'.fin <=> down'.frames = <<>> /\ ~Open
           /\ \A i \in 1..Len(down'.frames) :
                 /\ down'.frames[i].fin <=> i = Len(down'.frames) /\ ~Open
                 /\ down'.frames[i].len = 0 => down'.frames[i].fin /\ ReplyLen(call) = 0
           /\ toRead = 0 => ~Open /\ down' = Quiet
<1>1. PICK p, q \in Nat :
        /\ Holds(up, p) /\ toWrite + p + up.rem = Demand
        /\ Holds(down, q) /\ toRead = down.rem + q + Ahead
    BY DEF IInv, Books
<1>2. /\ q - down'.rem \in Nat /\ Holds(down', q - down'.rem)
      /\ down'.rem = down.frames[1].len /\ down'.fin = down.frames[1].fin
      /\ down'.unsent = down.unsent
      /\ Len(down'.frames) = Len(down.frames) - 1 /\ 1 \in 1..Len(down.frames) /\ down.rem = 0
      /\ down'.frames = <<>> <=> Len(down.frames) = 1
      /\ \A i \in 1..Len(down'.frames) :
            i + 1 \in 1..Len(down.frames) /\ down'.frames[i] = down.frames[i + 1]
    BY <1>1, NextFrameHolds
<1>3. /\ Len(down.frames) \in Nat /\ down.frames[1].len \in Nat /\ down'.rem \in Nat
      /\ down'.unsent \in Nat /\ down'.here \in Nat
      /\ down' \in Directions /\ down'.fin \in BOOLEAN
      /\ down'.here + down'.unsent = (q - down'.rem) + Len(down'.frames) + down'.rem
  <2>1. /\ Len(down.frames) \in Nat
        /\ \A i \in 1..Len(down.frames) : down.frames[i].len \in Nat
    BY <1>1, HoldsType
  <2>2. down.frames[1].len \in Nat
    BY <1>2, <2>1
  <2>3. PICK m \in Nat : m = q - down'.rem /\ Holds(down', m)
    BY <1>2
  <2>4. /\ down' \in Directions /\ down'.rem \in Nat /\ down'.unsent \in Nat
        /\ down'.here \in 0..NetBuf /\ down'.fin \in BOOLEAN
        /\ down'.here + down'.unsent = m + Len(down'.frames) + down'.rem
    BY <2>3, HoldsType
  <2>5. down'.here \in Nat
    BY <2>4, Bounds
  <2> QED BY <2>1, <2>2, <2>3, <2>4, <2>5
<1>4. ~Unread
  <2>1. down # Quiet
    BY DEF HasHeader, Quiet
  <2> QED BY <2>1 DEF IInv, Client
<1>5. /\ ~Unread' /\ (Open' <=> Open)
      /\ Demand' = Demand /\ Ahead' = Ahead
    BY <1>4 DEF Unread, Open, Demand, Ahead, Future, jobVars
<1>6. toRead \in Nat /\ Ahead \in Int
    BY AheadIsNat DEF IInv, Client
<1>7. Books'
  <2>1. toRead' = down'.rem + (q - down'.rem) + Ahead'
    <3>1. PICK h, a \in Int : h = down'.rem /\ a = Ahead
      BY <1>3, <1>6
    <3>2. 0 + q + a = h + (q - h) + a
      BY <3>1
    <3> QED BY <1>1, <1>2, <1>5, <3>1, <3>2
  <2> QED BY <1>1, <1>2, <1>5, <2>1 DEF Books
<1>8. Server'
    BY <1>2 DEF IInv, Server, jobVars
<1>9. \A i \in 1..Len(down.frames) :
        /\ down.frames[i].fin <=> i = Len(down.frames) /\ ~Open
        /\ down.frames[i].len = 0 => down.frames[i].fin /\ ReplyLen(call) = 0
    BY DEF IInv, Framing
<1>10. down'.fin <=> down'.frames = <<>> /\ ~Open
    BY <1>2, <1>9
<1>11. ASSUME NEW i \in 1..Len(down'.frames)
       PROVE  /\ down'.frames[i].fin <=> i = Len(down'.frames) /\ ~Open
              /\ down'.frames[i].len = 0 => down'.frames[i].fin /\ ReplyLen(call) = 0
  <2>1. i + 1 = Len(down.frames) <=> i = Len(down'.frames)
    BY <1>2, <1>3
  <2>2. i + 1 \in 1..Len(down.frames) /\ down'.frames[i] = down.frames[i + 1]
    BY <1>2
  <2> QED BY <1>9, <2>1, <2>2
<1>12. ASSUME toRead = 0 PROVE ~Open /\ down' = Quiet
  <2>1. q = 0
    <3>1. Ahead >= 0
      BY AheadIsNat
    <3> QED BY <1>1, <1>2, <1>6, <1>12, <3>1
  <2>2. down'.rem = 0
    BY <1>2, <1>3, <2>1
  <2>3. 1 = Len(down.frames) /\ ~Open
    BY <1>2, <1>9, <2>2
  <2>4. down'.frames = <<>> /\ Len(down'.frames) = 0 /\ down'.fin
    BY <1>2, <1>10, <2>3
  <2>5. down'.here = 0 /\ down'.unsent = 0
    BY <1>3, <2>1, <2>2, <2>4
  <2>6. down'.fin = TRUE
    BY <1>3, <2>4
  <2> QED BY <1>3, <2>2, <2>3, <2>4, <2>5, <2>6, IsQuiet
<1> QED BY <1>4, <1>5, <1>7, <1>8, <1>10, <1>11, <1>12

LEMMA ClientNextKeeps ==
    ASSUME IInv, ClientNext
    PROVE  IInv'
<1>1. /\ cpc = "next" /\ HasHeader(down) /\ down' = NextFrame(down)
      /\ cpc' = IF toRead = 0 THEN "idle" ELSE "read"
      /\ UNCHANGED <<call, toWrite, toRead, jobVars, up>>
    BY DEF ClientNext
<1>2. /\ ~Unread /\ ~Unread' /\ (Open' <=> Open) /\ Ahead' = Ahead
      /\ Books' /\ Server'
      /\ down'.fin <=> down'.frames = <<>> /\ ~Open
      /\ \A i \in 1..Len(down'.frames) :
            /\ down'.frames[i].fin <=> i = Len(down'.frames) /\ ~Open
            /\ down'.frames[i].len = 0 => down'.frames[i].fin /\ ReplyLen(call) = 0
      /\ toRead = 0 => ~Open /\ down' = Quiet
    BY <1>1, ReplyFrame, Zenon
<1>3. toRead = ReplyLen(call) /\ toRead \in Nat
    BY <1>1 DEF IInv, Client
<1>4. Client'
    BY <1>1, <1>2, <1>3 DEF IInv, Client
<1>5. Framing'
  <2>1. IF cpc' = "read"
        THEN ReplyLen(call) > 0 /\ (down'.fin <=> down'.frames = <<>> /\ ~Open)
        ELSE down'.fin = TRUE /\ down'.rem = 0
    BY <1>1, <1>2, <1>3 DEF Quiet
  <2> QED BY <1>1, <1>2, <2>1 DEF IInv, Framing, jobVars
<1> QED BY <1>2, <1>4, <1>5 DEF IInv

LEMMA ClientReadKeeps ==
    ASSUME IInv, ClientRead
    PROVE  IInv'
<1>1. /\ cpc = "read" /\ UNCHANGED <<call, toWrite, jobVars, up>>
      /\ toRead \in Nat /\ toRead > 0 /\ ReplyLen(call) > 0 /\ ~Unread
      /\ down.fin <=> down.frames = <<>> /\ ~Open
    BY DEF IInv, Client, Framing, ClientRead
<1>2. CASE HasHeader(down) /\ down' = NextFrame(down) /\ UNCHANGED <<cpc, toRead>>
  <2>1. /\ ~Unread' /\ (Open' <=> Open) /\ Ahead' = Ahead
        /\ Books' /\ Server'
        /\ down'.fin <=> down'.frames = <<>> /\ ~Open
        /\ \A i \in 1..Len(down'.frames) :
              /\ down'.frames[i].fin <=> i = Len(down'.frames) /\ ~Open
              /\ down'.frames[i].len = 0 => down'.frames[i].fin /\ ReplyLen(call) = 0
    BY <1>1, <1>2, ReplyFrame
  <2>2. Client'
    BY <1>1, <1>2, <2>1 DEF IInv, Client
  <2>3. Framing'
    BY <1>1, <1>2, <2>1 DEF IInv, Framing, jobVars
  <2> QED BY <2>1, <2>2, <2>3 DEF IInv
<1>3. ASSUME NEW k \in 1..Lesser(Available(down), toRead),
             down' = Taken(down, k), toRead' = toRead - k,
             cpc' = IF toRead = k THEN "idle" ELSE "read"
      PROVE  IInv'
  <2>1. PICK p, q \in Nat :
          /\ Holds(up, p) /\ toWrite + p + up.rem = Demand
          /\ Holds(down, q) /\ toRead = down.rem + q + Ahead
    BY DEF IInv, Books
  <2>2. /\ down \in Directions /\ down.rem \in Nat /\ down.here \in Nat /\ Len(down.frames) \in Nat
    BY <2>1, HoldsType
  <2>3. k \in Nat /\ k > 0 /\ k <= Available(down) /\ k <= toRead
    BY <1>1, <1>3, <2>2 DEF Available, Lesser
  <2>4. /\ Holds(down', q) /\ k <= down.rem /\ down'.rem = down.rem - k
        /\ down'.unsent = down.unsent /\ down'.fin = down.fin /\ down'.frames = down.frames
    BY <1>3, <2>1, <2>3, TakenHolds
  <2>5. /\ ~Unread' /\ (Open' <=> Open)
        /\ Demand' = Demand /\ Ahead' = Ahead
    BY <1>1 DEF Unread, Open, Demand, Ahead, Future, jobVars
  <2>6. Ahead \in Nat
    BY AheadIsNat
  <2>7. PICK r, a, t \in Nat : r = down.rem /\ a = Ahead /\ t = toRead
    BY <1>1, <2>2, <2>6
  <2>8. t = r + q + a /\ k <= r
    BY <2>1, <2>4, <2>7
  <2>9. Books'
    <3>1. t - k = (r - k) + q + a
      BY <2>3, <2>8
    <3>2. toRead' = down'.rem + q + Ahead'
      BY <1>3, <2>4, <2>5, <2>7, <3>1
    <3> QED BY <1>1, <2>1, <2>4, <2>5, <3>2 DEF Books
  <2>10. ASSUME toRead = k PROVE ~Open /\ down' = Quiet
    <3>1. q = 0 /\ a = 0 /\ r = k
      <4>1. t = k
        BY <2>7, <2>10
      <4> QED BY <2>3, <2>8, <4>1
    <3>2. ~Open
      BY <1>1, <2>7, <3>1 DEF IInv, Framing
    <3>3. down.frames = <<>>
      <4>1. ASSUME down.frames # <<>> PROVE FALSE
        <5>1. 1 \in 1..Len(down.frames) /\ down.frames[1].len <= q
          BY <2>1, <4>1, NoFrames
        <5>2. down.frames[1].len \in Nat
          BY <2>1, <5>1, HoldsType
        <5>3. down.frames[1].len = 0
          BY <3>1, <5>1, <5>2
        <5> QED BY <1>1, <5>1, <5>3 DEF IInv, Framing
      <4> QED BY <4>1
    <3>4. down'.fin /\ down'.frames = <<>> /\ down'.rem = 0
      BY <1>1, <2>4, <2>7, <3>1, <3>2, <3>3
    <3>5. /\ down' \in Directions /\ down'.unsent \in Nat /\ down'.here \in Nat /\ down'.fin \in BOOLEAN
          /\ down'.here + down'.unsent = q + Len(down'.frames) + down'.rem
      BY <2>4, HoldsType
    <3>6. down'.here = 0 /\ down'.unsent = 0
      BY <3>1, <3>4, <3>5
    <3>7. down'.fin = TRUE
      BY <3>4, <3>5
    <3> QED BY <3>2, <3>4, <3>5, <3>6, <3>7, IsQuiet
  <2>11. toRead' \in Nat /\ (toRead # k => toRead' > 0) /\ (toRead = k => toRead' = 0)
    BY <1>1, <1>3, <2>3
  <2>12. Client'
    <3>1. /\ call \in Calls /\ toWrite \in Nat
          /\ ~(toWrite > 0 /\ up.unsent = 0) /\ ~(up.unsent > 0)
      BY <1>1 DEF IInv, Client
    <3>2. /\ call' \in Calls /\ toWrite' \in Nat /\ ~Unread'
          /\ ~(toWrite' > 0 /\ up'.unsent = 0) /\ ~(up'.unsent > 0)
      BY <1>1, <2>5, <3>1
    <3>3. CASE toRead = k
      <4>1. cpc' = "idle" /\ toRead' = 0 /\ ~Open' /\ down' = Quiet
        BY <1>3, <2>5, <2>10, <2>11, <3>3
      <4> QED BY <3>2, <4>1 DEF Client
    <3>4. CASE toRead # k
      <4>1. cpc' = "read" /\ toRead' \in Nat /\ toRead' > 0
        BY <1>3, <2>11, <3>4
      <4> QED BY <3>2, <4>1 DEF Client
    <3> QED BY <3>3, <3>4
  <2>13. Server'
    BY <1>1, <2>4 DEF IInv, Server, jobVars
  <2>14. Framing'
    <3>1. IF cpc' = "read"
          THEN ReplyLen(call) > 0 /\ (down'.fin <=> down'.frames = <<>> /\ ~Open)
          ELSE down'.fin = TRUE /\ down'.rem = 0
      <4>1. toRead = k => down'.fin = TRUE /\ down'.rem = 0
        BY <2>10 DEF Quiet
      <4>2. cpc' = "read" <=> toRead # k
        BY <1>3
      <4>3. ReplyLen(call) > 0 /\ (down'.fin <=> down'.frames = <<>> /\ ~Open)
        BY <1>1, <2>4
      <4> QED BY <4>1, <4>2, <4>3, Zenon
    <3> QED BY <1>1, <2>4, <2>5, <3>1 DEF IInv, Framing, jobVars
  <2> QED BY <2>9, <2>12, <2>13, <2>14 DEF IInv
<1> QED BY <1>2, <1>3 DEF ClientRead

-----------------------------------------------------------------------------
(* The steps of the server. *)

(* A job in its later stages: what Server says of it, and what Ahead and Demand are. *)
LEMMA AtWork ==
    ASSUME IInv, job # NoCall
    PROVE  /\ job = call /\ call \in Calls /\ job.cmd \in {"nop", "add", "tree", "hex"}
           /\ ~Unread /\ Open /\ cpc # "idle" /\ spc \notin {"next", "cmd"}
           /\ hdr \in Nat /\ left \in Nat /\ out \in Nat /\ sw \in Nat /\ sw <= ServerFrame
           /\ Future \in Nat /\ Demand = hdr + left /\ Ahead = sw + out + Future
<1>1. job = call /\ call \in Calls /\ spc \notin {"next", "cmd"}
    BY DEF IInv, Client, Server
<1>2. job.cmd \in {"nop", "add", "tree", "hex"}
    BY <1>1, CallCases
<1>3. ~Unread /\ Open /\ cpc # "idle"
    BY DEF IInv, Client, Unread, Open
<1>4. hdr \in Nat /\ left \in Nat /\ out \in Nat /\ sw \in Nat /\ sw <= ServerFrame
    BY Bounds DEF IInv, Server
<1>5. Future \in Nat
    BY <1>4 DEF Future
<1> QED BY <1>1, <1>2, <1>3, <1>4, <1>5 DEF Demand, Ahead

LEMMA ClientWaits ==
    ASSUME IInv, UNCHANGED clientVars, up'.unsent = up.unsent,
           Open \/ (~Open' /\ (down' = down \/ cpc # "idle")),
           Unread' => Unread /\ down' = down
    PROVE  Client'
BY DEF IInv, Client, clientVars

(* The server reads k units of the request. *)
LEMMA ReadKeeps ==
    ASSUME IInv, spc \in {"cmd", "int", "val", "hex"},
           NEW k \in Nat, k <= Available(up), up' = Taken(up, k),
           UNCHANGED <<clientVars, down>>,
           job' # NoCall, Server',
           Demand \in Nat, Demand' = Demand - k, Ahead' = Ahead
    PROVE  IInv'
<1>1. /\ cpc' = cpc /\ call' = call /\ toWrite' = toWrite /\ toRead' = toRead /\ down' = down
      /\ toWrite \in Nat
    BY DEF IInv, Client, clientVars
<1>2. PICK p, q \in Nat :
        /\ Holds(up, p) /\ toWrite + p + up.rem = Demand
        /\ Holds(down, q) /\ toRead = down.rem + q + Ahead
    BY DEF IInv, Books
<1>3. /\ Holds(up', p) /\ k <= up.rem /\ up'.rem = up.rem - k
      /\ up'.unsent = up.unsent /\ up'.fin = up.fin /\ up'.frames = up.frames
    BY <1>2, TakenHolds
<1>4. Open /\ Open' /\ ~Unread' /\ (job = NoCall => spc = "cmd")
    BY DEF IInv, Server, Open, Unread
<1>5. Books'
  <2>1. PICK w, r, a \in Nat : w = toWrite /\ r = up.rem /\ a = Demand
    BY <1>1, <1>2, HoldsType
  <2>2. w + p + r = a
    BY <1>2, <2>1
  <2>3. w + p + (r - k) = a - k
    BY <2>2
  <2>4. toWrite' + p + up'.rem = Demand'
    BY <1>1, <1>3, <2>1, <2>3
  <2> QED BY <1>1, <1>2, <1>3, <2>4 DEF Books
<1>6. Client'
    BY <1>3, <1>4, ClientWaits
<1>7. Framing'
    BY <1>1, <1>3, <1>4 DEF IInv, Framing
<1> QED BY <1>5, <1>6, <1>7 DEF IInv

LEMMA ServerFrameHeaderKeeps ==
    ASSUME IInv, ServerFrameHeader
    PROVE  IInv'
<1>1. /\ HasHeader(up) /\ up' = NextFrame(up) /\ up.frames # <<>>
      /\ IF up.fin THEN spc = "next" /\ spc' = "cmd"
         ELSE spc \in {"int", "val", "hex"} /\ UNCHANGED spc
      /\ UNCHANGED clientVars /\ job' = job /\ hdr' = hdr /\ left' = left /\ out' = out
      /\ sw' = sw /\ down' = down
    BY DEF ServerFrameHeader, HasHeader
<1>2. /\ cpc' = cpc /\ call' = call /\ toWrite' = toWrite /\ toRead' = toRead
      /\ toWrite \in Nat
    BY <1>1 DEF IInv, Client, clientVars
<1>3. PICK p, q \in Nat :
        /\ Holds(up, p) /\ toWrite + p + up.rem = Demand
        /\ Holds(down, q) /\ toRead = down.rem + q + Ahead
    BY DEF IInv, Books
<1>4. /\ p - up'.rem \in Nat /\ Holds(up', p - up'.rem)
      /\ up'.rem = up.frames[1].len /\ up'.fin = up.frames[1].fin /\ up'.unsent = up.unsent
      /\ Len(up'.frames) = Len(up.frames) - 1 /\ 1 \in 1..Len(up.frames) /\ up.rem = 0
      /\ up'.frames = <<>> <=> Len(up.frames) = 1
      /\ \A i \in 1..Len(up'.frames) :
            i + 1 \in 1..Len(up.frames) /\ up'.frames[i] = up.frames[i + 1]
    BY <1>1, <1>3, NextFrameHolds
<1>5. Len(up.frames) \in Nat /\ \A i \in 1..Len(up.frames) : up.frames[i].len \in Nat
    BY <1>3, HoldsType
<1>6. (Unread' <=> Unread) /\ Open /\ Open' /\ (job' = NoCall => spc' = "cmd") /\ Server'
  <2>1. CASE up.fin
    <3>1. spc = "next" /\ spc' = "cmd" /\ job = NoCall
      BY <1>1, <2>1 DEF IInv, Server
    <3>2. Unread /\ Unread' /\ Open /\ Open'
      BY <1>1, <3>1 DEF Unread, Open
    <3>3. Server'
      BY <1>1, <3>1 DEF IInv, Server
    <3> QED BY <3>1, <3>2, <3>3
  <2>2. CASE ~up.fin
    <3>1. spc \in {"int", "val", "hex"} /\ spc' = spc /\ job # NoCall
      BY <1>1, <2>2 DEF IInv, Server
    <3>2. ~Unread /\ ~Unread' /\ Open /\ Open'
      BY <1>1, <3>1 DEF Unread, Open
    <3>3. Server'
      BY <1>1, <1>2, <3>1 DEF IInv, Server
    <3> QED BY <1>1, <3>1, <3>2, <3>3
  <2> QED BY <2>1, <2>2
<1>7. Demand' = Demand /\ Ahead' = Ahead
  <2>1. Future' = Future
    <3>1. spc = "int" <=> spc' = "int"
      BY <1>1
    <3> QED BY <1>1, <3>1 DEF Future
  <2> QED BY <1>1, <1>2, <1>6, <2>1 DEF Demand, Ahead
<1>8. Books'
  <2>1. up.frames[1].len \in Nat
    BY <1>4, <1>5
  <2>2. PICK w, f \in Nat : w = toWrite /\ f = up'.rem
    BY <1>2, <1>4, <2>1
  <2>3. w + (p - f) + f = w + p + 0
    OBVIOUS
  <2>4. toWrite' + (p - up'.rem) + up'.rem = Demand'
    BY <1>2, <1>3, <1>4, <1>7, <2>2, <2>3
  <2>5. Holds(down', q) /\ toRead' = down'.rem + q + Ahead'
    BY <1>1, <1>2, <1>3, <1>7
  <2> QED BY <1>3, <1>4, <2>4, <2>5 DEF Books
<1>9. Client'
    BY <1>1, <1>4, <1>6, ClientWaits
<1>10. Framing'
  <2>1. \A i \in 1..Len(up.frames) :
          up.frames[i].len > 0 /\ (up.frames[i].fin <=> i = Len(up.frames) /\ toWrite = 0)
    BY DEF IInv, Framing
  <2>2. ASSUME NEW i \in 1..Len(up'.frames)
        PROVE  /\ up'.frames[i].len > 0
               /\ up'.frames[i].fin <=> i = Len(up'.frames) /\ toWrite' = 0
    <3>1. i + 1 = Len(up.frames) <=> i = Len(up'.frames)
      BY <1>4, <1>5
    <3>2. i + 1 \in 1..Len(up.frames) /\ up'.frames[i] = up.frames[i + 1]
      BY <1>4
    <3> QED BY <1>2, <2>1, <3>1, <3>2
  <2>3. up'.fin <=> up'.frames = <<>> /\ toWrite' = 0
    <3>1. up.frames[1].fin <=> 1 = Len(up.frames) /\ toWrite = 0
      BY <1>4, <2>1
    <3> QED BY <1>2, <1>4, <3>1
  <2> QED BY <1>1, <1>2, <1>6, <1>7, <2>2, <2>3 DEF IInv, Framing
<1> QED BY <1>6, <1>8, <1>9, <1>10 DEF IInv

LEMMA ServerReadCmdKeeps ==
    ASSUME IInv, ServerReadCmd
    PROVE  IInv'
<1>1. /\ spc = "cmd" /\ Available(up) > 0 /\ up' = Taken(up, 1)
      /\ job' = call /\ hdr' = HeaderInts(call) /\ left' = call.n
      /\ IF call.cmd = "nop" THEN spc' = "put" /\ out' = 1 ELSE spc' = "int" /\ out' = out
      /\ UNCHANGED clientVars /\ sw' = sw /\ down' = down
    BY DEF ServerReadCmd
<1>2. job = NoCall /\ sw = 0 /\ out = 0 /\ down.unsent = 0 /\ call \in Calls
    BY <1>1 DEF IInv, Server, Client
<1>3. /\ call # NoCall /\ call.n \in Nat
      /\ \/ call.cmd = "nop" /\ call.n = 0
         \/ call.cmd = "add" /\ call.n = 0
         \/ call.cmd = "tree" /\ call.n > 0
         \/ call.cmd = "hex"
    BY <1>2, CallCases
<1>4. /\ HeaderInts(call) \in 0..2 /\ RequestLen(call) = 1 + HeaderInts(call) + call.n
      /\ HeaderInts(call) = 0 <=> call.cmd = "nop"
      /\ RequestLen(call) \in Nat \ {0} /\ ReplyLen(call) \in Nat
      /\ call.cmd \in {"nop", "add"} => ReplyLen(call) = 1
      /\ call.cmd = "tree" => ReplyLen(call) = call.n
      /\ call.cmd = "hex" => ReplyLen(call) = 2 * call.n
    BY <1>2, CallLengths
<1>5. Unread /\ Demand = RequestLen(call) /\ Ahead = ReplyLen(call)
    BY <1>1, <1>2 DEF Unread, Demand, Ahead
<1>6. job' # NoCall /\ ~Unread' /\ call' = call
    BY <1>1, <1>3 DEF Unread, clientVars
<1>7. Demand' = Demand - 1 /\ Demand \in Nat
  <2>1. Demand' = hdr' + left'
    BY <1>6 DEF Demand
  <2> QED BY <1>1, <1>3, <1>4, <1>5, <2>1
<1>8. Ahead' = Ahead
  <2>1. Ahead' = sw' + out' + Future'
    BY <1>6 DEF Ahead
  <2>2. sw' = 0 /\ out' \in Nat /\ Future' \in Nat
    BY <1>1, <1>2, <1>3 DEF Future
  <2>3. out' + Future' = ReplyLen(call)
    <3>1. CASE call.cmd = "nop"
      BY <1>1, <1>4, <3>1 DEF Future
    <3>2. CASE call.cmd = "add"
      BY <1>1, <1>2, <1>4, <3>2 DEF Future
    <3>3. CASE call.cmd = "tree"
      BY <1>1, <1>2, <1>3, <1>4, <3>3 DEF Future
    <3>4. CASE call.cmd = "hex"
      BY <1>1, <1>2, <1>3, <1>4, <3>4 DEF Future
    <3> QED BY <1>3, <3>1, <3>2, <3>3, <3>4
  <2> QED BY <1>5, <2>1, <2>2, <2>3
<1>9. Server'
  <2>1. /\ hdr' \in 0..2 /\ left' \in Nat /\ out' \in Nat /\ sw' \in 0..ServerFrame
        /\ down'.unsent = 0
    BY <1>1, <1>2, <1>3, <1>4, Bounds
  <2>2. job'.cmd \in {"nop", "add"} => left' = 0
    BY <1>1, <1>3
  <2>3. IF spc' = "int" THEN hdr' > 0 /\ job'.cmd # "nop" ELSE job' # NoCall => hdr' = 0
    BY <1>1, <1>4
  <2>4. spc' \in {"put", "int"} /\ (spc' = "int" => out' = 0)
    BY <1>1, <1>2
  <2> QED BY <1>1, <1>6, <2>1, <2>2, <2>3, <2>4 DEF Server
<1>10. 1 <= Available(up)
  <2>1. PICK p \in Nat : Holds(up, p)
    BY DEF IInv, Books
  <2>2. up.here \in 0..NetBuf /\ up.rem \in Nat
    BY <2>1, HoldsType
  <2> QED BY <1>1, <2>2, Bounds DEF Available, Lesser
<1> QED BY <1>1, <1>6, <1>7, <1>8, <1>9, <1>10, ReadKeeps

(* What has arrived of a frame bounds what is read of it. *)
LEMMA AvailableOf ==
    ASSUME IInv
    PROVE  Available(up) \in Nat
<1>1. PICK p \in Nat : Holds(up, p)
    BY DEF IInv, Books
<1>2. up.here \in 0..NetBuf /\ up.rem \in Nat
    BY <1>1, HoldsType
<1> QED BY <1>2, Bounds DEF Available, Lesser

(* Where the loop of the body goes on. *)
LEMMA LoopOf ==
    ASSUME job.cmd \in {"nop", "add", "tree", "hex"}, NEW l \in Nat,
           job.cmd \in {"nop", "add"} => l = 0
    PROVE  /\ Loop(l) \in {"close", "val", "hex"}
           /\ Loop(l) = "close" => l = 0
           /\ Loop(l) = "val" => l > 0 /\ job.cmd = "tree"
           /\ Loop(l) = "hex" => l > 0 /\ job.cmd = "hex"
BY DEF Loop

LEMMA ServerReadIntKeeps ==
    ASSUME IInv, ServerReadInt
    PROVE  IInv'
<1>1. /\ spc = "int" /\ Available(up) > 0 /\ up' = Taken(up, 1) /\ hdr' = hdr - 1
      /\ \/ hdr > 1 /\ spc' = spc /\ out' = out
         \/ hdr = 1 /\ job.cmd = "add" /\ spc' = "put" /\ out' = 1
         \/ hdr = 1 /\ job.cmd # "add" /\ spc' = Loop(left) /\ out' = out
      /\ UNCHANGED clientVars /\ job' = job /\ left' = left /\ sw' = sw /\ down' = down
    BY DEF ServerReadInt
<1>2. /\ job # NoCall /\ hdr \in 0..2 /\ hdr > 0 /\ out = 0 /\ down.unsent = 0
      /\ job.cmd # "nop" /\ (job.cmd \in {"nop", "add"} => left = 0) /\ call' = call
    BY <1>1 DEF IInv, Server, clientVars
<1>3. /\ job = call /\ call \in Calls /\ job.cmd \in {"nop", "add", "tree", "hex"}
      /\ ~Unread /\ Open /\ cpc # "idle" /\ spc \notin {"next", "cmd"}
      /\ hdr \in Nat /\ left \in Nat /\ out \in Nat /\ sw \in Nat /\ sw <= ServerFrame
      /\ Future \in Nat /\ Demand = hdr + left /\ Ahead = sw + out + Future
    BY <1>2, AtWork
<1>4. /\ Loop(left) \in {"close", "val", "hex"}
      /\ Loop(left) = "close" => left = 0
      /\ Loop(left) = "val" => left > 0 /\ job.cmd = "tree"
      /\ Loop(left) = "hex" => left > 0 /\ job.cmd = "hex"
    BY <1>2, <1>3, LoopOf
<1>5. job' # NoCall /\ ~Unread'
    BY <1>1, <1>2 DEF Unread
<1>6. Demand \in Nat /\ Demand' = Demand - 1
  <2>1. Demand' = hdr' + left'
    BY <1>5 DEF Demand
  <2> QED BY <1>1, <1>3, <2>1
<1>7. Ahead' = Ahead
  <2>1. Ahead' = sw' + out' + Future'
    BY <1>5 DEF Ahead
  <2>2. out' + Future' = out + Future
    <3>1. CASE hdr > 1
      <4>1. spc' = "int" /\ out' = out
        BY <1>1, <3>1
      <4> QED BY <1>1, <4>1 DEF Future
    <3>2. CASE hdr = 1 /\ job.cmd = "add"
      <4>1. spc' = "put" /\ out' = 1
        BY <1>1, <3>2
      <4> QED BY <1>1, <1>2, <3>2, <4>1 DEF Future
    <3>3. CASE hdr = 1 /\ job.cmd # "add"
      <4>1. out' = out
        BY <1>1, <3>3
      <4>2. job.cmd \in {"tree", "hex"}
        BY <1>2, <1>3, <3>3
      <4> QED BY <1>1, <4>1, <4>2 DEF Future
    <3> QED BY <1>1, <3>1, <3>2, <3>3
  <2>3. out' \in Nat /\ Future' \in Nat
    BY <1>1, <1>3 DEF Future
  <2>4. PICK x, o, f, oo, ff \in Nat :
          x = sw /\ o = out /\ f = Future /\ oo = out' /\ ff = Future'
    BY <1>3, <2>3
  <2>5. oo + ff = o + f
    BY <2>2, <2>4
  <2>6. x + oo + ff = x + o + f
    BY <2>5
  <2> QED BY <1>1, <1>3, <2>1, <2>4, <2>6
<1>8. Server'
  <2>1. /\ hdr' \in 0..2 /\ left' \in Nat /\ out' \in Nat /\ sw' \in 0..ServerFrame
        /\ down'.unsent = 0 /\ job' = call'
    BY <1>1, <1>2, <1>3, Bounds
  <2>2. spc' \in {"int", "put", "close", "val", "hex"} /\ (spc' # "put" => out' = 0)
    BY <1>1, <1>2, <1>4
  <2>3. /\ spc' = "close" => left' = 0
        /\ spc' = "val" => left' > 0 /\ job'.cmd = "tree"
        /\ spc' = "hex" => left' > 0 /\ job'.cmd = "hex"
    BY <1>1, <1>4
  <2>4. IF spc' = "int" THEN hdr' > 0 /\ job'.cmd # "nop" ELSE job' # NoCall => hdr' = 0
    BY <1>1, <1>2, <1>4
  <2> QED BY <1>1, <1>2, <1>5, <2>1, <2>2, <2>3, <2>4 DEF Server
<1>9. 1 <= Available(up)
    BY <1>1, AvailableOf
<1> QED BY <1>1, <1>5, <1>6, <1>7, <1>8, <1>9, ReadKeeps

(* ServerReadVal and ServerReadHex: k units are taken, and what they give is put. *)
LEMMA PieceKeeps ==
    ASSUME IInv, spc \in {"val", "hex"}, NEW k \in Nat, k <= Available(up), k <= left,
           up' = Taken(up, k), left' = left - k, spc' = "put",
           out' = IF spc = "val" THEN k ELSE 2 * k,
           UNCHANGED <<clientVars, job, hdr, sw, down>>
    PROVE  IInv'
<1>1. /\ job # NoCall /\ out = 0 /\ hdr = 0 /\ down.unsent = 0
      /\ job.cmd = IF spc = "val" THEN "tree" ELSE "hex"
    BY DEF IInv, Server
<1>2. /\ job = call /\ call \in Calls /\ job.cmd \in {"nop", "add", "tree", "hex"}
      /\ ~Unread /\ Open /\ cpc # "idle" /\ spc \notin {"next", "cmd"}
      /\ hdr \in Nat /\ left \in Nat /\ out \in Nat /\ sw \in Nat /\ sw <= ServerFrame
      /\ Future \in Nat /\ Demand = hdr + left /\ Ahead = sw + out + Future
    BY <1>1, AtWork
<1>3. /\ job' = job /\ call' = call /\ hdr' = hdr /\ sw' = sw /\ down' = down
      /\ job' # NoCall /\ ~Unread'
    BY <1>1 DEF Unread, clientVars
<1>4. Demand \in Nat /\ Demand' = Demand - k
  <2>1. Demand' = hdr' + left'
    BY <1>3 DEF Demand
  <2> QED BY <1>1, <1>2, <1>3, <2>1
<1>5. left' \in Nat /\ out' \in Nat
    BY <1>2
<1>6. Ahead' = Ahead
  <2>1. Ahead' = sw' + out' + Future'
    BY <1>3 DEF Ahead
  <2>2. out' + Future' = Future
    BY <1>1, <1>2, <1>3 DEF Future
  <2>3. Future' \in Nat
    BY <1>5 DEF Future
  <2>4. PICK x, f, oo, ff \in Nat : x = sw /\ f = Future /\ oo = out' /\ ff = Future'
    BY <1>2, <1>5, <2>3
  <2>5. oo + ff = f
    BY <2>2, <2>4
  <2>6. x + oo + ff = x + 0 + f
    BY <2>5
  <2> QED BY <1>1, <1>2, <1>3, <2>1, <2>4, <2>6
<1>7. Server'
  <2>1. /\ hdr' \in 0..2 /\ sw' \in 0..ServerFrame /\ down'.unsent = 0 /\ job' = call' /\ hdr' = 0
        /\ job'.cmd \notin {"nop", "add"}
    BY <1>1, <1>2, <1>3, Bounds
  <2> QED BY <1>3, <1>5, <2>1 DEF Server
<1> QED BY <1>3, <1>4, <1>6, <1>7, ReadKeeps

LEMMA ServerReadValKeeps ==
    ASSUME IInv, ServerReadVal
    PROVE  IInv'
<1>1. 1 <= Available(up)
    BY AvailableOf DEF ServerReadVal
<1>2. 1 <= left
    BY DEF IInv, Server, ServerReadVal
<1> QED BY <1>1, <1>2, PieceKeeps DEF ServerReadVal

LEMMA HexPiece ==
    ASSUME IInv, NEW k \in 1..Lesser(Available(up), Lesser(HexRoom, left))
    PROVE  k \in Nat /\ k <= Available(up) /\ k <= left /\ k > 0 /\ k <= HexRoom
<1>1. left \in Nat /\ HexRoom \in Int /\ Available(up) \in Nat
    BY AvailableOf, Bounds, LesserOf DEF IInv, Server, HexRoom
<1>2. PICK a, r, l \in Int : a = Available(up) /\ r = HexRoom /\ l = left
    BY <1>1
<1>3. Lesser(r, l) \in Int /\ Lesser(r, l) <= l /\ Lesser(r, l) <= r
    BY LesserOf
<1>4. Lesser(a, Lesser(r, l)) \in Int /\ Lesser(a, Lesser(r, l)) <= a
      /\ Lesser(a, Lesser(r, l)) <= Lesser(r, l)
    BY <1>3, LesserOf
<1>5. k \in 1..Lesser(a, Lesser(r, l))
    BY <1>2
<1> QED BY <1>2, <1>3, <1>4, <1>5

LEMMA ServerReadHexKeeps ==
    ASSUME IInv, ServerReadHex
    PROVE  IInv'
<1>1. PICK k \in 1..Lesser(Available(up), Lesser(HexRoom, left)) :
        up' = Taken(up, k) /\ left' = left - k /\ out' = 2 * k
    BY DEF ServerReadHex
<1>2. k \in Nat /\ k <= Available(up) /\ k <= left
    BY HexPiece
<1> QED BY <1>1, <1>2, PieceKeeps DEF ServerReadHex

LEMMA ServerPutKeeps ==
    ASSUME IInv, ServerPut
    PROVE  IInv'
<1> DEFINE k == Lesser(out, ServerFrame - sw)
<1>1. /\ spc = "put" /\ out' = out - k
      /\ IF out > k
         THEN spc' = "drain" /\ sw' = 0 /\ down' = SendFrame(down, ServerFrame, FALSE)
         ELSE spc' = Loop(left) /\ sw' = sw + k /\ down' = down
      /\ UNCHANGED clientVars /\ job' = job /\ hdr' = hdr /\ left' = left /\ up' = up
    BY DEF ServerPut
<1>2. job # NoCall /\ down.unsent = 0 /\ hdr = 0 /\ (job.cmd \in {"nop", "add"} => left = 0)
    BY <1>1 DEF IInv, Server
<1>3. /\ job = call /\ call \in Calls /\ job.cmd \in {"nop", "add", "tree", "hex"}
      /\ ~Unread /\ Open /\ cpc # "idle" /\ spc \notin {"next", "cmd"}
      /\ hdr \in Nat /\ left \in Nat /\ out \in Nat /\ sw \in Nat /\ sw <= ServerFrame
      /\ Future \in Nat /\ Demand = hdr + left /\ Ahead = sw + out + Future
    BY <1>2, AtWork
<1>4. /\ cpc' = cpc /\ call' = call /\ toWrite' = toWrite /\ toRead' = toRead
      /\ job' # NoCall /\ ~Unread' /\ Open'
    BY <1>1, <1>2 DEF Unread, Open, clientVars
<1>5. PICK p, q \in Nat :
        /\ Holds(up, p) /\ toWrite + p + up.rem = Demand
        /\ Holds(down, q) /\ toRead = down.rem + q + Ahead
    BY DEF IInv, Books
<1>6. /\ k \in Nat /\ k <= out /\ k <= ServerFrame - sw
      /\ out > k => sw + k = ServerFrame
      /\ ~(out > k) => out = k /\ sw + out <= ServerFrame
  <2>1. ServerFrame \in Nat
    BY Bounds
  <2> QED BY <1>3, <2>1 DEF Lesser
<1> HIDE DEF k
<1>7. Demand' = Demand
    BY <1>1, <1>3, <1>4 DEF Demand
<1>8. Client'
    BY <1>1, <1>3, <1>4, ClientWaits
<1>9. PICK x, o, f, d, a \in Nat :
        x = sw /\ o = out /\ f = Future /\ d = down.rem /\ a = Ahead
  <2>1. down.rem \in Nat
    BY <1>5, HoldsType
  <2>2. sw + out + Future \in Nat
    BY <1>3
  <2> QED BY <1>3, <2>1, <2>2
<1>10. a = x + o + f
    BY <1>3, <1>9
<1>11. CASE out > k
  <2>1. spc' = "drain" /\ sw' = 0 /\ down' = SendFrame(down, ServerFrame, FALSE)
    BY <1>1, <1>11
  <2>2. ServerFrame \in Nat /\ ServerFrame > 0
    BY Bounds
  <2>3. Holds(down', q + ServerFrame) /\ Sent(down, down', ServerFrame, FALSE)
    <3>1. PICK e : e = down'
      OBVIOUS
    <3>2. Holds(e, q + ServerFrame) /\ Sent(down, e, ServerFrame, FALSE)
      BY <1>2, <1>5, <2>1, <2>2, <3>1, SendFrameHolds
    <3> QED BY <3>1, <3>2
  <2>4. /\ down'.rem = down.rem /\ down'.fin = down.fin
        /\ down'.frames # <<>> /\ Len(down'.frames) = Len(down.frames) + 1
        /\ \A i \in 1..Len(down'.frames) :
              IF i = Len(down'.frames)
              THEN down'.frames[i].len = ServerFrame /\ ~down'.frames[i].fin
              ELSE i \in 1..Len(down.frames) /\ down'.frames[i] = down.frames[i]
    BY <2>3 DEF Sent
  <2>5. PICK y : y = k /\ y \in Nat /\ x + y = ServerFrame /\ o > y
    BY <1>6, <1>9, <1>11
  <2>6. Ahead' = 0 + (o - y) + f
    <3>1. Future' = Future
      BY <1>1, <1>3, <2>1 DEF Future
    <3>2. Ahead' = sw' + out' + Future'
      BY <1>4 DEF Ahead
    <3> QED BY <1>1, <1>9, <2>1, <2>5, <3>1, <3>2
  <2>7. Books'
    <3>1. d + q + a = d + (q + ServerFrame) + (0 + (o - y) + f)
      BY <1>10, <2>2, <2>5
    <3>2. toRead' = down'.rem + (q + ServerFrame) + Ahead'
      BY <1>4, <1>5, <1>9, <2>4, <2>6, <3>1
    <3>3. q + ServerFrame \in Nat /\ Holds(up', p) /\ toWrite' + p + up'.rem = Demand'
      BY <1>1, <1>4, <1>5, <1>7, <2>2
    <3> QED BY <1>5, <2>3, <3>2, <3>3 DEF Books
  <2>8. Server'
    <3>1. out' \in Nat /\ sw' \in 0..ServerFrame
      BY <1>1, <1>3, <1>6, <2>1, <2>2
    <3> QED BY <1>1, <1>2, <1>3, <1>4, <2>1, <3>1 DEF Server
  <2>9. Framing'
    <3>1. Ahead' > 0
      BY <2>5, <2>6
    <3>2. \A i \in 1..Len(down.frames) :
            /\ down.frames[i].fin <=> i = Len(down.frames) /\ ~Open
            /\ down.frames[i].len = 0 => down.frames[i].fin /\ ReplyLen(call) = 0
      BY DEF IInv, Framing
    <3>3. ASSUME NEW i \in 1..Len(down'.frames)
          PROVE  /\ down'.frames[i].fin <=> i = Len(down'.frames) /\ ~Open'
                 /\ down'.frames[i].len = 0 => down'.frames[i].fin /\ ReplyLen(call') = 0
      BY <1>3, <1>4, <2>2, <2>4, <3>2
    <3>4. IF cpc' = "read"
          THEN ReplyLen(call') > 0 /\ (down'.fin <=> down'.frames = <<>> /\ ~Open')
          ELSE down'.fin = TRUE /\ down'.rem = 0
      BY <1>3, <1>4, <2>4 DEF IInv, Framing
    <3>5. /\ \A i \in 1..Len(up'.frames) :
                up'.frames[i].len > 0
                /\ (up'.frames[i].fin <=> i = Len(up'.frames) /\ toWrite' = 0)
          /\ up'.fin <=> up'.frames = <<>> /\ toWrite' = 0
      BY <1>1, <1>2, <1>4 DEF IInv, Framing
    <3> QED BY <1>4, <3>1, <3>3, <3>4, <3>5 DEF Framing
  <2> QED BY <1>8, <2>7, <2>8, <2>9 DEF IInv
<1>12. CASE ~(out > k)
  <2>1. /\ spc' = Loop(left) /\ sw' = sw + out /\ down' = down /\ out' = 0
        /\ sw + out <= ServerFrame
    BY <1>1, <1>3, <1>6, <1>12
  <2>2. /\ Loop(left) \in {"close", "val", "hex"}
        /\ Loop(left) = "close" => left = 0
        /\ Loop(left) = "val" => left > 0 /\ job.cmd = "tree"
        /\ Loop(left) = "hex" => left > 0 /\ job.cmd = "hex"
    BY <1>2, <1>3, LoopOf
  <2>3. Ahead' = Ahead
    <3>1. Future' = Future
      BY <1>1, <1>3, <2>1, <2>2 DEF Future
    <3>2. Ahead' = sw' + out' + Future'
      BY <1>4 DEF Ahead
    <3>3. (x + o) + 0 + f = x + o + f
      OBVIOUS
    <3> QED BY <1>9, <1>10, <2>1, <3>1, <3>2, <3>3
  <2>4. Books'
    BY <1>1, <1>4, <1>5, <1>7, <2>1, <2>3 DEF Books
  <2>5. Server'
    <3>1. sw' \in 0..ServerFrame /\ out' \in Nat
      BY <1>3, <2>1, Bounds
    <3>2. /\ spc' \in {"close", "val", "hex"}
          /\ spc' = "close" => left' = 0
          /\ spc' = "val" => left' > 0 /\ job'.cmd = "tree"
          /\ spc' = "hex" => left' > 0 /\ job'.cmd = "hex"
      BY <1>1, <2>1, <2>2
    <3> QED BY <1>1, <1>2, <1>3, <1>4, <2>1, <3>1, <3>2 DEF Server
  <2>6. Framing'
    BY <1>1, <1>2, <1>3, <1>4, <2>1, <2>3 DEF IInv, Framing
  <2> QED BY <1>8, <2>4, <2>5, <2>6 DEF IInv
<1> QED BY <1>11, <1>12

LEMMA ServerCloseKeeps ==
    ASSUME IInv, ServerClose
    PROVE  IInv' /\ ~Open' /\ job # NoCall
<1>1. /\ spc = "close" /\ down' = SendFrame(down, sw, TRUE)
      /\ sw' = 0 /\ job' = NoCall /\ spc' = "drain"
      /\ UNCHANGED clientVars /\ hdr' = hdr /\ left' = left /\ out' = out /\ up' = up
    BY DEF ServerClose
<1>2. job # NoCall /\ down.unsent = 0 /\ hdr = 0 /\ left = 0 /\ out = 0
    BY <1>1 DEF IInv, Server
<1>3. /\ job = call /\ call \in Calls /\ job.cmd \in {"nop", "add", "tree", "hex"}
      /\ ~Unread /\ Open /\ cpc # "idle" /\ spc \notin {"next", "cmd"}
      /\ hdr \in Nat /\ left \in Nat /\ out \in Nat /\ sw \in Nat /\ sw <= ServerFrame
      /\ Future \in Nat /\ Demand = hdr + left /\ Ahead = sw + out + Future
    BY <1>2, AtWork
<1>4. /\ cpc' = cpc /\ call' = call /\ toWrite' = toWrite /\ toRead' = toRead
      /\ toWrite \in Nat
    BY <1>1 DEF IInv, Client, clientVars
<1>5. PICK p, q \in Nat :
        /\ Holds(up, p) /\ toWrite + p + up.rem = Demand
        /\ Holds(down, q) /\ toRead = down.rem + q + Ahead
    BY DEF IInv, Books
<1>6. /\ up.rem \in Nat /\ up.fin \in BOOLEAN /\ down.rem \in Nat
      /\ Len(up.frames) \in Nat /\ \A i \in 1..Len(up.frames) : up.frames[i].len \in Nat
  <2>1. up.rem \in Nat /\ up.fin \in BOOLEAN
        /\ Len(up.frames) \in Nat /\ \A i \in 1..Len(up.frames) : up.frames[i].len \in Nat
    BY <1>5, HoldsType
  <2>2. down.rem \in Nat
    BY <1>5, HoldsType
  <2> QED BY <2>1, <2>2
<1>7. toWrite = 0 /\ p = 0 /\ up.rem = 0 /\ Demand = 0 /\ Ahead = sw
  <2>1. Demand = 0
    BY <1>2, <1>3
  <2>2. Future = 0
    BY <1>1, <1>2 DEF Future
  <2>3. PICK w, r \in Nat : w = toWrite /\ r = up.rem
    BY <1>4, <1>6
  <2>4. w + p + r = 0
    BY <1>5, <2>1, <2>3
  <2>5. w = 0 /\ p = 0 /\ r = 0
    BY <2>4
  <2> QED BY <1>2, <1>3, <2>1, <2>2, <2>3, <2>5
<1>8. up.frames = <<>>
  <2>1. ASSUME up.frames # <<>> PROVE FALSE
    <3>1. 1 \in 1..Len(up.frames) /\ up.frames[1].len <= p
      BY <1>5, <2>1, NoFrames
    <3>2. up.frames[1].len > 0
      BY <3>1 DEF IInv, Framing
    <3> QED BY <1>6, <1>7, <3>1, <3>2
  <2> QED BY <2>1
<1>9. up.fin = TRUE
    BY <1>2, <1>6, <1>7, <1>8 DEF IInv, Framing
<1>10. ~Unread' /\ ~Open' /\ Demand' = 0 /\ Ahead' = 0
    BY <1>1, <1>4, <1>7, <1>8 DEF Unread, Open, Demand, Ahead
<1>11. Holds(down', q + sw) /\ Sent(down, down', sw, TRUE)
  <2>1. PICK e, n : e = down' /\ n = sw
    OBVIOUS
  <2>2. Holds(e, q + n) /\ Sent(down, e, n, TRUE)
    BY <1>1, <1>2, <1>3, <1>5, <2>1, SendFrameHolds
  <2> QED BY <2>1, <2>2
<1>12. /\ down'.rem = down.rem /\ down'.fin = down.fin
       /\ down'.frames # <<>> /\ Len(down'.frames) = Len(down.frames) + 1
       /\ \A i \in 1..Len(down'.frames) :
             IF i = Len(down'.frames)
             THEN down'.frames[i].len = sw /\ down'.frames[i].fin
             ELSE i \in 1..Len(down.frames) /\ down'.frames[i] = down.frames[i]
    BY <1>11 DEF Sent
<1>13. Books'
  <2>1. PICK x, d \in Nat : x = sw /\ d = down.rem
    BY <1>3, <1>6
  <2>2. toRead = d + q + x
    BY <1>5, <1>7, <2>1
  <2>3. d + q + x = d + (q + x) + 0 /\ q + x \in Nat
    OBVIOUS
  <2>4. q + sw \in Nat /\ toRead' = down'.rem + (q + sw) + Ahead'
    BY <1>4, <1>10, <1>12, <2>1, <2>2, <2>3
  <2>5. Holds(up', p) /\ toWrite' + p + up'.rem = Demand'
    BY <1>1, <1>4, <1>5, <1>7, <1>10
  <2> QED BY <1>5, <1>11, <2>4, <2>5 DEF Books
<1>14. Client'
    BY <1>1, <1>3, <1>10, ClientWaits
<1>15. Server'
  <2>1. sw' \in 0..ServerFrame
    BY <1>1, Bounds
  <2>2. job'.cmd \notin {"nop", "add"}
    BY <1>1 DEF NoCall
  <2> QED BY <1>1, <1>2, <1>3, <2>1, <2>2 DEF IInv, Server
<1>16. Framing'
  <2>1. \A i \in 1..Len(down.frames) :
          /\ down.frames[i].fin <=> i = Len(down.frames) /\ ~Open
          /\ down.frames[i].len = 0 => down.frames[i].fin /\ ReplyLen(call) = 0
    BY DEF IInv, Framing
  <2>2. sw = 0 => ReplyLen(call) = 0
    <3>1. ReplyLen(call) \in Nat
      BY <1>3, CallLengths
    <3> QED BY <1>3, <1>7, <3>1 DEF IInv, Framing
  <2>3. ASSUME NEW i \in 1..Len(down'.frames)
        PROVE  /\ down'.frames[i].fin <=> i = Len(down'.frames) /\ ~Open'
               /\ down'.frames[i].len = 0 => down'.frames[i].fin /\ ReplyLen(call') = 0
    <3>1. CASE i = Len(down'.frames)
      BY <1>4, <1>10, <1>12, <2>2, <3>1
    <3>2. CASE i # Len(down'.frames)
      BY <1>3, <1>12, <2>1, <3>2
    <3> QED BY <3>1, <3>2
  <2>4. IF cpc' = "read"
        THEN ReplyLen(call') > 0 /\ (down'.fin <=> down'.frames = <<>> /\ ~Open')
        ELSE down'.fin = TRUE /\ down'.rem = 0
    BY <1>3, <1>4, <1>12 DEF IInv, Framing
  <2>5. /\ \A i \in 1..Len(up'.frames) :
              up'.frames[i].len > 0
              /\ (up'.frames[i].fin <=> i = Len(up'.frames) /\ toWrite' = 0)
        /\ up'.fin = TRUE /\ up'.rem = 0
    BY <1>1, <1>4, <1>7, <1>9 DEF IInv, Framing
  <2> QED BY <1>1, <1>10, <2>3, <2>4, <2>5 DEF Framing
<1> QED BY <1>2, <1>10, <1>13, <1>14, <1>15, <1>16 DEF IInv

LEMMA ServerFlushKeeps ==
    ASSUME IInv, ServerFlush
    PROVE  IInv'
<1>1. /\ spc = "drain" /\ UNCHANGED clientVars /\ job' = job /\ hdr' = hdr /\ left' = left
      /\ out' = out /\ sw' = sw /\ up' = up
      /\ \/ \E k \in 1..Lesser(down.unsent, NetBuf - down.here) :
               down' = Pushed(down, k) /\ spc' = spc
         \/ /\ down.unsent = 0 /\ down' = down
            /\ spc' = IF job = NoCall THEN "next" ELSE "put"
    BY DEF ServerFlush
<1>2. cpc' = cpc /\ call' = call /\ toWrite' = toWrite /\ toRead' = toRead
    BY <1>1 DEF clientVars
<1>3. PICK p, q \in Nat :
        /\ Holds(up, p) /\ toWrite + p + up.rem = Demand
        /\ Holds(down, q) /\ toRead = down.rem + q + Ahead
    BY DEF IInv, Books
<1>4. (Unread' <=> Unread) /\ (Open' <=> Open) /\ spc' \in {"drain", "next", "put"}
    BY <1>1, <1>2 DEF Unread, Open
<1>5. Demand' = Demand /\ Ahead' = Ahead
  <2>1. Future' = Future
    BY <1>1, <1>4 DEF Future
  <2> QED BY <1>1, <1>2, <1>4, <2>1 DEF Demand, Ahead
<1>6. /\ Holds(down', q) /\ down'.rem = down.rem /\ down'.fin = down.fin
      /\ down'.frames = down.frames
      /\ down' = down \/ down # Quiet
  <2>1. CASE down' = down
    BY <1>3, <2>1
  <2>2. ASSUME NEW k \in 1..Lesser(down.unsent, NetBuf - down.here), down' = Pushed(down, k)
        PROVE  /\ Holds(down', q) /\ down'.rem = down.rem /\ down'.fin = down.fin
               /\ down'.frames = down.frames
               /\ down # Quiet
    <3>1. /\ Holds(down', q) /\ down'.rem = down.rem /\ down'.fin = down.fin
          /\ down'.frames = down.frames /\ k <= down.unsent
      BY <1>3, <2>2, PushedHolds
    <3>2. down.unsent \in Nat /\ down.here \in 0..NetBuf
      BY <1>3, HoldsType
    <3>3. down.unsent > 0
      BY <2>2, <3>1, <3>2, Bounds DEF Lesser
    <3> QED BY <3>1, <3>3 DEF Quiet
  <2> QED BY <1>1, <2>1, <2>2
<1>7. Books'
    BY <1>1, <1>2, <1>3, <1>5, <1>6 DEF Books
<1>8. Client'
  <2>1. down' = down \/ cpc # "idle"
    BY <1>6 DEF IInv, Client
  <2>2. Unread => down' = down
    BY <1>6 DEF IInv, Client
  <2>3. up'.unsent = up.unsent
    BY <1>1
  <2> QED BY <1>1, <1>4, <2>1, <2>2, <2>3, ClientWaits
<1>9. Server'
    BY <1>1, <1>2 DEF IInv, Server
<1>10. Framing'
    BY <1>1, <1>2, <1>4, <1>5, <1>6 DEF IInv, Framing
<1> QED BY <1>7, <1>8, <1>9, <1>10 DEF IInv

LEMMA StutterKeeps ==
    ASSUME IInv, UNCHANGED vars
    PROVE  IInv'
<1>1. /\ cpc' = cpc /\ call' = call /\ toWrite' = toWrite /\ toRead' = toRead
      /\ spc' = spc /\ job' = job /\ hdr' = hdr /\ left' = left /\ out' = out /\ sw' = sw
      /\ up' = up /\ down' = down
    BY DEF vars, clientVars, jobVars
<1>2. (Unread' <=> Unread) /\ (Open' <=> Open) /\ Demand' = Demand /\ Ahead' = Ahead
    BY <1>1 DEF Unread, Open, Demand, Ahead, Future
<1>3. Books'
    BY <1>1, <1>2 DEF IInv, Books
<1>4. Client' /\ Server' /\ Framing'
    BY <1>1, <1>2 DEF IInv, Client, Server, Framing
<1> QED BY <1>3, <1>4 DEF IInv

LEMMA StepKeeps == IInv /\ [Next]_vars => IInv'
BY StartCallKeeps, ClientFillKeeps, ClientFlushKeeps, ClientNextKeeps, ClientReadKeeps,
   ServerFrameHeaderKeeps, ServerReadCmdKeeps, ServerReadIntKeeps, ServerReadValKeeps,
   ServerReadHexKeeps, ServerPutKeeps, ServerCloseKeeps, ServerFlushKeeps, StutterKeeps
   DEF Next, ClientStep, ServerStep

-----------------------------------------------------------------------------
(* The theorems. *)

(* Every reachable state satisfies the inductive invariant. *)
THEOREM Invariance == Spec => []IInv
BY InitHolds, StepKeeps, PTL DEF Spec

(* Nothing is read past the end of a frame, a message or a payload, and no frame or
   buffer outgrows its size, for all payloads, frames and socket buffers. *)
THEOREM TypeCorrect == Spec => []TypeOK
<1>1. IInv => TypeOK
  <2> SUFFICES ASSUME IInv PROVE TypeOK
    OBVIOUS
  <2>1. PICK p, q \in Nat : Holds(up, p) /\ Holds(down, q)
    BY DEF IInv, Books
  <2>2. Direction(up)
    <3>1. /\ up.unsent \in Nat /\ up.here \in 0..NetBuf /\ up.rem \in Nat /\ up.fin \in BOOLEAN
          /\ up.frames \in Seq(Frame)
      BY <2>1, HoldsType
    <3>2. \A i \in DOMAIN up.frames : up.frames[i] \in Frame
      <4> HIDE DEF Frame
      <4> QED BY <3>1
    <3> QED BY <3>1, <3>2 DEF Direction, Frame
  <2>3. Direction(down)
    <3>1. /\ down.unsent \in Nat /\ down.here \in 0..NetBuf /\ down.rem \in Nat
          /\ down.fin \in BOOLEAN /\ down.frames \in Seq(Frame)
      BY <2>1, HoldsType
    <3>2. \A i \in DOMAIN down.frames : down.frames[i] \in Frame
      <4> HIDE DEF Frame
      <4> QED BY <3>1
    <3> QED BY <3>1, <3>2 DEF Direction, Frame
  <2>4. job \in Calls \cup {NoCall}
    BY DEF IInv, Client, Server
  <2> QED BY <2>2, <2>3, <2>4 DEF IInv, Client, Server, TypeOK
<1> QED BY Invariance, <1>1, PTL

(* Between calls no frame, no unit and no unfinished message is left in either
   direction, whatever frames the replies were cut into. *)
THEOREM MessagesEndTogether == Spec => []Aligned
<1>1. IInv => Aligned
    BY AtRest DEF IInv, Client, Aligned
<1> QED BY Invariance, <1>1, PTL

-----------------------------------------------------------------------------
(* Refinement. *)

(* A call waits in the queue while its command is unread or its reply not closed. *)
LEMMA TodoIs ==
    ASSUME IInv
    PROVE  Todo = IF Open THEN <<call>> ELSE <<>>
<1>1. CASE job # NoCall
    BY <1>1, AtWork DEF Todo
<1>2. CASE job = NoCall /\ Unread
  <2>1. cpc \in {"fill", "flush", "next"} /\ call \in Calls /\ toWrite \in Nat
    BY <1>2 DEF IInv, Client
  <2>2. cpc = "next" => up # Quiet
    <3>1. SUFFICES ASSUME cpc = "next", up = Quiet PROVE FALSE
      OBVIOUS
    <3>2. up.frames = <<>> /\ up.rem = 0 /\ up.unsent = 0
      BY <3>1 DEF Quiet
    <3>3. toWrite = 0
      BY <2>1, <3>1, <3>2 DEF IInv, Client
    <3>4. PICK p \in Nat : Holds(up, p) /\ toWrite + p + up.rem = Demand
      BY DEF IInv, Books
    <3>5. p = 0
      BY <3>2, <3>4, NoFrames
    <3>6. Demand \in Nat \ {0}
      BY <1>2, <2>1, CallLengths DEF Demand
    <3> QED BY <3>2, <3>3, <3>4, <3>5, <3>6
  <2> QED BY <1>2, <2>1, <2>2 DEF Todo, Open
<1>3. CASE ~Open
  <2>1. job = NoCall /\ up = Quiet /\ toWrite = 0
    BY <1>3, AtRest
  <2>2. up.unsent = 0
    BY <2>1 DEF Quiet
  <2>3. cpc \notin {"fill", "flush"}
    BY <2>1, <2>2 DEF IInv, Client
  <2> QED BY <1>3, <2>1, <2>3 DEF Todo
<1> QED BY <1>1, <1>2, <1>3 DEF Open

LEMMA InitRefines == Init => Queue!Init
BY DEF Init, Queue!Init, Todo, NoCall

(* Every step of the connection is a step of the queue or leaves it alone. *)
LEMMA StepRefines == IInv /\ [Next]_vars => [Queue!Next]_(Queue!vars)
<1> DEFINE C == IF cpc = "idle" THEN "idle" ELSE "waiting"
<1> SUFFICES ASSUME IInv, [Next]_vars
             PROVE  Queue!Next \/ UNCHANGED <<Todo, C, call>>
    BY DEF Queue!vars
<1>1. IInv'
    BY StepKeeps
<1>2. Todo = IF Open THEN <<call>> ELSE <<>>
    BY TodoIs
<1>3. Todo' = IF Open' THEN <<call'>> ELSE <<>>
  <2>1. (IInv => Todo = IF Open THEN <<call>> ELSE <<>>)'
    BY TodoIs, PTL
  <2> QED BY <1>1, <2>1
<1>4. ASSUME NEW c \in Calls, StartCall(c) PROVE Queue!Next
  <2>1. cpc = "idle" /\ ~Open /\ cpc' = "fill" /\ call' = c /\ job' = job
    BY <1>4 DEF IInv, Client, StartCall, jobVars
  <2>2. Todo = <<>> /\ job = NoCall
    BY <1>2, <2>1 DEF Open
  <2>3. Todo' = <<c>>
    BY <2>1, <2>2 DEF Todo
  <2>4. Todo' = Append(Todo, c)
    BY <2>2, <2>3
  <2>5. Queue!Issue(c)
    BY <2>1, <2>4 DEF Queue!Issue
  <2> QED BY <2>5 DEF Queue!Next
<1>5. CASE ClientFill
  <2>1. /\ cpc = "fill" /\ cpc' = "flush" /\ call' = call /\ job' = job
    BY <1>5 DEF ClientFill, jobVars
  <2> QED BY <2>1 DEF Todo
<1>6. CASE ClientFlush \/ ClientNext \/ ClientRead
  <2>1. /\ cpc # "idle" /\ call' = call /\ job' = job /\ spc' = spc /\ toWrite' = toWrite
        /\ up'.frames = up.frames
    <3>1. CASE ClientFlush
      <4>1. /\ cpc # "idle" /\ call' = call /\ job' = job /\ spc' = spc /\ toWrite' = toWrite
            /\ \E k \in 1..Lesser(up.unsent, NetBuf - up.here) : up' = Pushed(up, k)
        BY <3>1 DEF ClientFlush, jobVars
      <4>2. PICK p \in Nat : Holds(up, p)
        BY DEF IInv, Books
      <4>3. up'.frames = up.frames
        BY <4>1, <4>2, PushedHolds
      <4> QED BY <4>1, <4>3
    <3>2. CASE ClientNext \/ ClientRead
      BY <3>2 DEF ClientNext, ClientRead, jobVars
    <3> QED BY <1>6, <3>1, <3>2
  <2>2. (Open' <=> Open) /\ Todo' = Todo
    BY <1>2, <1>3, <2>1 DEF Open, Unread
  <2>3. CASE cpc' = "idle"
    <3>1. ~Open'
      BY <1>1, <2>3 DEF IInv, Client
    <3>2. Todo = <<>>
      BY <1>2, <2>2, <3>1
    <3>3. Queue!Return
      BY <2>1, <2>2, <2>3, <3>2 DEF Queue!Return
    <3> QED BY <3>3 DEF Queue!Next
  <2>4. CASE cpc' # "idle"
    BY <2>1, <2>2, <2>4
  <2> QED BY <2>3, <2>4
<1>7. CASE ServerStep
  <2>1. cpc' = cpc /\ call' = call /\ toWrite' = toWrite
    BY <1>7 DEF ServerStep, ServerFrameHeader, ServerReadCmd, ServerReadInt, ServerReadVal,
       ServerReadHex, ServerPut, ServerClose, ServerFlush, clientVars
  <2>2. CASE ServerClose
    <3>1. ~Open' /\ Open
      BY <2>2, ServerCloseKeeps DEF Open
    <3>2. Todo = <<call>> /\ Todo' = <<>>
      BY <1>2, <1>3, <3>1
    <3>3. Todo # <<>> /\ Todo' = Tail(Todo)
      BY <3>2
    <3>4. Queue!Execute
      BY <2>1, <3>3 DEF Queue!Execute
    <3> QED BY <3>4 DEF Queue!Next
  <2>3. CASE ServerFrameHeader
    <3>1. /\ up.frames # <<>> /\ job' = job
          /\ spc' = "cmd" \/ spc \in {"int", "val", "hex"}
      BY <2>3 DEF ServerFrameHeader, HasHeader
    <3>2. Open /\ (spc \in {"int", "val", "hex"} => job # NoCall)
      BY <3>1 DEF IInv, Server, Open, Unread
    <3>3. Open'
      BY <3>1, <3>2 DEF Open, Unread
    <3> QED BY <1>2, <1>3, <2>1, <3>2, <3>3
  <2>4. CASE ServerReadCmd
    <3>1. job' = call /\ spc = "cmd" /\ call # NoCall
      BY <2>4, CallCases DEF IInv, Client, ServerReadCmd
    <3>2. Open /\ Open'
      BY <3>1 DEF Open, Unread
    <3> QED BY <1>2, <1>3, <2>1, <3>2
  <2>5. CASE ServerReadInt \/ ServerReadVal \/ ServerReadHex \/ ServerPut
    <3>1. job' = job /\ spc \in {"int", "val", "hex", "put"}
      BY <2>5 DEF ServerReadInt, ServerReadVal, ServerReadHex, ServerPut
    <3>2. job # NoCall
      BY <3>1 DEF IInv, Server
    <3>3. Open /\ Open'
      BY <3>1, <3>2 DEF Open
    <3> QED BY <1>2, <1>3, <2>1, <3>3
  <2>6. CASE ServerFlush
    <3>1. /\ job' = job /\ spc = "drain" /\ up' = up /\ spc' # "cmd"
      BY <2>6 DEF ServerFlush
    <3>2. Open' <=> Open
      BY <2>1, <3>1 DEF Open, Unread
    <3> QED BY <1>2, <1>3, <2>1, <3>2
  <2> QED BY <1>7, <2>2, <2>3, <2>4, <2>5, <2>6 DEF ServerStep
<1>8. CASE UNCHANGED vars
    BY <1>8 DEF vars, clientVars, jobVars, Todo
<1> QED BY <1>4, <1>5, <1>6, <1>7, <1>8 DEF Next, ClientStep

(* The connection implements the queue without an exception: every call, that with
   an empty reply too, returns after it was executed, and none is executed twice or
   out of order. *)
THEOREM Refinement == Spec => RefinesRpcQueue
BY InitRefines, StepRefines, Invariance, PTL DEF Spec, RefinesRpcQueue, Queue!Spec

-----------------------------------------------------------------------------
(* Frames are full, and what that says of calls that do not return. *)

(* A frame of a request is full but for the last one, and all but the last one are in
   the socket buffers when that one is being sent. *)
FullRequests ==
    /\ \A i \in 1..Len(up.frames) : up.frames[i].len <= ClientFrame
    /\ up.frames # <<>> => (Len(up.frames) - 1) * (ClientFrame + 1) + up.rem <= up.here
    /\ toWrite > 0 => Len(up.frames) * (ClientFrame + 1) + up.rem <= up.here + up.unsent

(* So is a frame of a reply, and what does not fit it remains to be put. *)
FullReplies ==
    /\ \A i \in 1..Len(down.frames) : ~down.frames[i].fin => down.frames[i].len = ServerFrame
    /\ cpc \in {"fill", "flush", "next"} /\ ~Open => down.frames # <<>>
    /\ spc = "cmd" => up.rem > 0
    /\ spc = "drain" /\ job # NoCall => out > 0
    /\ job # NoCall => left <= job.n

Full == FullRequests /\ FullReplies

LEMMA OneMore ==
    ASSUME NEW m \in Int, NEW c \in Nat
    PROVE  m * c \in Int /\ (m + 1) * c = m * c + c /\ (m - 1) * c = m * c - c
OBVIOUS

LEMMA InitFull == Init => Full
<1> SUFFICES ASSUME Init PROVE Full
    OBVIOUS
<1>1. up.frames = <<>> /\ up.rem = 0 /\ up.here = 0 /\ up.unsent = 0 /\ down.frames = <<>>
    BY DEF Init, Quiet
<1>2. Len(up.frames) = 0 /\ Len(down.frames) = 0 /\ toWrite = 0
    BY <1>1 DEF Init
<1>3. FullRequests
    BY <1>1, <1>2 DEF FullRequests
<1>4. FullReplies
    BY <1>2 DEF Init, FullReplies
<1> QED BY <1>3, <1>4 DEF Full

(* A header is read only of a call whose reply is open. *)
LEMMA HeaderOfOpen ==
    ASSUME IInv, ServerFrameHeader
    PROVE  Open /\ Open'
<1>1. /\ up.frames # <<>> /\ job' = job
      /\ spc' = "cmd" \/ spc \in {"int", "val", "hex"}
    BY DEF ServerFrameHeader, HasHeader
<1>2. Open /\ (spc \in {"int", "val", "hex"} => job # NoCall)
    BY <1>1 DEF IInv, Server, Open, Unread
<1> QED BY <1>1, <1>2 DEF Open, Unread

(* What the steps do to FullRequests. *)

LEMMA FillsFully ==
    ASSUME IInv, FullRequests, ClientFill
    PROVE  FullRequests'
<1> DEFINE k == Lesser(toWrite, ClientFrame)
           last == (toWrite = k)
<1>1. /\ toWrite \in Nat /\ toWrite > 0 /\ up.unsent = 0
      /\ toWrite' = toWrite - k /\ up' = SendFrame(up, k, last)
    BY DEF IInv, Client, ClientFill
<1>2. ClientFrame \in Nat \ {0}
    BY Bounds
<1>3. k \in Nat /\ k <= ClientFrame /\ (toWrite - k > 0 => k = ClientFrame) /\ last \in BOOLEAN
    BY <1>1, <1>2 DEF Lesser
<1>4. PICK p \in Nat : Holds(up, p)
    BY DEF IInv, Books
<1> HIDE DEF k, last
<1>5. Holds(up', p + k) /\ Sent(up, up', k, last)
  <2>1. PICK e : e = up'
    OBVIOUS
  <2>2. Holds(e, p + k) /\ Sent(up, e, k, last)
    BY <1>1, <1>3, <1>4, <2>1, SendFrameHolds
  <2> QED BY <2>1, <2>2
<1>6. /\ up'.rem = up.rem /\ up'.unsent = k + 1 /\ up'.frames # <<>>
      /\ Len(up'.frames) = Len(up.frames) + 1
      /\ \A i \in 1..Len(up'.frames) :
            up'.frames[i].len = k \/ (i \in 1..Len(up.frames) /\ up'.frames[i] = up.frames[i])
    BY <1>5 DEF Sent
<1>7. Len(up.frames) \in Nat /\ up.here \in Nat /\ up.rem \in Nat
      /\ up.here + up.unsent = p + Len(up.frames) + up.rem
    BY <1>4, HoldsType
<1>8. up'.here \in Nat /\ up'.here + up'.unsent = (p + k) + Len(up'.frames) + up'.rem
    BY <1>5, HoldsType
<1>9. PICK m, h, r, c, u \in Nat :
        m = Len(up.frames) /\ h = up.here /\ r = up.rem /\ c = ClientFrame + 1 /\ u = up'.here
  <2>1. ClientFrame + 1 \in Nat
    BY <1>2
  <2> QED BY <1>7, <1>8, <2>1
<1>10. u = h
  <2>1. h + 0 = p + m + r
    BY <1>1, <1>7, <1>9
  <2>2. u + (k + 1) = (p + k) + (m + 1) + r
    BY <1>6, <1>8, <1>9
  <2> QED BY <1>3, <2>1, <2>2
<1>11. m * c + r <= h
    BY <1>1, <1>9 DEF FullRequests
<1>12. m * c \in Int /\ (m + 1) * c = m * c + c /\ ((m + 1) - 1) * c = m * c
    BY OneMore
<1>13. \A i \in 1..Len(up'.frames) : up'.frames[i].len <= ClientFrame
    BY <1>3, <1>6 DEF FullRequests
<1>14. (Len(up'.frames) - 1) * (ClientFrame + 1) + up'.rem <= up'.here
    BY <1>6, <1>9, <1>10, <1>11, <1>12
<1>15. toWrite' > 0 => Len(up'.frames) * (ClientFrame + 1) + up'.rem <= up'.here + up'.unsent
  <2>1. SUFFICES ASSUME toWrite' > 0
                 PROVE  Len(up'.frames) * (ClientFrame + 1) + up'.rem <= up'.here + up'.unsent
    OBVIOUS
  <2>2. k + 1 = c
    BY <1>1, <1>3, <1>9, <2>1
  <2>3. (m + 1) * c + r <= h + c
    BY <1>11, <1>12
  <2> QED BY <1>6, <1>9, <1>10, <2>2, <2>3
<1> QED BY <1>13, <1>14, <1>15 DEF FullRequests

(* The frames stay, and both sides of what FullRequests says of them change alike. *)
LEMMA KeepsFull ==
    ASSUME IInv, FullRequests, IInv', NEW k \in Int,
           up'.frames = up.frames, up'.rem = up.rem - k,
           up'.here >= up.here - k, up'.here + up'.unsent = (up.here + up.unsent) - k,
           toWrite' = toWrite
    PROVE  FullRequests'
<1>1. /\ Len(up.frames) \in Nat /\ up.here \in Nat /\ up.rem \in Nat /\ up.unsent \in Nat
      /\ up'.here \in Nat /\ up'.unsent \in Nat
  <2>1. PICK p \in Nat : Holds(up, p)
    BY DEF IInv, Books
  <2>2. PICK r \in Nat : Holds(up', r)
    BY DEF IInv, Books
  <2> QED BY <2>1, <2>2, HoldsType
<1>2. ClientFrame \in Nat
    BY Bounds
<1>3. PICK x, y \in Int : /\ x = Len(up.frames) * (ClientFrame + 1)
                          /\ y = (Len(up.frames) - 1) * (ClientFrame + 1)
  <2>1. PICK m, c \in Nat : m = Len(up.frames) /\ c = ClientFrame + 1
    <3>1. ClientFrame + 1 \in Nat
      BY <1>2
    <3> QED BY <1>1, <3>1
  <2>2. m * c \in Int /\ (m - 1) * c \in Int
    BY <2>1
  <2> QED BY <2>1, <2>2
<1>4. up.frames # <<>> => y + up.rem <= up.here
    BY <1>3 DEF FullRequests
<1>5. toWrite > 0 => x + up.rem <= up.here + up.unsent
    BY <1>3 DEF FullRequests
<1>a. PICK h, u, r, i, v \in Nat :
         /\ h = up.here /\ u = up.unsent /\ r = up.rem
         /\ i = up'.here /\ v = up'.unsent
    BY <1>1
<1>b. up'.rem = r - k /\ i >= h - k /\ i + v = (h + u) - k
    BY <1>a
<1>6. up.frames # <<>> => y + up'.rem <= up'.here
  <2>1. y + r <= h => y + (r - k) <= i
    BY <1>b
  <2> QED BY <1>4, <1>a, <1>b, <2>1
<1>7. toWrite > 0 => x + up'.rem <= up'.here + up'.unsent
  <2>1. x + r <= h + u => x + (r - k) <= i + v
    BY <1>b
  <2> QED BY <1>5, <1>a, <1>b, <2>1
<1> QED BY <1>3, <1>6, <1>7 DEF FullRequests

LEMMA HeaderKeepsFull ==
    ASSUME IInv, FullRequests, ServerFrameHeader
    PROVE  FullRequests'
<1>1. HasHeader(up) /\ up' = NextFrame(up) /\ toWrite' = toWrite /\ toWrite \in Nat
    BY DEF IInv, Client, ServerFrameHeader, clientVars
<1>2. PICK p \in Nat : Holds(up, p)
    BY DEF IInv, Books
<1>3. /\ p - up'.rem \in Nat /\ Holds(up', p - up'.rem)
      /\ up'.rem = up.frames[1].len /\ up'.unsent = up.unsent
      /\ Len(up'.frames) = Len(up.frames) - 1 /\ 1 \in 1..Len(up.frames) /\ up.rem = 0
      /\ \A i \in 1..Len(up'.frames) :
            i + 1 \in 1..Len(up.frames) /\ up'.frames[i] = up.frames[i + 1]
    BY <1>1, <1>2, NextFrameHolds
<1>4. /\ Len(up.frames) \in Nat /\ up.here \in Nat /\ up.unsent \in Nat
      /\ up.here + up.unsent = p + Len(up.frames) + up.rem
      /\ \A i \in 1..Len(up.frames) : up.frames[i].len \in Nat
    BY <1>2, HoldsType
<1>5. PICK q \in Nat : q = p - up'.rem /\ Holds(up', q)
    BY <1>3
<1>6. up'.here \in Nat /\ up'.here + up'.unsent = q + Len(up'.frames) + up'.rem
    BY <1>5, HoldsType
<1>7. \A i \in 1..Len(up.frames) : up.frames[i].len <= ClientFrame
    BY DEF FullRequests
<1>8. ClientFrame \in Nat /\ up'.rem \in Nat /\ up'.rem <= ClientFrame
    BY <1>3, <1>4, <1>7, Bounds
<1>9. PICK m, h, u, r, c, g \in Nat :
        /\ m = Len(up.frames) /\ h = up.here /\ u = up.unsent /\ r = up'.rem
        /\ c = ClientFrame + 1 /\ g = up'.here
  <2>1. ClientFrame + 1 \in Nat
    BY <1>8
  <2> QED BY <1>4, <1>6, <1>8, <2>1
<1>10. m > 0 /\ r < c /\ g = h - 1
  <2>1. h + u = p + m + 0 /\ g + u = q + (m - 1) + r /\ q = p - r
    BY <1>3, <1>4, <1>5, <1>6, <1>9
  <2>2. m > 0
    BY <1>3, <1>9
  <2>3. r < c
    BY <1>8, <1>9
  <2>4. g = h - 1
    BY <2>1
  <2> QED BY <2>2, <2>3, <2>4
<1>11. /\ m * c \in Int /\ (m - 1) * c \in Int /\ (m - 1) * c = m * c - c
       /\ ((m - 1) - 1) * c = (m - 1) * c - c
    BY OneMore
<1>12. (m - 1) * c <= h
    BY <1>3, <1>4, <1>9, <1>10 DEF FullRequests
<1>13. toWrite > 0 => m * c <= h + u
    BY <1>3, <1>9, <1>11 DEF FullRequests
<1>14. \A i \in 1..Len(up'.frames) : up'.frames[i].len <= ClientFrame
    BY <1>3, <1>7
<1>15. (Len(up'.frames) - 1) * (ClientFrame + 1) + up'.rem <= up'.here
  <2>1. ((m - 1) - 1) * c + r <= h - 1
    BY <1>10, <1>11, <1>12
  <2> QED BY <1>3, <1>9, <1>10, <2>1
<1>16. toWrite' > 0 => Len(up'.frames) * (ClientFrame + 1) + up'.rem <= up'.here + up'.unsent
  <2>1. toWrite > 0 => (m - 1) * c + r <= (h - 1) + u
    BY <1>10, <1>11, <1>13
  <2> QED BY <1>1, <1>3, <1>9, <1>10, <2>1
<1> QED BY <1>14, <1>15, <1>16 DEF FullRequests

LEMMA TakenKeepsFull ==
    ASSUME IInv, FullRequests, IInv', NEW k \in Nat, k <= Available(up), up' = Taken(up, k),
           toWrite' = toWrite
    PROVE  FullRequests'
<1>1. PICK p \in Nat : Holds(up, p)
    BY DEF IInv, Books
<1>2. /\ Holds(up', p) /\ up'.rem = up.rem - k
      /\ up'.unsent = up.unsent /\ up'.frames = up.frames
    BY <1>1, TakenHolds
<1>3. /\ up.here \in Nat /\ up.unsent \in Nat /\ up.rem \in Nat /\ Len(up.frames) \in Nat
      /\ up.here + up.unsent = p + Len(up.frames) + up.rem
    BY <1>1, HoldsType
<1>4. up'.here \in Nat /\ up'.here + up'.unsent = p + Len(up'.frames) + up'.rem
  <2>1. Holds(up', p)
    BY <1>2
  <2>2. PICK e : e = up'
    OBVIOUS
  <2>3. e.here \in 0..NetBuf /\ e.here + e.unsent = p + Len(e.frames) + e.rem
    BY <2>1, <2>2, HoldsType
  <2> QED BY <2>2, <2>3, Bounds
<1>5. PICK m, h, u, r, g \in Nat :
        m = Len(up.frames) /\ h = up.here /\ u = up.unsent /\ r = up.rem /\ g = up'.here
    BY <1>3, <1>4
<1>6. g = h - k
  <2>1. h + u = p + m + r
    BY <1>3, <1>5
  <2>2. g + u = p + m + (r - k)
    BY <1>2, <1>4, <1>5
  <2> QED BY <2>1, <2>2
<1>7. up'.here >= up.here - k /\ up'.here + up'.unsent = (up.here + up.unsent) - k
  <2>1. g >= h - k /\ g + u = (h + u) - k
    BY <1>6
  <2> QED BY <1>2, <1>5, <2>1
<1> QED BY <1>2, <1>7, KeepsFull

(* What a step of the server reads. *)
LEMMA ReadsTake ==
    ASSUME IInv, ServerReadCmd \/ ServerReadInt \/ ServerReadVal \/ ServerReadHex
    PROVE  /\ \E k \in Nat : k <= Available(up) /\ up' = Taken(up, k)
           /\ UNCHANGED clientVars /\ down' = down
<1>1. Available(up) \in Nat
    BY AvailableOf
<1>2. CASE ServerReadHex
  <2>1. PICK k \in 1..Lesser(Available(up), Lesser(HexRoom, left)) : up' = Taken(up, k)
    BY <1>2 DEF ServerReadHex
  <2>2. k \in Nat /\ k <= Available(up)
    BY HexPiece
  <2> QED BY <1>2, <2>1, <2>2 DEF ServerReadHex
<1>3. CASE ServerReadCmd \/ ServerReadInt \/ ServerReadVal
  <2>1. /\ Available(up) > 0 /\ up' = Taken(up, 1)
        /\ UNCHANGED clientVars /\ down' = down
    BY <1>3 DEF ServerReadCmd, ServerReadInt, ServerReadVal
  <2>2. 1 <= Available(up)
    BY <1>1, <2>1
  <2> QED BY <2>1, <2>2
<1> QED BY <1>2, <1>3

LEMMA RequestsStayFull == IInv /\ FullRequests /\ [Next]_vars => FullRequests'
<1> SUFFICES ASSUME IInv, FullRequests, [Next]_vars
             PROVE  FullRequests'
    OBVIOUS
<1>1. IInv'
    BY StepKeeps
<1>2. ASSUME NEW c \in Calls, StartCall(c) PROVE FullRequests'
  <2>1. ~Open /\ up' = up
    BY <1>2 DEF IInv, Client, StartCall
  <2>2. up'.frames = <<>> /\ up'.rem = 0 /\ up'.here = 0 /\ up'.unsent = 0
    BY <2>1, AtRest DEF Quiet
  <2>3. Len(up'.frames) = 0 /\ ClientFrame \in Nat
    BY <2>2, Bounds
  <2> QED BY <2>2, <2>3 DEF FullRequests
<1>3. CASE ClientFlush
  <2>1. PICK p \in Nat : Holds(up, p)
    BY DEF IInv, Books
  <2>2. PICK k \in 1..Lesser(up.unsent, NetBuf - up.here) : up' = Pushed(up, k)
    BY <1>3 DEF ClientFlush
  <2>3. /\ Holds(up', p) /\ k <= up.unsent /\ up'.unsent = up.unsent - k
        /\ up'.rem = up.rem /\ up'.frames = up.frames
    BY <2>1, <2>2, PushedHolds
  <2>4. /\ up.here \in Nat /\ up.unsent \in Nat /\ up.rem \in Nat /\ Len(up.frames) \in Nat
        /\ up.here + up.unsent = p + Len(up.frames) + up.rem
    BY <2>1, HoldsType
  <2>5. up'.here \in Nat /\ up'.here + up'.unsent = p + Len(up'.frames) + up'.rem
    BY <2>3, HoldsType
  <2>6. k \in Nat
    BY <2>2
  <2>7. up'.here >= up.here - 0 /\ up'.here + up'.unsent = (up.here + up.unsent) - 0
    BY <2>3, <2>4, <2>5, <2>6
  <2>8. up'.rem = up.rem - 0 /\ toWrite' = toWrite /\ 0 \in Int
    BY <1>3, <2>3, <2>4 DEF ClientFlush
  <2> QED BY <1>1, <2>3, <2>7, <2>8, KeepsFull
<1>4. CASE ServerReadCmd \/ ServerReadInt \/ ServerReadVal \/ ServerReadHex
  <2>1. PICK k \in Nat : k <= Available(up) /\ up' = Taken(up, k)
    BY <1>4, ReadsTake
  <2>2. toWrite' = toWrite
    BY <1>4, ReadsTake DEF clientVars
  <2> QED BY <1>1, <2>1, <2>2, TakenKeepsFull
<1>5. CASE \/ ClientNext \/ ClientRead \/ ServerPut \/ ServerClose \/ ServerFlush
           \/ UNCHANGED vars
  <2>1. up' = up /\ toWrite' = toWrite
    BY <1>5 DEF ClientNext, ClientRead, ServerPut, ServerClose, ServerFlush, vars, clientVars
  <2> QED BY <2>1 DEF FullRequests
<1>6. CASE ClientFill
    BY <1>6, FillsFully
<1>7. CASE ServerFrameHeader
    BY <1>7, HeaderKeepsFull
<1> QED BY <1>2, <1>3, <1>4, <1>5, <1>6, <1>7 DEF Next, ClientStep, ServerStep


(* What the steps do to FullReplies. *)

LEMMA ClientKeepsReplies ==
    ASSUME IInv, FullReplies, ClientStep \/ (\E c \in Calls : StartCall(c))
    PROVE  FullReplies'
<1>1. spc' = spc /\ job' = job /\ left' = left /\ out' = out
    BY DEF ClientStep, StartCall, ClientFill, ClientFlush, ClientNext, ClientRead, jobVars
<1>2. ASSUME NEW c \in Calls, StartCall(c) PROVE FullReplies'
  <2>1. ~Open /\ toWrite' = RequestLen(c) /\ down' = down /\ up' = up
    BY <1>2 DEF IInv, Client, StartCall
  <2>2. job = NoCall /\ RequestLen(c) > 0
    BY <2>1, CallLengths DEF Open
  <2>3. Open'
    BY <1>1, <2>1, <2>2 DEF Open, Unread
  <2> QED BY <1>1, <2>1, <2>3 DEF FullReplies
<1>3. CASE ClientFill
  <2>1. PICK k \in Nat, last \in BOOLEAN : up' = SendFrame(up, k, last)
    <3>1. toWrite \in Nat /\ ClientFrame \in Nat
      BY Bounds DEF IInv, Client
    <3> QED BY <1>3, <3>1 DEF ClientFill, Lesser
  <2>2. PICK p \in Nat : Holds(up, p)
    BY DEF IInv, Books
  <2>3. up.unsent = 0 /\ down' = down
    BY <1>3 DEF IInv, Client, ClientFill
  <2>4. PICK e : e = up'
    OBVIOUS
  <2>5. Sent(up, e, k, last)
    BY <2>1, <2>2, <2>3, <2>4, SendFrameHolds
  <2>6. up'.rem = up.rem /\ up'.frames # <<>>
    BY <2>4, <2>5 DEF Sent
  <2>7. Open'
    BY <1>1, <2>6 DEF Open, Unread
  <2> QED BY <1>1, <2>3, <2>6, <2>7 DEF FullReplies
<1>4. CASE ClientFlush
  <2>1. PICK p \in Nat : Holds(up, p)
    BY DEF IInv, Books
  <2>2. PICK k \in 1..Lesser(up.unsent, NetBuf - up.here) : up' = Pushed(up, k)
    BY <1>4 DEF ClientFlush
  <2>3. up'.rem = up.rem /\ up'.frames = up.frames
    BY <2>1, <2>2, PushedHolds
  <2>4. cpc = "flush" /\ down' = down /\ toWrite' = toWrite
    BY <1>4 DEF ClientFlush
  <2>5. Open' <=> Open
    BY <1>1, <2>3, <2>4 DEF Open, Unread
  <2> QED BY <1>1, <2>3, <2>4, <2>5 DEF FullReplies
<1>5. CASE ClientNext \/ ClientRead
  <2>1. cpc' \in {"idle", "read"} /\ up' = up
    BY <1>5 DEF ClientNext, ClientRead
  <2>2. PICK q \in Nat : Holds(down, q)
    BY DEF IInv, Books
  <2>3. CASE HasHeader(down) /\ down' = NextFrame(down)
    <3>1. \A i \in 1..Len(down'.frames) :
             i + 1 \in 1..Len(down.frames) /\ down'.frames[i] = down.frames[i + 1]
      BY <2>2, <2>3, NextFrameHolds
    <3>2. \A i \in 1..Len(down'.frames) :
             ~down'.frames[i].fin => down'.frames[i].len = ServerFrame
      BY <3>1 DEF FullReplies
    <3> QED BY <1>1, <2>1, <3>2 DEF FullReplies
  <2>4. CASE \E k \in 1..Lesser(Available(down), toRead) : down' = Taken(down, k)
    <3>1. down'.frames = down.frames
      <4>1. down \in Directions
        BY <2>2, HoldsType
      <4> QED BY <2>4, <4>1 DEF Taken, Directions
    <3> QED BY <1>1, <2>1, <3>1 DEF FullReplies
  <2> QED BY <1>5, <2>3, <2>4 DEF ClientNext, ClientRead
<1> QED BY <1>2, <1>3, <1>4, <1>5 DEF ClientStep

LEMMA ReadKeepsReplies ==
    ASSUME IInv, FullReplies,
           ServerReadCmd \/ ServerReadInt \/ ServerReadVal \/ ServerReadHex
    PROVE  FullReplies'
<1>1. down' = down
    BY ReadsTake
<1>2. spc' \in {"int", "val", "hex", "put", "close"} /\ job' # NoCall
  <2>1. call # NoCall /\ (spc # "cmd" /\ job = NoCall => spc \in {"next", "drain"})
    BY CallCases DEF IInv, Client, Server
  <2> QED BY <2>1 DEF ServerReadCmd, ServerReadInt, ServerReadVal, ServerReadHex, Loop
<1>3. Open'
    BY <1>2 DEF Open
<1>4. left' <= job'.n
  <2>1. CASE ServerReadCmd
    <3>1. left' = call.n /\ job' = call /\ call.n \in Nat
      BY <2>1, CallCases DEF IInv, Client, ServerReadCmd
    <3> QED BY <3>1
  <2>2. CASE ServerReadInt \/ ServerReadVal \/ ServerReadHex
    <3>1. job' = job /\ job # NoCall
      BY <1>2, <2>2 DEF ServerReadInt, ServerReadVal, ServerReadHex
    <3>2. job = call /\ call \in Calls /\ left \in Nat
      BY <3>1, AtWork
    <3>3. job.n \in Nat /\ left <= job.n
      BY <3>1, <3>2, CallCases DEF FullReplies
    <3>4. PICK k \in Nat : left' = left - k
      <4>1. CASE ServerReadHex
        BY <4>1, HexPiece DEF ServerReadHex
      <4>2. CASE ServerReadInt \/ ServerReadVal
        BY <3>2, <4>2 DEF ServerReadInt, ServerReadVal
      <4> QED BY <2>2, <4>1, <4>2
    <3> QED BY <3>1, <3>2, <3>3, <3>4
  <2> QED BY <2>1, <2>2
<1> QED BY <1>1, <1>2, <1>3, <1>4 DEF FullReplies

LEMMA PutKeepsReplies ==
    ASSUME IInv, FullReplies, ServerPut
    PROVE  FullReplies'
<1> DEFINE k == Lesser(out, ServerFrame - sw)
<1>1. /\ spc = "put" /\ out' = out - k /\ job' = job /\ left' = left
      /\ \/ out > k /\ down' = SendFrame(down, ServerFrame, FALSE)
         \/ spc' = Loop(left) /\ down' = down
    BY DEF ServerPut
<1>2. job # NoCall /\ down.unsent = 0
    BY <1>1 DEF IInv, Server
<1>3. out \in Nat /\ sw \in Nat /\ ServerFrame \in Nat
    BY <1>2, AtWork, Bounds
<1>4. spc' # "cmd" /\ (spc' = "drain" => out' > 0)
  <2>1. Loop(left) \notin {"cmd", "drain"}
    BY DEF Loop
  <2>2. CASE out > k /\ spc' = "drain"
    <3>1. k \in Int
      BY <1>3 DEF Lesser
    <3> HIDE DEF k
    <3> QED BY <1>1, <1>3, <2>2, <3>1
  <2>3. CASE spc' = Loop(left)
    BY <2>1, <2>3
  <2> QED BY <2>2, <2>3 DEF ServerPut
<1>5. \A i \in 1..Len(down'.frames) :
         ~down'.frames[i].fin => down'.frames[i].len = ServerFrame
  <2>1. CASE down' = SendFrame(down, ServerFrame, FALSE)
    <3>1. PICK q \in Nat : Holds(down, q)
      BY DEF IInv, Books
    <3>2. PICK e : e = down'
      OBVIOUS
    <3>3. Sent(down, e, ServerFrame, FALSE)
      BY <1>2, <1>3, <2>1, <3>1, <3>2, SendFrameHolds
    <3> QED BY <3>2, <3>3 DEF Sent, FullReplies
  <2>2. CASE down' = down
    BY <2>2 DEF FullReplies
  <2> QED BY <1>1, <2>1, <2>2
<1>6. Open'
    BY <1>1, <1>2 DEF Open
<1> QED BY <1>1, <1>2, <1>4, <1>5, <1>6 DEF FullReplies

LEMMA CloseKeepsReplies ==
    ASSUME IInv, FullReplies, ServerClose
    PROVE  FullReplies'
<1>1. spc' = "drain" /\ job' = NoCall /\ down' = SendFrame(down, sw, TRUE)
    BY DEF ServerClose
<1>2. job # NoCall /\ down.unsent = 0
    BY DEF IInv, Server, ServerClose
<1>3. sw \in Nat
    BY <1>2, AtWork
<1>4. PICK q \in Nat : Holds(down, q)
    BY DEF IInv, Books
<1>5. PICK e : e = down'
    OBVIOUS
<1>6. Sent(down, e, sw, TRUE)
    BY <1>1, <1>2, <1>3, <1>4, <1>5, SendFrameHolds
<1>7. /\ down'.frames # <<>>
      /\ \A i \in 1..Len(down'.frames) :
            ~down'.frames[i].fin => down'.frames[i].len = ServerFrame
    BY <1>5, <1>6 DEF Sent, FullReplies
<1> QED BY <1>1, <1>7 DEF FullReplies

LEMMA RepliesStayFull == IInv /\ FullReplies /\ [Next]_vars => FullReplies'
<1> SUFFICES ASSUME IInv, FullReplies, [Next]_vars
             PROVE  FullReplies'
    OBVIOUS
<1>1. CASE ServerFrameHeader
  <2>1. Open'
    BY <1>1, HeaderOfOpen
  <2>2. PICK p \in Nat : Holds(up, p)
    BY DEF IInv, Books
  <2>3. up'.rem = up.frames[1].len /\ 1 \in 1..Len(up.frames)
    BY <1>1, <2>2, NextFrameHolds DEF ServerFrameHeader
  <2>4. up'.rem > 0
    BY <2>3 DEF IInv, Framing
  <2>5. /\ spc' \in {"cmd", "int", "val", "hex"} /\ job' = job /\ left' = left /\ down' = down
    BY <1>1 DEF ServerFrameHeader
  <2> QED BY <2>1, <2>4, <2>5 DEF FullReplies
<1>2. CASE ServerFlush
  <2>1. /\ spc = "drain" /\ spc' \in {"drain", "next", "put"} /\ up' = up
        /\ cpc' = cpc /\ toWrite' = toWrite /\ job' = job /\ left' = left /\ out' = out
    BY <1>2 DEF ServerFlush, clientVars
  <2>2. Open' <=> Open
    BY <2>1 DEF Open, Unread
  <2>3. down'.frames = down.frames
    <3>1. PICK q \in Nat : Holds(down, q)
      BY DEF IInv, Books
    <3>2. down \in Directions
      BY <3>1, HoldsType
    <3> QED BY <1>2, <3>2 DEF ServerFlush, Pushed, Directions
  <2> QED BY <2>1, <2>2, <2>3 DEF FullReplies
<1>3. CASE UNCHANGED vars
  <2>1. Open' <=> Open
    BY <1>3 DEF vars, clientVars, jobVars, Open, Unread
  <2> QED BY <1>3, <2>1 DEF vars, clientVars, jobVars, FullReplies
<1> QED BY <1>1, <1>2, <1>3, ClientKeepsReplies, ReadKeepsReplies, PutKeepsReplies,
     CloseKeepsReplies DEF Next, ServerStep


LEMMA Fullness == Spec => [](IInv /\ Full)
<1>1. Init => IInv /\ Full
    BY InitHolds, InitFull
<1>2. (IInv /\ Full) /\ [Next]_vars => (IInv /\ Full)'
    BY StepKeeps, RequestsStayFull, RepliesStayFull DEF Full
<1> QED BY <1>1, <1>2, PTL DEF Spec

(* Who waits for a direction finds nothing arrived; and nothing at all is in it if
   its writer is not sending. *)
LEMMA NothingHere ==
    ASSUME NEW d, NEW p, Holds(d, p), ~HasHeader(d), ~(Available(d) > 0)
    PROVE  /\ d.here = 0
           /\ d.unsent = 0 => d.frames = <<>> /\ d.rem = 0 /\ p = 0
<1>1. /\ d.here \in Nat /\ d.rem \in Nat /\ d.unsent \in Nat /\ p \in Nat
      /\ d.frames \in Seq(Frame) /\ Len(d.frames) \in Nat
      /\ d.here + d.unsent = p + Len(d.frames) + d.rem
    BY HoldsType, Bounds
<1>2. d.here = 0 \/ d.rem = 0
    BY <1>1 DEF Available, Lesser
<1>3. d.here = 0
  <2>1. SUFFICES ASSUME d.here > 0 PROVE FALSE
    BY <1>1
  <2>2. d.rem = 0 /\ d.frames = <<>>
    BY <1>2, <2>1 DEF HasHeader
  <2>3. p = 0 /\ Len(d.frames) = 0
    BY <2>2, NoFrames
  <2> QED BY <1>1, <2>1, <2>2, <2>3
<1>4. ASSUME d.unsent = 0 PROVE d.frames = <<>> /\ d.rem = 0 /\ p = 0
  <2>1. PICK m, r \in Nat : m = Len(d.frames) /\ r = d.rem
    BY <1>1
  <2>2. p + m + r = 0
    BY <1>1, <1>3, <1>4, <2>1
  <2>3. p = 0 /\ m = 0 /\ r = 0
    BY <1>1, <2>1, <2>2
  <2> HIDE DEF Frame
  <2>4. d.frames = <<>>
    BY <1>1, <2>1, <2>3, EmptyOrNot
  <2> QED BY <2>1, <2>3, <2>4
<1> QED BY <1>3, <1>4

LEMMA FramesIn ==
    ASSUME NEW m \in Nat, NEW b \in Nat, NEW c \in Nat \ {0}, (m - 1) * c <= b
    PROVE  b \div c \in Nat /\ m - 1 <= b \div c
<1>1. PICK d \in Int : d = b \div c
    OBVIOUS
<1>2. d * c <= b /\ b < (d + 1) * c
    BY <1>1
<1>3. (m - 1) * c < (d + 1) * c
    BY <1>2
<1>4. m - 1 < d + 1
    BY <1>3
<1>5. d >= 0
    BY <1>2
<1> QED BY <1>1, <1>4, <1>5

(* What each end waits for, if it waits. *)
LEMMA ClientStuck ==
    ASSUME IInv, cpc # "idle", ~ClientReady, NEW q, Holds(down, q)
    PROVE  \/ cpc = "flush" /\ ~(up.here < NetBuf)
           \/ cpc \in {"next", "read"} /\ ~HasHeader(down) /\ ~(Available(down) > 0)
<1>1. CASE cpc = "read"
  <2>1. ~(Available(down) > 0) /\ (down.fin \/ ~HasHeader(down))
    BY <1>1 DEF ClientReady
  <2>2. down.fin => ~HasHeader(down)
    BY <1>1 DEF IInv, Framing, HasHeader
  <2> QED BY <1>1, <2>1, <2>2
<1>2. CASE cpc = "next"
  <2>1. ~HasHeader(down) /\ down.rem = 0
    BY <1>2 DEF IInv, Framing, ClientReady
  <2>2. down.here \in Nat
    BY HoldsType, Bounds
  <2> QED BY <1>2, <2>1, <2>2 DEF Available, Lesser
<1> QED BY <1>1, <1>2 DEF IInv, Client, ClientReady

LEMMA ServerStuck ==
    ASSUME IInv, FullReplies, ~ServerReady, Fits(call), NEW p, Holds(up, p)
    PROVE  \/ /\ spc \in {"next", "cmd", "int", "val", "hex"}
              /\ ~HasHeader(up) /\ ~(Available(up) > 0)
           \/ spc = "drain" /\ down.unsent # 0 /\ ~(down.here < NetBuf)
<1>1. up.here \in Nat /\ up.rem \in Nat
    BY HoldsType, Bounds
<1>2. CASE spc = "next"
  <2>1. job = NoCall
    BY <1>2 DEF IInv, Server
  <2>2. up.rem = 0 /\ ~HasHeader(up)
    BY <1>2, <2>1 DEF IInv, Framing, ServerReady
  <2> QED BY <1>1, <1>2, <2>2 DEF Available, Lesser
<1>3. CASE spc = "cmd"
  <2>1. up.rem > 0 /\ ~(Available(up) > 0)
    BY <1>3 DEF FullReplies, ServerReady
  <2> QED BY <1>3, <2>1 DEF HasHeader
<1>4. CASE spc \in {"int", "val"}
    BY <1>4 DEF ServerReady
<1>5. CASE spc = "hex"
  <2>1. job # NoCall /\ job.cmd = "hex"
    BY <1>5 DEF IInv, Server
  <2>2. job = call /\ call \in Calls /\ left \in Nat /\ left <= job.n
    BY <2>1, AtWork DEF FullReplies
  <2>3. call.n < HexBuf /\ call.n \in Nat
    BY <2>1, <2>2, CallCases DEF Fits
  <2>4. HexRoom > 0
    BY <2>2, <2>3, Bounds DEF HexRoom, Lesser
  <2> QED BY <1>5, <2>4 DEF ServerReady
<1>6. CASE spc = "drain"
    BY <1>6 DEF ServerReady
<1> QED BY <1>2, <1>3, <1>4, <1>5, <1>6 DEF IInv, Server, ServerReady

(* If the server waits for the request, the client is not still sending it, and
   waits for nothing else: the request was read, so the reply was sent. *)
LEMMA NoReaderStuck ==
    ASSUME IInv, FullReplies, cpc # "idle", ~ClientReady,
           spc \in {"next", "cmd", "int", "val", "hex"}, ~HasHeader(up), ~(Available(up) > 0)
    PROVE  FALSE
<1>1. PICK p, q \in Nat :
        /\ Holds(up, p) /\ toWrite + p + up.rem = Demand
        /\ Holds(down, q) /\ toRead = down.rem + q + Ahead
    BY DEF IInv, Books
<1>2. up.here = 0 /\ (up.unsent = 0 => up.frames = <<>> /\ up.rem = 0 /\ p = 0)
    BY <1>1, NothingHere
<1>3. cpc \in {"next", "read"} /\ ~HasHeader(down) /\ ~(Available(down) > 0)
    BY <1>1, <1>2, ClientStuck, Bounds
<1>4. toWrite \in Nat /\ up.unsent = 0 /\ down.unsent = 0
  <2>1. up.unsent \in Nat
    BY <1>1, HoldsType
  <2>2. toWrite \in Nat /\ ~(up.unsent > 0) /\ down.unsent = 0
    BY <1>3 DEF IInv, Client, Server
  <2> QED BY <2>1, <2>2
<1>5. toWrite = 0 /\ up.frames = <<>> /\ up.rem = 0 /\ p = 0
    BY <1>2, <1>3, <1>4 DEF IInv, Client
<1>6. down.frames = <<>> /\ down.rem = 0 /\ q = 0
    BY <1>1, <1>3, <1>4, NothingHere
<1>7. Demand = 0
    BY <1>1, <1>5
<1>8. CASE spc = "next"
  <2>1. job = NoCall /\ ~Open
    BY <1>5, <1>8 DEF IInv, Server, Open, Unread
  <2>2. cpc = "read"
    BY <1>3, <1>6, <2>1 DEF FullReplies
  <2>3. Ahead = 0
    BY <2>1, AtRest
  <2>4. toRead = 0
    BY <1>1, <1>6, <2>3
  <2> QED BY <2>2, <2>4 DEF IInv, Client
<1>9. CASE spc = "cmd"
    BY <1>5, <1>9 DEF FullReplies
<1>10. CASE spc \in {"int", "val", "hex"}
  <2>1. job # NoCall /\ hdr \in Nat /\ left \in Nat /\ (hdr > 0 \/ left > 0)
    BY <1>10 DEF IInv, Server
  <2>2. Demand = hdr + left
    BY <2>1, AtWork
  <2> QED BY <1>7, <2>1, <2>2
<1> QED BY <1>8, <1>9, <1>10

(* If the server waits to send a frame of the reply, so does the client with a frame
   of the request, and both socket buffers are full. *)
LEMMA NoWriterStuck ==
    ASSUME IInv, Full, cpc # "idle", ~ClientReady, Fits(call),
           spc = "drain", down.unsent # 0, ~(down.here < NetBuf)
    PROVE  FALSE
<1>1. PICK p, q \in Nat :
        /\ Holds(up, p) /\ toWrite + p + up.rem = Demand
        /\ Holds(down, q) /\ toRead = down.rem + q + Ahead
    BY DEF IInv, Books
<1>2. /\ up.here \in 0..NetBuf /\ up.unsent \in Nat /\ up.rem \in Nat
      /\ Len(up.frames) \in Nat /\ up.here + up.unsent = p + Len(up.frames) + up.rem
    BY <1>1, HoldsType
<1>3. /\ down.here \in 0..NetBuf /\ down.unsent \in Nat /\ down.rem \in Nat
      /\ Len(down.frames) \in Nat /\ down.here + down.unsent = q + Len(down.frames) + down.rem
    BY <1>1, HoldsType
<1>4. down.here = NetBuf /\ NetBuf > 0
    BY <1>3, Bounds
<1>5. cpc = "flush" /\ up.here = NetBuf /\ up.unsent > 0 /\ down.rem = 0
  <2>1. cpc = "flush" /\ ~(up.here < NetBuf)
    BY <1>1, <1>4, ClientStuck, NothingHere
  <2>2. up.here = NetBuf
    BY <1>2, <2>1, Bounds
  <2> QED BY <2>1, <2>2 DEF IInv, Client, Framing
<1>6. job # NoCall
  <2>1. SUFFICES ASSUME job = NoCall PROVE FALSE
    OBVIOUS
  <2>2. ~Unread
    BY <1>4 DEF IInv, Client, Quiet
  <2>3. up = Quiet
    BY <2>1, <2>2, AtRest DEF Open
  <2> QED BY <1>4, <1>5, <2>3 DEF Quiet
<1>7. /\ job = call /\ call \in Calls /\ Open /\ hdr \in Nat /\ left \in Nat
      /\ out \in Nat /\ sw \in Nat /\ Future \in Nat
      /\ Demand = hdr + left /\ Ahead = sw + out + Future
    BY <1>6, AtWork
<1>8. out > 0 /\ hdr = 0 /\ toWrite \in Nat /\ toRead = ReplyLen(call)
    BY <1>5, <1>6 DEF Full, FullReplies, IInv, Server, Client
<1>9. ServerFrame <= q
  <2>1. down.frames # <<>>
    <3>1. SUFFICES ASSUME down.frames = <<>> PROVE FALSE
      OBVIOUS
    <3>2. q = 0 /\ Len(down.frames) = 0
      BY <1>1, <3>1, NoFrames
    <3> QED BY <1>3, <1>4, <1>5, <3>2
  <2>2. 1 \in 1..Len(down.frames) /\ down.frames[1].len <= q
    BY <1>1, <2>1, NoFrames
  <2>3. ~down.frames[1].fin
    BY <1>7, <2>2 DEF IInv, Framing
  <2>4. down.frames[1].len = ServerFrame
    BY <2>2, <2>3 DEF Full, FullReplies
  <2> QED BY <2>2, <2>4
<1>10. PICK w, r, m, u, o, x, f, l \in Nat :
        /\ w = toWrite /\ r = up.rem /\ m = Len(up.frames) /\ u = up.unsent
        /\ o = out /\ x = sw /\ f = Future /\ l = left
    BY <1>2, <1>7, <1>8
<1>11. ReplyLen(call) = q + (x + o + f) /\ o > 0
  <2>1. Ahead = x + o + f
    BY <1>7, <1>10
  <2>2. toRead = 0 + q + (x + o + f)
    BY <1>1, <1>5, <2>1
  <2> QED BY <1>8, <1>10, <2>2
<1>12. ReplyLen(call) >= ServerFrame + 1 + f
    BY <1>9, <1>11, Bounds
<1>13. ServerFrame >= 2 * HexBuf /\ HexBuf \in Nat \ {0} /\ ServerFrame \in Nat \ {0}
    BY WsAssumption
<1>14. CASE call.cmd \in {"nop", "add"}
  <2>1. ReplyLen(call) = 1
    BY <1>7, <1>14, CallLengths
  <2> QED BY <1>12, <1>13, <2>1
<1>15. CASE call.cmd = "hex"
  <2>1. ReplyLen(call) = 2 * call.n /\ call.n \in Nat /\ call.n < HexBuf
    BY <1>7, <1>15, CallLengths, CallCases DEF Fits
  <2> QED BY <1>12, <1>13, <2>1
<1>16. CASE call.cmd = "tree"
  <2>1. ReplyLen(call) = call.n /\ call.n \in Nat /\ call.n <= TreeCapacity /\ f = l
    BY <1>7, <1>10, <1>16, CallLengths, CallCases DEF Fits, Future
  <2>2. w + p + r = l
    BY <1>1, <1>7, <1>8, <1>10
  <2>3. PICK b, c, s \in Nat : b = NetBuf /\ c = ClientFrame + 1 /\ s = ServerFrame /\ c # 0
    <3>1. ClientFrame + 1 \in Nat /\ ClientFrame + 1 # 0 /\ NetBuf \in Nat /\ ServerFrame \in Nat
      BY Bounds
    <3> QED BY <3>1
  <2>4. b + u = p + m + r /\ u > 0
    BY <1>2, <1>5, <1>10, <2>3
  <2>5. (m - 1) * c <= b
    <3>1. CASE up.frames = <<>>
      <4>1. m = 0
        BY <1>10, <3>1
      <4> QED BY <2>3, <4>1
    <3>2. CASE up.frames # <<>>
      <4>1. (m - 1) * c + r <= b
        BY <1>5, <1>10, <2>3, <3>2 DEF Full, FullRequests
      <4>2. (m - 1) * c \in Int
        BY OneMore
      <4> QED BY <4>1, <4>2
    <3> QED BY <3>1, <3>2
  <2>6. b \div c \in Nat /\ m - 1 <= b \div c
    BY <2>3, <2>5, FramesIn
  <2>7. PICK d \in Nat : d = b \div c
    BY <2>6
  <2>8. TreeCapacity = s + b - d
    BY <2>3, <2>7 DEF TreeCapacity
  <2>9. PICK n \in Nat : n = call.n
    BY <2>1
  <2>10. n <= s + b - d /\ n >= s + 1 + l
    BY <1>10, <1>12, <2>1, <2>3, <2>8, <2>9
  <2>11. l >= b + u - m
    BY <2>2, <2>4
  <2> QED BY <2>4, <2>6, <2>7, <2>10, <2>11
<1> QED BY <1>7, <1>14, <1>15, <1>16, CallCases

(* Inside a call the two ends never both wait, for all payloads, frames and socket
   buffers, but in a call that the buffers cannot hold. *)
THEOREM NeverStuckBelowCapacity == Spec => []StuckOnlyOverCapacity
<1>1. IInv /\ Full => StuckOnlyOverCapacity
  <2> SUFFICES ASSUME IInv, Full, cpc # "idle", ~ClientReady, ~ServerReady, Fits(call)
               PROVE  FALSE
    BY DEF StuckOnlyOverCapacity
  <2>1. PICK p \in Nat : Holds(up, p)
    BY DEF IInv, Books
  <2>2. FullReplies
    BY DEF Full
  <2> QED BY <2>1, <2>2, ServerStuck, NoReaderStuck, NoWriterStuck
<1> QED BY Fullness, <1>1, PTL

=============================================================================
