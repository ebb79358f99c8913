---------------------------- MODULE TcpConnProofs ----------------------------
(***************************************************************************)
(* The safety of one TCP connection for every choice of payload sizes and  *)
(* buffer sizes that BuffersAssumption allows.                             *)
(***************************************************************************)
EXTENDS TcpConn, SequenceTheorems, TLAPS

USE DEF Calls, NoCall, EmptyHex, clientVars, serverVars, ctxVars

-----------------------------------------------------------------------------
(* Lemmas about calls and queues. *)

(* A call's kind, and how its two messages are measured. *)
LEMMA CallFacts ==
    ASSUME NEW c \in Calls
    PROVE  /\ c.cmd \in {"nop", "add", "tree", "hex"}
           /\ c.n \in Nat
           /\ c.cmd \in {"nop", "add"} => c.n = 0
           /\ c.cmd = "tree" => c.n > 0
           /\ c # NoCall
           /\ c.cmd = "hex" /\ c.n = 0 => c = EmptyHex
           /\ HeaderInts(c) \in 0..2
           /\ RequestLen(c) = 1 + HeaderInts(c) + c.n
           /\ RequestLen(c) \in Nat \ {0}
           /\ ReplyLen(c) \in Nat
           /\ ReplyLen(c) = 0 => c = EmptyHex
    BY SizesAssumption DEF HeaderInts, RequestLen, ReplyLen

(* The two calls that are constants of the module. *)
LEMMA EmptyHexFacts ==
    /\ HeaderInts(EmptyHex) = 1 /\ RequestLen(EmptyHex) = 2
    /\ ReplyLen(EmptyHex) = 0 /\ EmptyHex # NoCall
    BY DEF HeaderInts, RequestLen, ReplyLen

(* The measures of the queue and of the job are natural numbers. *)
LEMMA Measures ==
    ASSUME TypeOK
    PROVE  QueuedUnits \in Nat /\ QueuedReply \in Nat /\ JobReply \in Nat
<1>1. reqs # <<>> => reqs[Len(reqs)] \in Calls /\ Len(reqs) \in Nat \ {0}
    BY DEF TypeOK
<1>2. QueuedUnits \in Nat /\ QueuedReply \in Nat
    BY <1>1, CallFacts DEF QueuedUnits, QueuedReply
<1>3. JobReply \in Nat
    BY DEF JobReply, TypeOK
<1> QED BY <1>2, <1>3

(* The same after a step. *)
LEMMA MeasuresNext ==
    ASSUME TypeOK'
    PROVE  QueuedUnits' \in Nat /\ QueuedReply' \in Nat /\ JobReply' \in Nat
<1>1. reqs' # <<>> => reqs'[Len(reqs')] \in Calls /\ Len(reqs') \in Nat \ {0}
  <2>1. reqs' \in Seq(Calls)
    BY DEF TypeOK
  <2> QED BY <2>1
<1>2. QueuedUnits' \in Nat /\ QueuedReply' \in Nat
    BY <1>1, CallFacts DEF QueuedUnits, QueuedReply
<1>3. JobReply' \in Nat
    BY DEF JobReply, TypeOK
<1> QED BY <1>2, <1>3

(* What the provers need before they add amounts up, in a state and in the next. *)
LEMMA Amounts ==
    /\ TypeOK => /\ toWrite \in Int /\ cw \in Int /\ c2s \in Int /\ sr \in Int
                 /\ hdr \in Int /\ left \in Int /\ out \in Int /\ toRead \in Int
                 /\ cr \in Int /\ s2c \in Int /\ sw \in Int
    /\ TypeOK' => /\ toWrite' \in Int /\ cw' \in Int /\ c2s' \in Int /\ sr' \in Int
                  /\ hdr' \in Int /\ left' \in Int /\ out' \in Int /\ toRead' \in Int
                  /\ cr' \in Int /\ s2c' \in Int /\ sw' \in Int
<1>1. ASSUME TypeOK
      PROVE  /\ toWrite \in Int /\ cw \in Int /\ c2s \in Int /\ sr \in Int
             /\ hdr \in Int /\ left \in Int /\ out \in Int /\ toRead \in Int
             /\ cr \in Int /\ s2c \in Int /\ sw \in Int
  <2>1. /\ toWrite \in Nat /\ toRead \in Nat /\ left \in Nat /\ out \in Nat
        /\ cw \in 0..ClientWBuf /\ cr \in 0..ClientRBuf /\ c2s \in 0..NetBuf
        /\ s2c \in 0..NetBuf /\ hdr \in 0..2 /\ sr \in 0..ServerRBuf
        /\ sw \in 0..ServerWBuf
    BY <1>1, Zenon DEF TypeOK
  <2> QED BY <2>1
<1>2. ASSUME TypeOK'
      PROVE  /\ toWrite' \in Int /\ cw' \in Int /\ c2s' \in Int /\ sr' \in Int
             /\ hdr' \in Int /\ left' \in Int /\ out' \in Int /\ toRead' \in Int
             /\ cr' \in Int /\ s2c' \in Int /\ sw' \in Int
  <2>1. /\ toWrite' \in Nat /\ toRead' \in Nat /\ left' \in Nat /\ out' \in Nat
        /\ cw' \in 0..ClientWBuf /\ cr' \in 0..ClientRBuf /\ c2s' \in 0..NetBuf
        /\ s2c' \in 0..NetBuf /\ hdr' \in 0..2 /\ sr' \in 0..ServerRBuf
        /\ sw' \in 0..ServerWBuf
    BY <1>2, Zenon DEF TypeOK
  <2> QED BY <2>1
<1> QED BY <1>1, <1>2

(* A step that touches neither the queue nor the job keeps their measures. *)
LEMMA MeasuresKept ==
    /\ UNCHANGED reqs => UNCHANGED <<QueuedUnits, QueuedReply>>
    /\ UNCHANGED <<job, hdr, left>> => UNCHANGED JobReply
BY DEF QueuedUnits, QueuedReply, JobReply

(* Only an EmptyHex can be executed while another call is queued. *)
LEMMA JobOwnsStream ==
    ASSUME TypeOK, CallsInFlight, job \notin {NoCall, EmptyHex}
    PROVE  reqs = <<>> /\ job = call /\ QueuedUnits = 0 /\ QueuedReply = 0
BY DEF CallsInFlight, QueuedUnits, QueuedReply

(* At most EmptyHex calls are left for the server. *)
IdleIsQuiet ==
    job \in {NoCall, EmptyHex} /\ (reqs # <<>> => call = EmptyHex)

(* Between two stubs every buffer of the reply direction is empty. *)
LEMMA IdleOwesNothing ==
    ASSUME IInv, cpc = "idle"
    PROVE  /\ cr = 0 /\ s2c = 0 /\ sw = 0 /\ out = 0
           /\ JobReply = 0 /\ QueuedReply = 0
           /\ job \in {NoCall, EmptyHex}
           /\ reqs # <<>> => call = EmptyHex
           /\ toWrite = 0 /\ cw = 0 /\ toRead = 0
<1>0. toWrite = 0 /\ cw = 0 /\ toRead = 0
    BY DEF IInv, TypeOK, Framed
<1>1. cr = 0 /\ s2c = 0 /\ sw = 0 /\ out = 0 /\ JobReply = 0 /\ QueuedReply = 0
  <2>1. 0 = cr + s2c + sw + out + JobReply + QueuedReply
    BY <1>0 DEF IInv, Framed
  <2>2. /\ cr \in Nat /\ s2c \in Nat /\ sw \in Nat /\ out \in Nat
        /\ JobReply \in Nat /\ QueuedReply \in Nat
    BY Measures DEF IInv, TypeOK
  <2>3. \A a, b, d, e, f, g \in Nat : 0 = a + b + d + e + f + g =>
           a = 0 /\ b = 0 /\ d = 0 /\ e = 0 /\ f = 0 /\ g = 0
    OBVIOUS
  <2> QED BY <2>1, <2>2, <2>3
<1>2. reqs # <<>> => call = EmptyHex
    BY <1>1, CallFacts DEF IInv, TypeOK, CallsInFlight, QueuedReply
<1>3. job \in {NoCall, EmptyHex}
  <2> SUFFICES ASSUME job \notin {NoCall, EmptyHex} PROVE FALSE
    OBVIOUS
  <2>1. job \in Calls /\ hdr \in 0..2 /\ left \in Nat
    BY DEF IInv, TypeOK
  <2>2. spc \notin {"top", "cmd", "flush", "put", "drain"}
    BY <1>1 DEF IInv, ServerAt, TypeOK
  <2>3. spc # "done"
    BY DEF IInv, ServerAt, CleanClose, TypeOK
  <2>4. spc # "int"
    BY <1>1, <2>1, CallFacts DEF IInv, ServerAt, JobReply, HeaderInts
  <2>5. spc \notin {"val", "hex"}
    BY <1>1, <2>1 DEF IInv, ServerAt, JobReply
  <2> QED BY <2>2, <2>3, <2>4, <2>5 DEF IInv, TypeOK
<1> QED BY <1>0, <1>1, <1>2, <1>3

-----------------------------------------------------------------------------
(* The client's steps. *)

(* The stub starts with nothing owed to it, so the new call is the only one
   that expects a reply. *)
LEMMA StartCallPreserves ==
    ASSUME IInv, NEW c \in Calls, StartCall(c)
    PROVE  IInv'
<1>0. QueuedUnits \in Nat /\ c \in Calls /\ reqs \in Seq(Calls)
    BY Measures DEF IInv, TypeOK
<1>1. TypeOK'
    BY <1>0, CallFacts DEF IInv, TypeOK, StartCall
<1>2. /\ QueuedUnits' = QueuedUnits + RequestLen(c)
      /\ QueuedReply' = ReplyLen(c) /\ JobReply' = JobReply
  <2>1. reqs' = Append(reqs, c) /\ reqs' # <<>> /\ Len(reqs') = Len(reqs) + 1
    BY <1>0 DEF StartCall
  <2>2. reqs'[Len(reqs')] = c
    BY <1>0 DEF StartCall
  <2>3. reqs # <<>> => reqs[Len(reqs)] = EmptyHex
    BY IdleOwesNothing DEF IInv, CallsInFlight, StartCall
  <2>4. QueuedUnits = 2 * Len(reqs)
    BY <1>0, <2>3, EmptyHexFacts DEF QueuedUnits
  <2>5. QueuedUnits' = 2 * Len(reqs) + RequestLen(c)
    BY <1>0, <2>1, <2>2, CallFacts DEF QueuedUnits
  <2>6. QueuedReply' = ReplyLen(c)
    BY <2>1, <2>2 DEF QueuedReply
  <2>7. JobReply' = JobReply
    BY MeasuresKept DEF StartCall
  <2> QED BY <2>4, <2>5, <2>6, <2>7
<1>3. Framed'
  <2>1. c2s + sr = hdr + left + QueuedUnits
    BY <1>0, IdleOwesNothing DEF IInv, TypeOK, Framed, StartCall
  <2>2. /\ toWrite' + cw' = RequestLen(c)
        /\ toRead' = QueuedReply' /\ cr' + s2c' + sw' + out' + JobReply' = 0
    BY <1>2, IdleOwesNothing, CallFacts DEF StartCall
  <2>3. UNCHANGED <<c2s, sr, hdr, left>> /\ RequestLen(c) \in Nat
    BY CallFacts DEF StartCall
  <2>n. PICK a, b, d, e, f, g, h, i \in Int :
         /\ c2s = a /\ sr = b /\ hdr = d /\ left = e /\ QueuedUnits = f
         /\ RequestLen(c) = g /\ toWrite' = h /\ cw' = i
    <3>1. /\ c2s \in Int /\ sr \in Int /\ hdr \in Int /\ left \in Int
          /\ toWrite' \in Int /\ cw' \in Int
      BY <1>1, Amounts DEF IInv
    <3>2. QueuedUnits \in Int /\ RequestLen(c) \in Int
      BY <1>0, <2>3
    <3> QED BY <3>1, <3>2
  <2>4. toWrite' + cw' + c2s' + sr' = hdr' + left' + QueuedUnits'
    BY <1>2, <2>1, <2>2, <2>3, <2>n
  <2>5. QueuedReply' \in Nat /\ cpc' = "fill"
    BY <1>2, CallFacts DEF StartCall
  <2>6. toRead' = cr' + s2c' + sw' + out' + JobReply' + QueuedReply'
    BY <1>0, <1>2, <2>2, <2>5, IdleOwesNothing DEF StartCall
  <2> QED BY <2>4, <2>5, <2>6 DEF Framed
<1>4. CleanClose'
    BY DEF IInv, CleanClose, StartCall
<1>5. QuietClose'
    BY <1>0, <1>2 DEF IInv, QuietClose, TypeOK, StartCall
<1>6. CallsInFlight'
  <2>1. reqs # <<>> => reqs[Len(reqs)] = EmptyHex
    BY IdleOwesNothing DEF IInv, CallsInFlight, StartCall
  <2>2. \A i \in 1..Len(reqs) : reqs[i] = EmptyHex
    BY <1>0, <2>1 DEF IInv, CallsInFlight
  <2>3. /\ reqs' # <<>> /\ Len(reqs') = Len(reqs) + 1 /\ reqs'[Len(reqs')] = c
        /\ \A i \in 1..Len(reqs) : reqs'[i] = reqs[i]
    BY <1>0 DEF StartCall
  <2>4. job' # NoCall => job' = EmptyHex
    BY IdleOwesNothing DEF StartCall
  <2> QED BY <1>0, <2>2, <2>3, <2>4 DEF CallsInFlight, StartCall
<1>7. ClientAt'
    BY <1>0, IdleOwesNothing, CallFacts DEF IInv, ClientAt, Framed, TypeOK, StartCall
<1>8. ServerAt'
    BY DEF IInv, ServerAt, TypeOK, StartCall
<1>9. FullWhenDraining'
    BY IdleOwesNothing DEF IInv, FullWhenDraining, ServerAt, StartCall
<1>10. ArrivedIsOwed'
  <2>1. c2s + sr <= hdr + left + QueuedUnits
    BY DEF IInv, ArrivedIsOwed
  <2>2. UNCHANGED <<c2s, sr, hdr, left>>
    BY DEF StartCall
  <2>3. PICK a, b, d, e, f, g \in Int :
         /\ c2s = a /\ sr = b /\ hdr = d /\ left = e /\ QueuedUnits = f
         /\ RequestLen(c) = g /\ g >= 0
    <3>1. RequestLen(c) \in Nat
      BY CallFacts
    <3>2. c2s \in Int /\ sr \in Int /\ hdr \in Int /\ left \in Int
      BY Amounts DEF IInv
    <3> QED BY <1>0, <3>1, <3>2
  <2>4. QueuedUnits' = f + g
    BY <1>2, <2>3
  <2> QED BY <2>1, <2>2, <2>3, <2>4 DEF ArrivedIsOwed
<1> QED BY <1>1, <1>3, <1>4, <1>5, <1>6, <1>7, <1>8, <1>9, <1>10 DEF IInv

(* Filling moves request units from the caller to the buffer. *)
LEMMA ClientFillPreserves ==
    ASSUME IInv, ClientFill
    PROVE  IInv'
<1>0. QueuedUnits \in Nat /\ QueuedReply \in Nat /\ JobReply \in Nat
    BY Measures DEF IInv
<1>1. TypeOK'
    BY BuffersAssumption DEF IInv, TypeOK, ClientFill, Lesser
<1>2. UNCHANGED <<QueuedUnits, QueuedReply, JobReply>>
    BY MeasuresKept DEF ClientFill
<1>3. Framed'
  <2>1. toWrite' + cw' = toWrite + cw /\ toWrite' \in Nat /\ cw' \in Nat
    BY <1>1, BuffersAssumption DEF IInv, TypeOK, ClientFill, Lesser
  <2> QED BY <1>0, <1>2, <2>1 DEF IInv, TypeOK, Framed, ClientFill
<1>4. CleanClose'
    BY DEF IInv, CleanClose, ClientFill, Lesser
<1>5. QuietClose'
    BY <1>0, <1>2 DEF IInv, QuietClose, TypeOK, ClientFill, Lesser
<1>6. CallsInFlight'
    BY DEF IInv, CallsInFlight, ClientFill, Lesser
<1>7. ClientAt'
    BY BuffersAssumption DEF IInv, ClientAt, TypeOK, ClientFill, Lesser
<1>8. ServerAt'
    BY DEF IInv, ServerAt, TypeOK, ClientFill, Lesser
<1>9. FullWhenDraining'
    BY BuffersAssumption DEF IInv, FullWhenDraining, TypeOK, ClientFill, Lesser
<1>10. ArrivedIsOwed'
    BY <1>0, <1>2 DEF IInv, ArrivedIsOwed, TypeOK, ClientFill, Lesser
<1> QED BY <1>1, <1>3, <1>4, <1>5, <1>6, <1>7, <1>8, <1>9, <1>10 DEF IInv

(* A call that returns here has no reply. *)
LEMMA ClientFlushPreserves ==
    ASSUME IInv, ClientFlush
    PROVE  IInv'
<1>0. QueuedUnits \in Nat /\ QueuedReply \in Nat /\ JobReply \in Nat
    BY Measures DEF IInv
<1>1. TypeOK'
    BY BuffersAssumption DEF IInv, TypeOK, ClientFlush, Lesser
<1>2. UNCHANGED <<QueuedUnits, QueuedReply, JobReply>>
    BY MeasuresKept DEF ClientFlush
<1>3. Framed'
  <2>1. cw' + c2s' = cw + c2s /\ cpc' # "closed"
    BY <1>1, BuffersAssumption DEF IInv, TypeOK, ClientFlush, Lesser
  <2>2. cpc' = "idle" => toRead = 0 /\ toWrite = 0 /\ cw' = 0
    BY BuffersAssumption DEF IInv, TypeOK, ClientFlush, Lesser
  <2>3. /\ toWrite + cw + c2s + sr = hdr + left + QueuedUnits
        /\ toRead = cr + s2c + sw + out + JobReply + QueuedReply
    BY DEF IInv, Framed, ClientFlush
  <2>4. toWrite' + cw' + c2s' + sr' = hdr' + left' + QueuedUnits'
    <3>1. UNCHANGED <<toWrite, sr, hdr, left, QueuedUnits>>
      BY <1>2 DEF ClientFlush
    <3>2. PICK a, b, d, e, f, g \in Int :
           /\ toWrite = a /\ cw = b /\ c2s = d /\ sr = e /\ cw' = f /\ c2s' = g
      <4>1. /\ toWrite \in Int /\ cw \in Int /\ c2s \in Int /\ sr \in Int
            /\ cw' \in Int /\ c2s' \in Int
        BY <1>1, Amounts DEF IInv
      <4> QED BY <4>1
    <3> QED BY <2>1, <2>3, <3>1, <3>2
  <2> QED BY <1>2, <2>2, <2>3, <2>4 DEF Framed, ClientFlush
<1>4. CleanClose'
    BY DEF IInv, CleanClose, ClientFlush, Lesser
<1>5. QuietClose'
    BY <1>0, <1>2 DEF IInv, QuietClose, TypeOK, ClientFlush, Lesser
<1>6. CallsInFlight'
    BY DEF IInv, CallsInFlight, ClientFlush, Lesser
<1>7. ClientAt'
  <2>1. PICK k \in 1..Lesser(cw, NetBuf - c2s) :
            /\ cw' = cw - k
            /\ cpc' = IF cw > k THEN "flush"
                      ELSE IF toWrite > 0 THEN "fill"
                      ELSE IF toRead > 0 THEN "read"
                      ELSE "idle"
    BY DEF ClientFlush
  <2>2. k \in Nat \ {0} /\ k <= cw
    BY <2>1, BuffersAssumption DEF IInv, TypeOK, Lesser
  <2> QED BY <2>1, <2>2 DEF IInv, TypeOK, ClientAt, ClientFlush
<1>8. ServerAt'
    BY DEF IInv, ServerAt, TypeOK, ClientFlush, Lesser
<1>9. FullWhenDraining'
    BY BuffersAssumption DEF IInv, FullWhenDraining, TypeOK, ClientFlush, Lesser
<1>10. ArrivedIsOwed'
  <2>1. cpc' # "closed"
    BY DEF ClientFlush
  <2>2. toWrite' + cw' + c2s' + sr' = hdr' + left' + QueuedUnits'
    BY <1>3, <2>1 DEF Framed
  <2> QED BY <1>0, <1>1, <1>2, <2>2 DEF IInv, TypeOK, ArrivedIsOwed, ClientFlush
<1> QED BY <1>1, <1>3, <1>4, <1>5, <1>6, <1>7, <1>8, <1>9, <1>10 DEF IInv

(* Receiving moves reply units from the socket to the reader. *)
LEMMA ClientRecvPreserves ==
    ASSUME IInv, ClientRecv
    PROVE  IInv'
<1>0. QueuedUnits \in Nat /\ QueuedReply \in Nat /\ JobReply \in Nat
    BY Measures DEF IInv
<1>1. TypeOK'
    BY BuffersAssumption DEF IInv, TypeOK, ClientRecv, Lesser
<1>2. UNCHANGED <<QueuedUnits, QueuedReply, JobReply>>
    BY MeasuresKept DEF ClientRecv
<1>3. Framed'
    BY <1>0, <1>2 DEF IInv, TypeOK, Framed, ClientRecv, Lesser
<1>4. CleanClose'
    BY DEF IInv, CleanClose, ClientRecv, Lesser
<1>5. QuietClose'
    BY <1>0, <1>2 DEF IInv, QuietClose, TypeOK, ClientRecv, Lesser
<1>6. CallsInFlight'
    BY DEF IInv, CallsInFlight, ClientRecv, Lesser
<1>7. ClientAt'
    BY DEF IInv, ClientAt, TypeOK, ClientRecv, Lesser
<1>8. ServerAt'
    BY DEF IInv, ServerAt, TypeOK, ClientRecv, Lesser
<1>9. FullWhenDraining'
    BY BuffersAssumption DEF IInv, FullWhenDraining, TypeOK, ClientRecv, Lesser
<1>10. ArrivedIsOwed'
    BY <1>0, <1>2 DEF IInv, ArrivedIsOwed, TypeOK, ClientRecv, Lesser
<1> QED BY <1>1, <1>3, <1>4, <1>5, <1>6, <1>7, <1>8, <1>9, <1>10 DEF IInv

(* The last unit of the reply ends the call. *)
LEMMA ClientTakePreserves ==
    ASSUME IInv, ClientTake
    PROVE  IInv'
<1>0. QueuedUnits \in Nat /\ QueuedReply \in Nat /\ JobReply \in Nat
    BY Measures DEF IInv
<1>1. TypeOK'
    BY BuffersAssumption DEF IInv, TypeOK, ClientTake, Lesser
<1>2. UNCHANGED <<QueuedUnits, QueuedReply, JobReply>>
    BY MeasuresKept DEF ClientTake
<1>3. Framed'
  <2>1. toRead' - cr' = toRead - cr /\ toRead' \in Nat /\ cr' \in Nat
    BY <1>1, BuffersAssumption DEF IInv, TypeOK, ClientTake, Lesser
  <2>2. cpc' = "idle" => toRead' = 0
    BY DEF IInv, TypeOK, ClientTake, Lesser
  <2>3. /\ toWrite + cw + c2s + sr = hdr + left + QueuedUnits
        /\ toRead = cr + s2c + sw + out + JobReply + QueuedReply
    BY DEF IInv, Framed, ClientTake
  <2>n. PICK a, b, d, e, f, g, h, i, j \in Int :
         /\ toRead = a /\ cr = b /\ s2c = d /\ sw = e /\ out = f
         /\ JobReply = g /\ QueuedReply = h /\ toRead' = i /\ cr' = j
    BY <1>0, <2>1 DEF IInv, TypeOK
  <2>4. toRead' = cr' + s2c' + sw' + out' + JobReply' + QueuedReply'
    BY <1>2, <2>1, <2>3, <2>n DEF ClientTake
  <2>5. toWrite' + cw' = 0
    BY DEF IInv, ClientAt, ClientTake
  <2> QED BY <1>2, <2>2, <2>3, <2>4, <2>5 DEF Framed, ClientTake
<1>4. CleanClose'
    BY DEF IInv, CleanClose, ClientTake, Lesser
<1>5. QuietClose'
    BY <1>0, <1>2 DEF IInv, QuietClose, TypeOK, ClientTake, Lesser
<1>6. CallsInFlight'
    BY DEF IInv, CallsInFlight, ClientTake, Lesser
<1>7. ClientAt'
    BY DEF IInv, ClientAt, TypeOK, ClientTake, Lesser
<1>8. ServerAt'
    BY DEF IInv, ServerAt, TypeOK, ClientTake, Lesser
<1>9. FullWhenDraining'
    BY BuffersAssumption DEF IInv, FullWhenDraining, TypeOK, ClientTake, Lesser
<1>10. ArrivedIsOwed'
    BY <1>0, <1>2 DEF IInv, ArrivedIsOwed, TypeOK, ClientTake, Lesser
<1> QED BY <1>1, <1>3, <1>4, <1>5, <1>6, <1>7, <1>8, <1>9, <1>10 DEF IInv

(* A client that closes between two calls is owed nothing. *)
LEMMA ClientClosePreserves ==
    ASSUME IInv, ClientClose
    PROVE  IInv'
<1>0. QueuedUnits \in Nat /\ QueuedReply \in Nat /\ JobReply \in Nat
    BY Measures DEF IInv
<1>1. TypeOK'
    BY BuffersAssumption DEF IInv, TypeOK, ClientClose
<1>2. UNCHANGED <<QueuedUnits, QueuedReply, JobReply>>
    BY MeasuresKept DEF ClientClose
<1>3. Framed'
    BY DEF Framed, ClientClose
<1>4. CleanClose'
    BY DEF IInv, CleanClose, ClientClose
<1>5. QuietClose'
  <2>1. CASE cpc = "idle"
    BY <1>0, <1>2, <2>1, IdleOwesNothing DEF IInv, QuietClose, TypeOK, Framed, ClientClose
  <2>2. CASE cpc # "idle"
    BY <2>2 DEF QuietClose, ClientClose
  <2> QED BY <2>1, <2>2
<1>6. CallsInFlight'
    BY DEF IInv, CallsInFlight, ClientClose
<1>7. ClientAt'
    BY DEF IInv, ClientAt, TypeOK, ClientClose
<1>8. ServerAt'
    BY DEF IInv, ServerAt, TypeOK, ClientClose
<1>9. FullWhenDraining'
    BY BuffersAssumption DEF IInv, FullWhenDraining, TypeOK, ClientClose
<1>10. ArrivedIsOwed'
    BY <1>0, <1>2 DEF IInv, ArrivedIsOwed, TypeOK, ClientClose
<1> QED BY <1>1, <1>3, <1>4, <1>5, <1>6, <1>7, <1>8, <1>9, <1>10 DEF IInv

-----------------------------------------------------------------------------
(* The contexts. *)

(* The end of the harness context changes nothing else. *)
LEMMA HarnessCancelPreserves ==
    ASSUME IInv, HarnessCancel
    PROVE  IInv'
<1>0. QueuedUnits \in Nat /\ QueuedReply \in Nat /\ JobReply \in Nat
    BY Measures DEF IInv
<1>1. TypeOK'
    BY BuffersAssumption DEF IInv, TypeOK, HarnessCancel
<1>2. UNCHANGED <<QueuedUnits, QueuedReply, JobReply>>
    BY MeasuresKept DEF HarnessCancel
<1>3. Framed'
    BY <1>0, <1>2 DEF IInv, TypeOK, Framed, HarnessCancel
<1>4. CleanClose'
    BY DEF IInv, CleanClose, HarnessCancel
<1>5. QuietClose'
    BY <1>0, <1>2 DEF IInv, QuietClose, TypeOK, HarnessCancel
<1>6. CallsInFlight'
    BY DEF IInv, CallsInFlight, HarnessCancel
<1>7. ClientAt'
    BY DEF IInv, ClientAt, TypeOK, HarnessCancel
<1>8. ServerAt'
    BY DEF IInv, ServerAt, TypeOK, HarnessCancel
<1>9. FullWhenDraining'
    BY BuffersAssumption DEF IInv, FullWhenDraining, TypeOK, HarnessCancel
<1>10. ArrivedIsOwed'
    BY <1>0, <1>2 DEF IInv, ArrivedIsOwed, TypeOK, HarnessCancel
<1> QED BY <1>1, <1>3, <1>4, <1>5, <1>6, <1>7, <1>8, <1>9, <1>10 DEF IInv

(* A context reaches its children without touching the stream. *)
LEMMA PropagateCancelPreserves ==
    ASSUME IInv, PropagateCancel
    PROVE  IInv'
<1>0. QueuedUnits \in Nat /\ QueuedReply \in Nat /\ JobReply \in Nat
    BY Measures DEF IInv
<1>1. TypeOK'
    BY BuffersAssumption DEF IInv, TypeOK, PropagateCancel
<1>2. UNCHANGED <<QueuedUnits, QueuedReply, JobReply>>
    BY MeasuresKept DEF PropagateCancel
<1>3. Framed'
    BY <1>0, <1>2 DEF IInv, TypeOK, Framed, PropagateCancel
<1>4. CleanClose'
    BY DEF IInv, CleanClose, PropagateCancel
<1>5. QuietClose'
    BY <1>0, <1>2 DEF IInv, QuietClose, TypeOK, PropagateCancel
<1>6. CallsInFlight'
    BY DEF IInv, CallsInFlight, PropagateCancel
<1>7. ClientAt'
    BY DEF IInv, ClientAt, TypeOK, PropagateCancel
<1>8. ServerAt'
    BY DEF IInv, ServerAt, TypeOK, PropagateCancel
<1>9. FullWhenDraining'
    BY BuffersAssumption DEF IInv, FullWhenDraining, TypeOK, PropagateCancel
<1>10. ArrivedIsOwed'
    BY <1>0, <1>2 DEF IInv, ArrivedIsOwed, TypeOK, PropagateCancel
<1> QED BY <1>1, <1>3, <1>4, <1>5, <1>6, <1>7, <1>8, <1>9, <1>10 DEF IInv

(* Another connection can end the context, not move units. *)
LEMMA SiblingFailsPreserves ==
    ASSUME IInv, SiblingFails
    PROVE  IInv'
<1>0. QueuedUnits \in Nat /\ QueuedReply \in Nat /\ JobReply \in Nat
    BY Measures DEF IInv
<1>1. TypeOK'
    BY BuffersAssumption DEF IInv, TypeOK, SiblingFails
<1>2. UNCHANGED <<QueuedUnits, QueuedReply, JobReply>>
    BY MeasuresKept DEF SiblingFails
<1>3. Framed'
    BY <1>0, <1>2 DEF IInv, TypeOK, Framed, SiblingFails
<1>4. CleanClose'
    BY DEF IInv, CleanClose, SiblingFails
<1>5. QuietClose'
    BY <1>0, <1>2 DEF IInv, QuietClose, TypeOK, SiblingFails
<1>6. CallsInFlight'
    BY DEF IInv, CallsInFlight, SiblingFails
<1>7. ClientAt'
    BY DEF IInv, ClientAt, TypeOK, SiblingFails
<1>8. ServerAt'
    BY DEF IInv, ServerAt, TypeOK, SiblingFails
<1>9. FullWhenDraining'
    BY BuffersAssumption DEF IInv, FullWhenDraining, TypeOK, SiblingFails
<1>10. ArrivedIsOwed'
    BY <1>0, <1>2 DEF IInv, ArrivedIsOwed, TypeOK, SiblingFails
<1> QED BY <1>1, <1>3, <1>4, <1>5, <1>6, <1>7, <1>8, <1>9, <1>10 DEF IInv

-----------------------------------------------------------------------------
(* runConn. *)

(* The check of the context reads nothing. *)
LEMMA ServerTopPreserves ==
    ASSUME IInv, ServerTop
    PROVE  IInv'
<1>0. QueuedUnits \in Nat /\ QueuedReply \in Nat /\ JobReply \in Nat
    BY Measures DEF IInv
<1>1. TypeOK'
    BY BuffersAssumption DEF IInv, TypeOK, ServerTop
<1>2. UNCHANGED <<QueuedUnits, QueuedReply, JobReply>>
    BY MeasuresKept DEF ServerTop
<1>3. Framed'
    BY <1>0, <1>2 DEF IInv, TypeOK, Framed, ServerTop
<1>4. CleanClose'
    BY DEF IInv, CleanClose, ServerAt, ServerTop
<1>5. QuietClose'
    BY <1>0, <1>2 DEF IInv, QuietClose, TypeOK, ServerTop
<1>6. CallsInFlight'
    BY DEF IInv, CallsInFlight, ServerTop
<1>7. ClientAt'
    BY DEF IInv, ClientAt, TypeOK, ServerTop
<1>8. ServerAt'
    BY DEF IInv, ServerAt, TypeOK, ServerTop
<1>9. FullWhenDraining'
    BY BuffersAssumption DEF IInv, FullWhenDraining, TypeOK, ServerTop
<1>10. ArrivedIsOwed'
    BY <1>0, <1>2 DEF IInv, ArrivedIsOwed, TypeOK, ServerTop
<1> QED BY <1>1, <1>3, <1>4, <1>5, <1>6, <1>7, <1>8, <1>9, <1>10 DEF IInv

(* Filling the reader moves request units and adds none. *)
LEMMA ServerFillPreserves ==
    ASSUME IInv, ServerFill
    PROVE  IInv'
<1>0. QueuedUnits \in Nat /\ QueuedReply \in Nat /\ JobReply \in Nat
    BY Measures DEF IInv
<1>1. TypeOK'
    BY BuffersAssumption DEF IInv, TypeOK, ServerFill, Reading, Lesser
<1>2. UNCHANGED <<QueuedUnits, QueuedReply, JobReply>>
    BY MeasuresKept DEF ServerFill
<1>3. Framed'
  <2>1. c2s' + sr' = c2s + sr
    BY <1>1, BuffersAssumption DEF IInv, TypeOK, ServerFill, Reading, Lesser
  <2>2. PICK a, b, d, e, f, g \in Int :
         /\ toWrite = a /\ cw = b /\ c2s = d /\ sr = e /\ c2s' = f /\ sr' = g
    <3>1. /\ toWrite \in Int /\ cw \in Int /\ c2s \in Int /\ sr \in Int
          /\ c2s' \in Int /\ sr' \in Int
      BY <1>1, Amounts DEF IInv
    <3> QED BY <3>1
  <2>3. UNCHANGED <<cpc, toWrite, cw, hdr, left, toRead, cr, s2c, sw, out>>
    BY DEF ServerFill
  <2>4. toWrite' + cw' + c2s' + sr' = toWrite + cw + c2s + sr
    BY <2>1, <2>2, <2>3
  <2> QED BY <1>2, <2>3, <2>4 DEF IInv, Framed
<1>4. CleanClose'
    BY DEF IInv, CleanClose, ServerFill, Reading, Lesser
<1>5. QuietClose'
    BY <1>0, <1>2 DEF IInv, QuietClose, TypeOK, ServerFill, Reading, Lesser
<1>6. CallsInFlight'
    BY DEF IInv, CallsInFlight, ServerFill, Reading, Lesser
<1>7. ClientAt'
    BY DEF IInv, ClientAt, TypeOK, ServerFill, Reading, Lesser
<1>8. ServerAt'
    BY DEF IInv, ServerAt, TypeOK, ServerFill, Reading, Lesser
<1>9. FullWhenDraining'
    BY BuffersAssumption DEF IInv, FullWhenDraining, TypeOK, ServerFill, Reading, Lesser
<1>10. ArrivedIsOwed'
    BY <1>0, <1>2 DEF IInv, ArrivedIsOwed, TypeOK, ServerFill, Reading, Lesser
<1> QED BY <1>1, <1>3, <1>4, <1>5, <1>6, <1>7, <1>8, <1>9, <1>10 DEF IInv

(* Each value read is a value to write back. *)
LEMMA ServerReadValPreserves ==
    ASSUME IInv, ServerReadVal
    PROVE  IInv'
<1>0. /\ QueuedUnits = 0 /\ QueuedReply = 0 /\ JobReply \in Nat
      /\ job \in Calls
    BY Measures, JobOwnsStream DEF IInv, TypeOK, ServerAt, ServerReadVal
<1>1. TypeOK'
    BY BuffersAssumption DEF IInv, TypeOK, ServerAt, ServerReadVal
<1>2. UNCHANGED <<QueuedUnits, QueuedReply>> /\ JobReply = left /\ JobReply' = left'
    BY MeasuresKept DEF IInv, ServerAt, JobReply, ServerReadVal
<1>3. Framed'
  <2>1. CASE cpc = "closed"
    BY <2>1 DEF Framed, ServerReadVal
  <2>2. CASE cpc # "closed"
    <3>1. /\ toWrite + cw + c2s + sr = hdr + left + QueuedUnits
          /\ toRead = cr + s2c + sw + out + JobReply + QueuedReply
          /\ cpc = "idle" => toRead = 0 /\ toWrite + cw = 0
      BY <2>2 DEF IInv, Framed
    <3>2. sr' = sr - 1 /\ left' = left - 1 /\ out' = 1 /\ out = 0 /\ hdr' = hdr
      BY DEF IInv, ServerAt, ServerReadVal
    <3>3. UNCHANGED <<cpc, toWrite, cw, c2s, toRead, cr, s2c, sw>>
      BY <2>2 DEF ServerReadVal
    <3>4. PICK a, b, d, e, f, g, h, i, j, k, l \in Int :
           /\ toWrite = a /\ cw = b /\ c2s = d /\ sr = e /\ hdr = f
           /\ left = g /\ QueuedUnits = h /\ sr' = i /\ hdr' = j /\ left' = k
           /\ QueuedUnits' = l
      BY <1>0, <1>1, <1>2, <3>2, Measures DEF IInv, TypeOK
    <3>5. toWrite' + cw' + c2s' + sr' = hdr' + left' + QueuedUnits'
      BY <1>0, <1>2, <3>1, <3>2, <3>3, <3>4
    <3>6. PICK a1, b1, d1, e1, f1, g1, h1, i1, j1, k1, l1, m1 \in Int :
           /\ toRead = a1 /\ cr = b1 /\ s2c = d1 /\ sw = e1 /\ out = f1
           /\ JobReply = g1 /\ QueuedReply = h1 /\ s2c' = i1 /\ sw' = j1 /\ out' = k1
           /\ JobReply' = l1 /\ QueuedReply' = m1
      BY <1>0, <1>1, <1>2, <3>2, Measures DEF IInv, TypeOK
    <3>7. toRead' = cr' + s2c' + sw' + out' + JobReply' + QueuedReply'
      BY <1>0, <1>2, <3>1, <3>2, <3>3, <3>6
    <3> QED BY <3>1, <3>3, <3>5, <3>7 DEF Framed
  <2> QED BY <2>1, <2>2
<1>4. CleanClose'
    BY DEF IInv, CleanClose, ServerReadVal
<1>5. QuietClose'
    BY <1>0 DEF IInv, QuietClose, ServerAt, ServerReadVal
<1>6. CallsInFlight'
    BY DEF IInv, CallsInFlight, ServerReadVal
<1>7. ClientAt'
    BY DEF IInv, ClientAt, TypeOK, ServerReadVal
<1>8. ServerAt'
    BY DEF IInv, ServerAt, TypeOK, ServerReadVal
<1>9. FullWhenDraining'
    BY BuffersAssumption DEF IInv, FullWhenDraining, TypeOK, ServerReadVal
<1>10. ArrivedIsOwed'
    BY <1>0, <1>2 DEF IInv, ArrivedIsOwed, TypeOK, ServerReadVal
<1> QED BY <1>1, <1>3, <1>4, <1>5, <1>6, <1>7, <1>8, <1>9, <1>10 DEF IInv

(* Nothing but the payload has arrived, so a read stays inside it. *)
LEMMA ServerReadHexPreserves ==
    ASSUME IInv, ServerReadHex
    PROVE  IInv'
<1>0. /\ QueuedUnits = 0 /\ QueuedReply = 0 /\ JobReply \in Nat
      /\ job \in Calls
    BY Measures, JobOwnsStream DEF IInv, TypeOK, ServerAt, ServerReadHex
<1>1. TypeOK'
  <2>1. sr <= left
    BY <1>0 DEF IInv, TypeOK, ArrivedIsOwed, ServerAt, ServerReadHex
  <2> QED BY <2>1, BuffersAssumption DEF IInv, TypeOK, ServerReadHex, HexRoom, Lesser
<1>2. UNCHANGED <<QueuedUnits, QueuedReply>> /\ JobReply = 2 * left /\ JobReply' = 2 * left'
    BY MeasuresKept DEF IInv, ServerAt, JobReply, ServerReadHex
<1>3. Framed'
  <2>1. CASE cpc = "closed"
    BY <2>1 DEF Framed, ServerReadHex
  <2>2. CASE cpc # "closed"
    <3>1. /\ toWrite + cw + c2s + sr = hdr + left + QueuedUnits
          /\ toRead = cr + s2c + sw + out + JobReply + QueuedReply
          /\ cpc = "idle" => toRead = 0 /\ toWrite + cw = 0
      BY <2>2 DEF IInv, Framed
    <3>2. sr' - left' = sr - left /\ 2 * left' + out' = 2 * left + out /\ hdr' = hdr
          /\ left' \in Nat /\ JobReply' \in Nat
      BY <1>1, <1>2, BuffersAssumption DEF IInv, TypeOK, ServerAt, ServerReadHex, HexRoom, Lesser
    <3>3. UNCHANGED <<cpc, toWrite, cw, c2s, toRead, cr, s2c, sw>>
      BY <2>2 DEF ServerReadHex
    <3>4. PICK a, b, d, e, f, g, h, i, j, k, l \in Int :
           /\ toWrite = a /\ cw = b /\ c2s = d /\ sr = e /\ hdr = f
           /\ left = g /\ QueuedUnits = h /\ sr' = i /\ hdr' = j /\ left' = k
           /\ QueuedUnits' = l
      <4>1. /\ toWrite \in Int /\ cw \in Int /\ c2s \in Int /\ sr \in Int
            /\ hdr \in Int /\ left \in Int /\ QueuedUnits \in Int /\ sr' \in Int
            /\ hdr' \in Int /\ left' \in Int /\ QueuedUnits' \in Int
        BY <1>0, <1>1, <1>2, <3>2, Measures DEF IInv, TypeOK
      <4> QED BY <4>1
    <3>5. toWrite' + cw' + c2s' + sr' = hdr' + left' + QueuedUnits'
      BY <1>0, <1>2, <3>1, <3>2, <3>3, <3>4
    <3>6. PICK a1, b1, d1, e1, f1, g1, h1, i1, j1, k1, l1, m1 \in Int :
           /\ toRead = a1 /\ cr = b1 /\ s2c = d1 /\ sw = e1 /\ out = f1
           /\ JobReply = g1 /\ QueuedReply = h1 /\ s2c' = i1 /\ sw' = j1 /\ out' = k1
           /\ JobReply' = l1 /\ QueuedReply' = m1
      <4>1. /\ toRead \in Int /\ cr \in Int /\ s2c \in Int /\ sw \in Int
            /\ out \in Int /\ JobReply \in Int /\ QueuedReply \in Int /\ s2c' \in Int
            /\ sw' \in Int /\ out' \in Int /\ JobReply' \in Int /\ QueuedReply' \in Int
        BY <1>0, <1>1, <1>2, <3>2, Measures DEF IInv, TypeOK
      <4> QED BY <4>1
    <3>7. toRead' = cr' + s2c' + sw' + out' + JobReply' + QueuedReply'
      BY <1>0, <1>2, <3>1, <3>2, <3>3, <3>6
    <3> QED BY <3>1, <3>3, <3>5, <3>7 DEF Framed
  <2> QED BY <2>1, <2>2
<1>4. CleanClose'
    BY DEF IInv, CleanClose, ServerReadHex
<1>5. QuietClose'
    BY <1>0 DEF IInv, QuietClose, ServerAt, ServerReadHex
<1>6. CallsInFlight'
    BY DEF IInv, CallsInFlight, ServerReadHex
<1>7. ClientAt'
    BY DEF IInv, ClientAt, TypeOK, ServerReadHex
<1>8. ServerAt'
    BY <1>1, BuffersAssumption DEF IInv, ServerAt, TypeOK, ServerReadHex, HexRoom, Lesser
<1>9. FullWhenDraining'
    BY BuffersAssumption DEF IInv, FullWhenDraining, TypeOK, ServerReadHex
<1>10. ArrivedIsOwed'
  <2>1. sr' - left' = sr - left
    BY <1>1, BuffersAssumption DEF IInv, TypeOK, ServerAt, ServerReadHex, HexRoom, Lesser
  <2>n. PICK a, b, d, e, f, g, h, i, j \in Int :
         /\ c2s = a /\ sr = b /\ hdr = d /\ left = e /\ QueuedUnits = f
         /\ sr' = g /\ hdr' = h /\ left' = i /\ QueuedUnits' = j
    <3>1. /\ c2s \in Int /\ sr \in Int /\ hdr \in Int /\ left \in Int
          /\ QueuedUnits \in Int /\ sr' \in Int /\ hdr' \in Int /\ left' \in Int
          /\ QueuedUnits' \in Int
      BY <1>0, <1>1, <1>2, Amounts DEF IInv
    <3> QED BY <3>1
  <2> QED BY <1>0, <1>2, <2>1, <2>n DEF IInv, ArrivedIsOwed, ServerReadHex
<1> QED BY <1>1, <1>3, <1>4, <1>5, <1>6, <1>7, <1>8, <1>9, <1>10 DEF IInv

(* What does not fit waits for the drain; otherwise the loop goes on or ends. *)
LEMMA ServerPutPreserves ==
    ASSUME IInv, ServerPut
    PROVE  IInv'
<1>0. /\ QueuedUnits = 0 /\ QueuedReply = 0
      /\ job \in Calls /\ job # EmptyHex /\ hdr = 0 /\ left \in Nat
    BY JobOwnsStream DEF IInv, TypeOK, ServerAt, ServerPut
<1>1. TypeOK'
    BY BuffersAssumption DEF IInv, TypeOK, ServerPut, Continue, Lesser
<1>2. UNCHANGED <<QueuedUnits, QueuedReply, JobReply>>
  <2>1. UNCHANGED <<QueuedUnits, QueuedReply>>
    BY MeasuresKept DEF ServerPut
  <2>2. CASE left > 0
    <3>1. UNCHANGED <<job, hdr, left>>
      BY <1>0, <2>2 DEF ServerPut, Continue
    <3> QED BY <2>1, <3>1, MeasuresKept
  <2>3. CASE left = 0
    BY <1>0, <2>3, MeasuresKept DEF JobReply, ServerPut, Continue
  <2> QED BY <1>0, <2>1, <2>2, <2>3
<1>3. Framed'
  <2>1. CASE cpc = "closed"
    BY <2>1 DEF Framed, ServerPut
  <2>2. CASE cpc # "closed"
    <3>1. /\ toWrite + cw + c2s + sr = hdr + left + QueuedUnits
          /\ toRead = cr + s2c + sw + out + JobReply + QueuedReply
          /\ cpc = "idle" => toRead = 0 /\ toWrite + cw = 0
      BY <2>2 DEF IInv, Framed
    <3>2. sw' + out' = sw + out /\ left' = left /\ hdr' = hdr /\ JobReply \in Nat
      BY <1>1, BuffersAssumption, Measures DEF IInv, TypeOK, ServerPut, Lesser
    <3>3. UNCHANGED <<cpc, toWrite, cw, c2s, sr, toRead, cr, s2c>>
      BY <2>2 DEF ServerPut
    <3>4. PICK a, b, d, e, f, g, h, i, j, k, l \in Int :
           /\ toWrite = a /\ cw = b /\ c2s = d /\ sr = e /\ hdr = f
           /\ left = g /\ QueuedUnits = h /\ sr' = i /\ hdr' = j /\ left' = k
           /\ QueuedUnits' = l
      BY <1>0, <1>1, <1>2, <3>2, Measures DEF IInv, TypeOK
    <3>5. toWrite' + cw' + c2s' + sr' = hdr' + left' + QueuedUnits'
      BY <1>0, <1>2, <3>1, <3>2, <3>3, <3>4
    <3>6. PICK a1, b1, d1, e1, f1, g1, h1, i1, j1, k1, l1, m1 \in Int :
           /\ toRead = a1 /\ cr = b1 /\ s2c = d1 /\ sw = e1 /\ out = f1
           /\ JobReply = g1 /\ QueuedReply = h1 /\ s2c' = i1 /\ sw' = j1 /\ out' = k1
           /\ JobReply' = l1 /\ QueuedReply' = m1
      BY <1>0, <1>1, <1>2, <3>2, Measures DEF IInv, TypeOK
    <3>7. toRead' = cr' + s2c' + sw' + out' + JobReply' + QueuedReply'
      BY <1>0, <1>2, <3>1, <3>2, <3>3, <3>6
    <3> QED BY <3>1, <3>3, <3>5, <3>7 DEF Framed
  <2> QED BY <2>1, <2>2
<1>4. CleanClose'
    BY DEF IInv, CleanClose, ServerPut, Continue, Lesser
<1>5. QuietClose'
    BY <1>0 DEF IInv, QuietClose, ServerAt, ServerPut
<1>6. CallsInFlight'
    BY DEF IInv, CallsInFlight, ServerPut, Continue
<1>7. ClientAt'
    BY DEF IInv, ClientAt, TypeOK, ServerPut, Continue, Lesser
<1>8. ServerAt'
    BY <1>0, <1>1, BuffersAssumption DEF IInv, ServerAt, TypeOK, ServerPut, Continue, Lesser
<1>9. FullWhenDraining'
    BY BuffersAssumption DEF IInv, FullWhenDraining, TypeOK, ServerPut, Continue, Lesser
<1>10. ArrivedIsOwed'
    BY <1>0, <1>2 DEF IInv, ArrivedIsOwed, TypeOK, ServerPut, Continue, Lesser
<1> QED BY <1>1, <1>3, <1>4, <1>5, <1>6, <1>7, <1>8, <1>9, <1>10 DEF IInv

(* A flush moves reply units; after a close there is no reply to keep. *)
LEMMA ServerPushPreserves ==
    ASSUME IInv, ServerPush
    PROVE  IInv'
<1>0. QueuedUnits \in Nat /\ QueuedReply \in Nat /\ JobReply \in Nat
    BY Measures DEF IInv
<1>1. TypeOK'
  <2>1. CASE cpc = "closed"
    BY <2>1, BuffersAssumption DEF IInv, TypeOK, ServerPush
  <2>2. CASE cpc # "closed"
    BY <2>2, BuffersAssumption DEF IInv, TypeOK, ServerPush, Lesser
  <2> QED BY <2>1, <2>2
<1>2. UNCHANGED <<QueuedUnits, QueuedReply, JobReply>>
    BY MeasuresKept DEF ServerPush
<1>3. Framed'
  <2>1. CASE cpc = "closed"
    BY <2>1 DEF Framed, ServerPush
  <2>2. CASE cpc # "closed"
    <3>1. /\ toWrite + cw + c2s + sr = hdr + left + QueuedUnits
          /\ toRead = cr + s2c + sw + out + JobReply + QueuedReply
          /\ cpc = "idle" => toRead = 0 /\ toWrite + cw = 0
      BY <2>2 DEF IInv, Framed
    <3>2. sw' + s2c' = sw + s2c
      <4>1. PICK k \in 1..Lesser(sw, NetBuf - s2c) : sw' = sw - k /\ s2c' = s2c + k
        BY <2>2 DEF ServerPush
      <4>2. k \in Int
        BY BuffersAssumption DEF IInv, TypeOK, Lesser
      <4> QED BY <4>1, <4>2 DEF IInv, TypeOK
    <3>3. UNCHANGED <<cpc, toWrite, cw, c2s, sr, toRead, cr, hdr, left, out>>
      BY <2>2 DEF ServerPush
    <3>4. PICK a, b, d, e, f, g, h, i, j, k, l \in Int :
           /\ toWrite = a /\ cw = b /\ c2s = d /\ sr = e /\ hdr = f
           /\ left = g /\ QueuedUnits = h /\ sr' = i /\ hdr' = j /\ left' = k
           /\ QueuedUnits' = l
      BY <1>0, <1>1, <1>2, <3>2, Measures DEF IInv, TypeOK
    <3>5. toWrite' + cw' + c2s' + sr' = hdr' + left' + QueuedUnits'
      BY <1>0, <1>2, <3>1, <3>2, <3>3, <3>4
    <3>6. PICK a1, b1, d1, e1, f1, g1, h1, i1, j1, k1, l1, m1 \in Int :
           /\ toRead = a1 /\ cr = b1 /\ s2c = d1 /\ sw = e1 /\ out = f1
           /\ JobReply = g1 /\ QueuedReply = h1 /\ s2c' = i1 /\ sw' = j1 /\ out' = k1
           /\ JobReply' = l1 /\ QueuedReply' = m1
      BY <1>0, <1>1, <1>2, <3>2, Measures DEF IInv, TypeOK
    <3>7. toRead' = cr' + s2c' + sw' + out' + JobReply' + QueuedReply'
      BY <1>0, <1>2, <3>1, <3>2, <3>3, <3>6
    <3> QED BY <3>1, <3>3, <3>5, <3>7 DEF Framed
  <2> QED BY <2>1, <2>2
<1>4. CleanClose'
    BY DEF IInv, CleanClose, ServerPush, Lesser
<1>5. QuietClose'
    BY <1>0, <1>2 DEF IInv, QuietClose, TypeOK, ServerPush, Lesser
<1>6. CallsInFlight'
    BY DEF IInv, CallsInFlight, ServerPush, Lesser
<1>7. ClientAt'
    BY DEF IInv, ClientAt, TypeOK, ServerPush, Lesser
<1>8. ServerAt'
    BY DEF IInv, ServerAt, TypeOK, ServerPush, Lesser
<1>9. FullWhenDraining'
    BY BuffersAssumption DEF IInv, FullWhenDraining, TypeOK, ServerPush, Lesser
<1>10. ArrivedIsOwed'
    BY <1>0, <1>2 DEF IInv, ArrivedIsOwed, TypeOK, ServerPush, Lesser
<1> QED BY <1>1, <1>3, <1>4, <1>5, <1>6, <1>7, <1>8, <1>9, <1>10 DEF IInv

(* A flush that is over leaves the writer empty. *)
LEMMA ServerFlushedPreserves ==
    ASSUME IInv, ServerFlushed
    PROVE  IInv'
<1>0. QueuedUnits \in Nat /\ QueuedReply \in Nat /\ JobReply \in Nat
    BY Measures DEF IInv
<1>1. TypeOK'
    BY BuffersAssumption DEF IInv, TypeOK, ServerFlushed
<1>2. UNCHANGED <<QueuedUnits, QueuedReply, JobReply>>
    BY MeasuresKept DEF ServerFlushed
<1>3. Framed'
    BY <1>0, <1>2 DEF IInv, TypeOK, Framed, ServerFlushed
<1>4. CleanClose'
    BY DEF IInv, CleanClose, ServerFlushed
<1>5. QuietClose'
    BY <1>0, <1>2 DEF IInv, QuietClose, TypeOK, ServerFlushed
<1>6. CallsInFlight'
    BY DEF IInv, CallsInFlight, ServerFlushed
<1>7. ClientAt'
    BY DEF IInv, ClientAt, TypeOK, ServerFlushed
<1>8. ServerAt'
    BY DEF IInv, ServerAt, TypeOK, ServerFlushed
<1>9. FullWhenDraining'
    BY BuffersAssumption DEF IInv, FullWhenDraining, TypeOK, ServerFlushed
<1>10. ArrivedIsOwed'
    BY <1>0, <1>2 DEF IInv, ArrivedIsOwed, TypeOK, ServerFlushed
<1> QED BY <1>1, <1>3, <1>4, <1>5, <1>6, <1>7, <1>8, <1>9, <1>10 DEF IInv

(* After a quiet close the stream ends at a command byte. *)
LEMMA ServerEOFPreserves ==
    ASSUME IInv, ServerEOF
    PROVE  IInv'
<1>0. QueuedUnits \in Nat /\ QueuedReply \in Nat /\ JobReply \in Nat
    BY Measures DEF IInv
<1>1. TypeOK'
    BY BuffersAssumption DEF IInv, TypeOK, ServerEOF, Reading
<1>2. UNCHANGED <<QueuedUnits, QueuedReply, JobReply>>
    BY MeasuresKept DEF ServerEOF
<1>3. Framed'
    BY <1>0, <1>2 DEF IInv, TypeOK, Framed, ServerEOF, Reading
<1>4. CleanClose'
  <2>1. spc # "cmd" => midcall
    BY Measures, CallFacts DEF IInv, TypeOK, QuietClose, ServerAt, ServerEOF, Reading
  <2> QED BY <2>1 DEF CleanClose, ServerEOF
<1>5. QuietClose'
    BY <1>0, <1>2 DEF IInv, QuietClose, TypeOK, ServerEOF, Reading
<1>6. CallsInFlight'
    BY DEF IInv, CallsInFlight, ServerEOF, Reading
<1>7. ClientAt'
    BY DEF IInv, ClientAt, TypeOK, ServerEOF, Reading
<1>8. ServerAt'
    BY DEF IInv, ServerAt, TypeOK, ServerEOF, Reading
<1>9. FullWhenDraining'
    BY BuffersAssumption DEF IInv, FullWhenDraining, TypeOK, ServerEOF, Reading
<1>10. ArrivedIsOwed'
    BY <1>0, <1>2 DEF IInv, ArrivedIsOwed, TypeOK, ServerEOF, Reading
<1> QED BY <1>1, <1>3, <1>4, <1>5, <1>6, <1>7, <1>8, <1>9, <1>10 DEF IInv

(* A quiet close does not reset the connection. *)
LEMMA ServerResetPreserves ==
    ASSUME IInv, ServerReset
    PROVE  IInv'
<1>0. QueuedUnits \in Nat /\ QueuedReply \in Nat /\ JobReply \in Nat
    BY Measures DEF IInv
<1>1. TypeOK'
    BY BuffersAssumption DEF IInv, TypeOK, ServerReset, Reading
<1>2. UNCHANGED <<QueuedUnits, QueuedReply, JobReply>>
    BY MeasuresKept DEF ServerReset
<1>3. Framed'
    BY <1>0, <1>2 DEF IInv, TypeOK, Framed, ServerReset, Reading
<1>4. CleanClose'
    BY DEF IInv, CleanClose, QuietClose, ServerReset
<1>5. QuietClose'
    BY <1>0, <1>2 DEF IInv, QuietClose, TypeOK, ServerReset, Reading
<1>6. CallsInFlight'
    BY DEF IInv, CallsInFlight, ServerReset, Reading
<1>7. ClientAt'
    BY DEF IInv, ClientAt, TypeOK, ServerReset, Reading
<1>8. ServerAt'
    BY DEF IInv, ServerAt, TypeOK, ServerReset, Reading
<1>9. FullWhenDraining'
    BY BuffersAssumption DEF IInv, FullWhenDraining, TypeOK, ServerReset, Reading
<1>10. ArrivedIsOwed'
    BY <1>0, <1>2 DEF IInv, ArrivedIsOwed, TypeOK, ServerReset, Reading
<1> QED BY <1>1, <1>3, <1>4, <1>5, <1>6, <1>7, <1>8, <1>9, <1>10 DEF IInv

(* The last argument of add owes its sum, that of the others the loop. *)
LEMMA ServerReadIntPreserves ==
    ASSUME IInv, ServerReadInt
    PROVE  IInv'
<1>0. QueuedUnits \in Nat /\ QueuedReply \in Nat /\ JobReply \in Nat
    BY Measures DEF IInv
<1>1. TypeOK'
    BY BuffersAssumption DEF IInv, TypeOK, ServerAt, ServerReadInt, Continue
<1>2. /\ UNCHANGED <<QueuedUnits, QueuedReply>>
      /\ JobReply' + out' = JobReply + out
  <2>0. /\ UNCHANGED <<QueuedUnits, QueuedReply>>
        /\ job \in Calls /\ hdr \in 1..2 /\ left = job.n /\ out = 0
        /\ left' = left /\ hdr' = hdr - 1
    BY MeasuresKept DEF IInv, TypeOK, ServerAt, ServerReadInt
  <2>1. CASE hdr > 1
    BY <2>0, <2>1 DEF JobReply, ServerReadInt
  <2>2. CASE hdr = 1 /\ job.cmd = "add"
    BY <2>0, <2>2 DEF JobReply, ServerReadInt
  <2>3. CASE hdr = 1 /\ job.cmd # "add" /\ left > 0
    BY <2>0, <2>3 DEF JobReply, ServerReadInt, Continue
  <2>4. CASE hdr = 1 /\ job.cmd # "add" /\ left = 0
    BY <2>0, <2>4 DEF JobReply, ServerReadInt, Continue
  <2> QED BY <2>0, <2>1, <2>2, <2>3, <2>4, CallFacts
<1>3. Framed'
  <2>1. CASE cpc = "closed"
    BY <2>1 DEF Framed, ServerReadInt
  <2>2. CASE cpc # "closed"
    <3>1. /\ toWrite + cw + c2s + sr = hdr + left + QueuedUnits
          /\ toRead = cr + s2c + sw + out + JobReply + QueuedReply
          /\ cpc = "idle" => toRead = 0 /\ toWrite + cw = 0
      BY <2>2 DEF IInv, Framed
    <3>2. sr' = sr - 1 /\ left' = left /\ hdr' = hdr - 1 /\ JobReply' \in Nat
      BY <1>1 DEF ServerReadInt, JobReply, TypeOK
    <3>3. UNCHANGED <<cpc, toWrite, cw, c2s, toRead, cr, s2c, sw>>
      BY <2>2 DEF ServerReadInt
    <3>4. PICK a, b, d, e, f, g, h, i, j, k, l \in Int :
           /\ toWrite = a /\ cw = b /\ c2s = d /\ sr = e /\ hdr = f
           /\ left = g /\ QueuedUnits = h /\ sr' = i /\ hdr' = j /\ left' = k
           /\ QueuedUnits' = l
      BY <1>0, <1>1, <1>2, <3>2, Measures DEF IInv, TypeOK
    <3>5. toWrite' + cw' + c2s' + sr' = hdr' + left' + QueuedUnits'
      BY <1>0, <1>2, <3>1, <3>2, <3>3, <3>4
    <3>6. PICK a1, b1, d1, e1, f1, g1, h1, i1, j1, k1, l1, m1 \in Int :
           /\ toRead = a1 /\ cr = b1 /\ s2c = d1 /\ sw = e1 /\ out = f1
           /\ JobReply = g1 /\ QueuedReply = h1 /\ s2c' = i1 /\ sw' = j1 /\ out' = k1
           /\ JobReply' = l1 /\ QueuedReply' = m1
      BY <1>0, <1>1, <1>2, <3>2, Measures DEF IInv, TypeOK
    <3>7. toRead' = cr' + s2c' + sw' + out' + JobReply' + QueuedReply'
      BY <1>0, <1>2, <3>1, <3>2, <3>3, <3>6
    <3> QED BY <3>1, <3>3, <3>5, <3>7 DEF Framed
  <2> QED BY <2>1, <2>2
<1>4. CleanClose'
    BY DEF IInv, CleanClose, ServerReadInt, Continue
<1>5. QuietClose'
    BY <1>0, <1>1, <1>2, CallFacts DEF IInv, QuietClose, TypeOK, ServerAt, ServerReadInt, Continue
<1>6. CallsInFlight'
    BY DEF IInv, CallsInFlight, ServerReadInt, Continue
<1>7. ClientAt'
    BY DEF IInv, ClientAt, TypeOK, ServerReadInt, Continue
<1>8. ServerAt'
  <2>0. /\ job \in Calls /\ hdr \in 1..HeaderInts(job) /\ left = job.n /\ out = 0
        /\ left' = left /\ hdr' = hdr - 1 /\ HeaderInts(job) \in 0..2
    BY CallFacts DEF IInv, TypeOK, ServerAt, ServerReadInt
  <2>1. CASE hdr > 1
    BY <2>0, <2>1 DEF IInv, ServerAt, ServerReadInt
  <2>2. CASE hdr = 1 /\ job.cmd = "add"
    BY <2>0, <2>2, CallFacts DEF IInv, ServerAt, ServerReadInt
  <2>3. CASE hdr = 1 /\ job.cmd # "add" /\ left > 0
    BY <2>0, <2>3, CallFacts DEF IInv, ServerAt, ServerReadInt, Continue
  <2>4. CASE hdr = 1 /\ job.cmd # "add" /\ left = 0
    BY <2>0, <2>4 DEF IInv, ServerAt, ServerReadInt, Continue
  <2> QED BY <2>0, <2>1, <2>2, <2>3, <2>4, CallFacts
<1>9. FullWhenDraining'
    BY DEF IInv, FullWhenDraining, ServerReadInt, Continue
<1>10. ArrivedIsOwed'
    BY <1>0, <1>2 DEF IInv, ArrivedIsOwed, TypeOK, ServerReadInt, Continue
<1> QED BY <1>1, <1>3, <1>4, <1>5, <1>6, <1>7, <1>8, <1>9, <1>10 DEF IInv

(* The head of the queue becomes the job: an EmptyHex, or the last call. *)
LEMMA ServerReadCmdPreserves ==
    ASSUME IInv, ServerReadCmd
    PROVE  IInv'
<1>a. reqs \in Seq(Calls) /\ reqs # <<>>
    BY DEF IInv, TypeOK, ServerReadCmd
<1>b. /\ Head(reqs) \in Calls /\ Head(reqs) = reqs[1] /\ Len(reqs) \in Nat \ {0}
      /\ Tail(reqs) \in Seq(Calls) /\ Len(Tail(reqs)) = Len(reqs) - 1
      /\ \A i \in 1..(Len(reqs) - 1) : Tail(reqs)[i] = reqs[i + 1]
    BY <1>a, HeadTailProperties
<1>c. Tail(reqs) = <<>> <=> Len(reqs) = 1
  <2>1. \A s \in Seq(Calls) : s = <<>> <=> Len(s) = 0
    OBVIOUS
  <2>2. Len(Tail(reqs)) = 0 <=> Len(reqs) = 1
    BY <1>b
  <2>3. Tail(reqs) = <<>> <=> Len(Tail(reqs)) = 0
    BY <1>b, <2>1, Zenon
  <2> QED BY <2>2, <2>3
<1>d. job = NoCall /\ hdr = 0 /\ left = 0 /\ out = 0
    BY DEF IInv, ServerAt, ServerReadCmd
<1>e. JobReply = 0
    BY <1>d DEF JobReply
<1>0. /\ reqs \in Seq(Calls) /\ reqs # <<>> /\ Len(reqs) \in Nat \ {0}
      /\ Head(reqs) \in Calls /\ Head(reqs) = reqs[1]
      /\ Tail(reqs) \in Seq(Calls) /\ Len(Tail(reqs)) = Len(reqs) - 1
      /\ \A i \in 1..(Len(reqs) - 1) : Tail(reqs)[i] = reqs[i + 1]
      /\ Tail(reqs) = <<>> <=> Len(reqs) = 1
      /\ job = NoCall /\ hdr = 0 /\ left = 0 /\ out = 0 /\ JobReply = 0
    BY <1>a, <1>b, <1>c, <1>d, <1>e
<1>1. TypeOK'
    BY <1>0, CallFacts, BuffersAssumption DEF IInv, TypeOK, ServerReadCmd
<1>2. /\ hdr' + left' + QueuedUnits' + 1 = QueuedUnits
      /\ JobReply' + out' + QueuedReply' = QueuedReply
      /\ QueuedUnits' \in Nat /\ QueuedReply' \in Nat /\ JobReply' \in Nat
  <2>0. /\ QueuedUnits' \in Nat /\ QueuedReply' \in Nat /\ JobReply' \in Nat
    BY <1>1, MeasuresNext
  <2>1. JobReply' + out' = ReplyLen(Head(reqs))
    BY <1>0, CallFacts DEF JobReply, ReplyLen, HeaderInts, ServerReadCmd
  <2>2. hdr' + left' + 1 = RequestLen(Head(reqs))
    BY <1>0, CallFacts, SMTT(60) DEF ServerReadCmd
  <2>3. CASE Len(reqs) = 1
    <3>1. reqs' = <<>> /\ reqs[Len(reqs)] = Head(reqs)
      BY <1>0, <2>3 DEF ServerReadCmd
    <3>2. QueuedUnits' = 0 /\ QueuedReply' = 0
      BY <3>1 DEF QueuedUnits, QueuedReply
    <3>3. PICK c \in Calls : c = Head(reqs)
      BY <1>0
    <3>4. QueuedReply = ReplyLen(c)
      BY <1>0, <3>1, <3>3 DEF QueuedReply
    <3>5. 2 * (Len(reqs) - 1) = 0 /\ RequestLen(c) \in Nat /\ ReplyLen(c) \in Nat
      BY <2>3, CallFacts
    <3>6. QueuedUnits = RequestLen(c)
      BY <1>0, <3>1, <3>3, <3>5 DEF QueuedUnits
    <3>7. PICK h, l, j, o \in Int : h = hdr' /\ l = left' /\ j = JobReply' /\ o = out'
      BY <1>1, <2>0, Amounts
    <3>8. h + l + 1 = RequestLen(c) /\ j + o = ReplyLen(c)
      BY <2>1, <2>2, <3>3, <3>7
    <3>9. h + l + 0 + 1 = RequestLen(c) /\ j + o + 0 = ReplyLen(c)
      BY <3>8, <3>7
    <3>a. hdr' + left' + QueuedUnits' + 1 = QueuedUnits
      BY <3>2, <3>6, <3>7, <3>9
    <3>b. JobReply' + out' + QueuedReply' = QueuedReply
      BY <3>2, <3>4, <3>7, <3>9
    <3> QED BY <2>0, <3>a, <3>b
  <2>4. CASE Len(reqs) > 1
    <3>1. Head(reqs) = EmptyHex
      BY <1>0, <2>4 DEF IInv, CallsInFlight
    <3>2. reqs' # <<>> /\ Len(reqs') = Len(reqs) - 1 /\ reqs'[Len(reqs')] = reqs[Len(reqs)]
      BY <1>0, <2>4 DEF ServerReadCmd
    <3>3. reqs[Len(reqs)] \in Calls
      BY <1>0
    <3>4. QueuedReply' = QueuedReply /\ JobReply' + out' = 0
      BY <1>0, <2>1, <3>1, <3>2, EmptyHexFacts DEF QueuedReply
    <3>5. QueuedUnits = 2 * (Len(reqs) - 1) + RequestLen(reqs[Len(reqs)])
      BY <1>0 DEF QueuedUnits
    <3>6. QueuedUnits' = 2 * (Len(reqs) - 2) + RequestLen(reqs[Len(reqs)])
      BY <1>0, <3>2 DEF QueuedUnits
    <3>7. hdr' + left' + 1 = 2
      BY <2>2, <3>1, EmptyHexFacts
    <3>a. RequestLen(reqs[Len(reqs)]) \in Nat /\ Len(reqs) \in Nat
      BY <1>b, <3>3, CallFacts
    <3>b. QueuedUnits \in Nat
      BY Measures DEF IInv
    <3>n. PICK a, b, d, e, f, g \in Int :
           /\ hdr' = a /\ left' = b /\ QueuedUnits' = d /\ QueuedUnits = e /\ Len(reqs) = f
           /\ RequestLen(reqs[Len(reqs)]) = g
      <4>1. hdr' \in Int /\ left' \in Int
        BY <1>1, Amounts
      <4>3. QueuedUnits' \in Int /\ QueuedUnits \in Int
        BY <2>0, <3>b
      <4>2. Len(reqs) \in Int /\ RequestLen(reqs[Len(reqs)]) \in Int
        BY <3>a
      <4> QED BY <4>1, <4>2, <4>3
    <3>8. hdr' + left' + QueuedUnits' + 1 = QueuedUnits
      BY <3>5, <3>6, <3>7, <3>n
    <3>9. QueuedReply \in Nat
      BY Measures DEF IInv
    <3>m. PICK a1, b1, d1, e1 \in Int :
           /\ JobReply' = a1 /\ out' = b1 /\ QueuedReply' = d1 /\ QueuedReply = e1
      BY <1>1, <2>0, <3>9 DEF TypeOK
    <3> QED BY <2>0, <3>4, <3>8, <3>m
  <2> QED BY <1>0, <2>0, <2>3, <2>4
<1>3. Framed'
  <2>1. CASE cpc = "closed"
    BY <2>1 DEF Framed, ServerReadCmd
  <2>2. CASE cpc # "closed"
    <3>1. /\ toWrite + cw + c2s + sr = hdr + left + QueuedUnits
          /\ toRead = cr + s2c + sw + out + JobReply + QueuedReply
          /\ cpc = "idle" => toRead = 0 /\ toWrite + cw = 0
      BY <2>2 DEF IInv, Framed
    <3>2. sr' = sr - 1 /\ QueuedUnits \in Nat /\ QueuedReply \in Nat
      BY Measures DEF IInv, ServerReadCmd
    <3>3. UNCHANGED <<cpc, toWrite, cw, c2s, toRead, cr, s2c, sw>>
      BY <2>2 DEF ServerReadCmd
    <3>4. PICK a, b, d, e, f, g, h, i, j, k, l \in Int :
           /\ toWrite = a /\ cw = b /\ c2s = d /\ sr = e /\ hdr = f
           /\ left = g /\ QueuedUnits = h /\ sr' = i /\ hdr' = j /\ left' = k
           /\ QueuedUnits' = l
      BY <1>0, <1>1, <1>2, <3>2, Measures DEF IInv, TypeOK
    <3>5. toWrite' + cw' + c2s' + sr' = hdr' + left' + QueuedUnits'
      BY <1>d, <1>e, <1>2, <3>1, <3>2, <3>3, <3>4
    <3>6. PICK a1, b1, d1, e1, f1, g1, h1, i1, j1, k1, l1, m1 \in Int :
           /\ toRead = a1 /\ cr = b1 /\ s2c = d1 /\ sw = e1 /\ out = f1
           /\ JobReply = g1 /\ QueuedReply = h1 /\ s2c' = i1 /\ sw' = j1 /\ out' = k1
           /\ JobReply' = l1 /\ QueuedReply' = m1
      BY <1>0, <1>1, <1>2, <3>2, Measures DEF IInv, TypeOK
    <3>7. toRead' = cr' + s2c' + sw' + out' + JobReply' + QueuedReply'
      BY <1>d, <1>e, <1>2, <3>1, <3>2, <3>3, <3>6
    <3> QED BY <3>1, <3>3, <3>5, <3>7 DEF Framed
  <2> QED BY <2>1, <2>2
<1>4. CleanClose'
    BY DEF IInv, CleanClose, ServerAt, ServerReadCmd
<1>5. QuietClose'
  <2>1. CASE cpc = "closed" /\ ~midcall
    <3>1. Head(reqs) = EmptyHex /\ (reqs' # <<>> => call = EmptyHex)
      BY <1>0, <2>1 DEF IInv, CallsInFlight, QuietClose, ServerReadCmd
    <3>2. QueuedUnits \in Nat
      BY Measures DEF IInv
    <3>3. c2s + sr = QueuedUnits /\ sw = 0 /\ ~rst
      BY <1>0, <2>1, <3>2 DEF IInv, TypeOK, QuietClose, ServerReadCmd
    <3>4. job' = EmptyHex /\ out' = 0 /\ sr' = sr - 1
      BY <1>0, <3>1 DEF ServerReadCmd
    <3>n. PICK a, b, d, e, f, g, h \in Int :
           /\ c2s = a /\ sr = b /\ sr' = d /\ hdr' = e /\ left' = f
           /\ QueuedUnits = g /\ QueuedUnits' = h
      <4>1. /\ c2s \in Int /\ sr \in Int /\ sr' \in Int /\ hdr' \in Int
            /\ left' \in Int
        BY <1>1, Amounts DEF IInv
      <4> QED BY <1>2, <3>2, <4>1
    <3>a. c2s' = c2s /\ hdr' + left' + QueuedUnits' + 1 = QueuedUnits
      BY <1>2 DEF ServerReadCmd
    <3>5. c2s' + sr' = hdr' + left' + QueuedUnits'
      BY <3>3, <3>4, <3>a, <3>n
    <3> QED BY <2>1, <3>1, <3>3, <3>4, <3>5 DEF IInv, QuietClose, ServerReadCmd
  <2>2. CASE ~(cpc = "closed" /\ ~midcall)
    BY <2>2 DEF IInv, QuietClose, ServerReadCmd
  <2> QED BY <2>1, <2>2
<1>6. CallsInFlight'
  <2>1. \A i \in 1..(Len(reqs') - 1) : reqs'[i] = EmptyHex
    BY <1>0 DEF IInv, CallsInFlight, ServerReadCmd
  <2>2. reqs' # <<>> => reqs'[Len(reqs')] = call'
    BY <1>0 DEF IInv, CallsInFlight, ServerReadCmd
  <2>3. job' = IF reqs' = <<>> THEN call' ELSE EmptyHex
    BY <1>0 DEF IInv, CallsInFlight, ServerReadCmd
  <2> QED BY <2>1, <2>2, <2>3 DEF CallsInFlight
<1>7. ClientAt'
    BY DEF IInv, ClientAt, TypeOK, ServerReadCmd
<1>8. ServerAt'
    BY <1>0, CallFacts DEF IInv, ServerAt, HeaderInts, ServerReadCmd
<1>9. FullWhenDraining'
    BY BuffersAssumption DEF IInv, FullWhenDraining, TypeOK, ServerReadCmd
<1>10. ArrivedIsOwed'
  <2>1. QueuedUnits \in Nat
    BY Measures DEF IInv
  <2>n. PICK a, b, d, e, f, g, h, i, j \in Int :
         /\ c2s = a /\ sr = b /\ hdr = d /\ left = e /\ QueuedUnits = f
         /\ sr' = g /\ hdr' = h /\ left' = i /\ QueuedUnits' = j
    <3>1. c2s \in Int /\ sr \in Int /\ hdr \in Int /\ left \in Int
      BY Amounts DEF IInv
    <3>2. sr' \in Int /\ hdr' \in Int /\ left' \in Int
      BY <1>1, Amounts
    <3>3. QueuedUnits \in Int /\ QueuedUnits' \in Int
      BY <1>2, <2>1
    <3> QED BY <3>1, <3>2, <3>3
  <2>2. c2s' = c2s /\ sr' = sr - 1 /\ hdr = 0 /\ left = 0
    BY <1>d DEF ServerReadCmd
  <2> QED BY <1>2, <2>2, <2>n DEF IInv, ArrivedIsOwed, ServerReadCmd
<1> QED BY <1>1, <1>3, <1>4, <1>5, <1>6, <1>7, <1>8, <1>9, <1>10 DEF IInv

-----------------------------------------------------------------------------
(* The theorems. *)

(* A fresh connection is empty and idle on both sides. *)
LEMMA InitIInv == Init => IInv
<1> SUFFICES ASSUME Init PROVE IInv
    OBVIOUS
<1>1. QueuedUnits = 0 /\ QueuedReply = 0 /\ JobReply = 0 /\ call \in Calls /\ reqs = <<>>
    BY DEF Init, QueuedUnits, QueuedReply, JobReply
<1>2. TypeOK
  <2>1. reqs \in Seq(Calls) /\ call \in Calls
    BY <1>1, EmptySeq
  <2>2. {cctx, sctx, rst, midcall} \subseteq BOOLEAN /\ job \in Calls \cup {NoCall}
    BY DEF Init
  <2> QED BY <2>1, <2>2, BuffersAssumption DEF Init, TypeOK
<1>3. Framed /\ ArrivedIsOwed
    BY <1>1 DEF Init, Framed, ArrivedIsOwed
<1>4. CleanClose /\ ClientAt /\ ServerAt /\ FullWhenDraining /\ QuietClose
    BY DEF Init, CleanClose, ClientAt, ServerAt, FullWhenDraining, QuietClose
<1>5. CallsInFlight
    BY <1>1 DEF Init, CallsInFlight
<1> QED BY <1>2, <1>3, <1>4, <1>5 DEF IInv

(* A stutter preserves the invariant. *)
LEMMA StutterIInv == ASSUME IInv, UNCHANGED vars PROVE IInv'
<1>1. UNCHANGED <<QueuedUnits, QueuedReply, JobReply>>
    BY MeasuresKept DEF vars
<1>2. TypeOK' /\ Framed' /\ CleanClose'
    BY <1>1 DEF IInv, TypeOK, Framed, CleanClose, vars
<1>3. CallsInFlight' /\ ClientAt' /\ ServerAt'
    BY DEF IInv, CallsInFlight, ClientAt, ServerAt, vars
<1>4. FullWhenDraining' /\ ArrivedIsOwed' /\ QuietClose'
    BY <1>1 DEF IInv, FullWhenDraining, ArrivedIsOwed, QuietClose, vars
<1> QED BY <1>2, <1>3, <1>4 DEF IInv

(* Every step preserves the invariant. *)
LEMMA StepIInv == IInv /\ [Next]_vars => IInv'
<1> SUFFICES ASSUME IInv, [Next]_vars PROVE IInv'
    OBVIOUS
<1>1. ASSUME NEW c \in Calls, StartCall(c) PROVE IInv'
    BY <1>1, StartCallPreserves
<1>2. CASE ClientStep
    BY <1>2, ClientFillPreserves, ClientFlushPreserves, ClientRecvPreserves,
       ClientTakePreserves DEF ClientStep
<1>3. CASE ClientClose
    BY <1>3, ClientClosePreserves
<1>4. CASE HarnessCancel \/ PropagateCancel \/ SiblingFails
    BY <1>4, HarnessCancelPreserves, PropagateCancelPreserves, SiblingFailsPreserves
<1>5. CASE ServerStep
    BY <1>5, ServerTopPreserves, ServerFillPreserves, ServerReadCmdPreserves,
       ServerReadIntPreserves, ServerReadValPreserves, ServerReadHexPreserves,
       ServerPutPreserves, ServerPushPreserves, ServerFlushedPreserves,
       ServerEOFPreserves, ServerResetPreserves DEF ServerStep
<1>6. CASE UNCHANGED vars
    BY <1>6, StutterIInv
<1> QED BY <1>1, <1>2, <1>3, <1>4, <1>5, <1>6 DEF Next

(* The inductive invariant holds for every payload and buffer size. *)
THEOREM Invariance == Spec => []IInv
BY InitIInv, StepIInv, PTL DEF Spec

(* The variables keep their types; in particular the server's hex loop never
   reads past its payload (runConn's size -= n) and no buffer overflows. *)
THEOREM TypeCorrect == Spec => []TypeOK
<1>1. IInv => TypeOK
    BY DEF IInv
<1> QED BY <1>1, Invariance, PTL

(* No unit of one call is ever left on the connection for another to take. *)
THEOREM Framing == Spec => []Framed
<1>1. IInv => Framed
    BY DEF IInv
<1> QED BY <1>1, Invariance, PTL

(* runConn fails only when the client left inside a stub, and abandons a client
   only because its context ended. *)
THEOREM CleanClosing == Spec => []CleanClose
<1>1. IInv => CleanClose
    BY DEF IInv
<1> QED BY <1>1, Invariance, PTL

(* A full writer, full sockets both ways and a request that is still arriving
   add up to a tree above TreeCapacity. *)
LEMMA StuckIsLarge == IInv => StuckOnlyOverCapacity
<1> SUFFICES ASSUME IInv, WriteStuck
             PROVE  call.cmd = "tree" /\ call.n > TreeCapacity
    BY DEF StuckOnlyOverCapacity
<1>1. job \notin {NoCall, EmptyHex} /\ job \in Calls /\ hdr = 0 /\ out > 0
    BY DEF IInv, ServerAt, TypeOK, WriteStuck
<1>2. job = call /\ QueuedUnits = 0 /\ QueuedReply = 0
    BY <1>1, JobOwnsStream DEF IInv
<1>3. /\ toWrite + cw + c2s + sr = left
      /\ ReplyLen(call) = s2c + sw + out + JobReply
      /\ cw > 0 /\ c2s = NetBuf /\ sw + s2c >= ServerWBuf
  <2>1. toWrite + cw + c2s + sr = hdr + left + QueuedUnits
    BY DEF IInv, Framed, WriteStuck
  <2>2. toRead = cr + s2c + sw + out + JobReply + QueuedReply
    BY DEF IInv, Framed, WriteStuck
  <2>3. toRead = ReplyLen(call) /\ cr = 0 /\ cw > 0
    BY DEF IInv, ClientAt, WriteStuck
  <2>4. c2s = NetBuf /\ sw + s2c >= ServerWBuf
    BY DEF IInv, FullWhenDraining, WriteStuck
  <2>5. hdr \in Int /\ left \in Int /\ s2c \in Int /\ sw \in Int /\ out \in Int
    BY DEF IInv, TypeOK
  <2>6. JobReply \in Int
    BY Measures DEF IInv
  <2>7. left = hdr + left + QueuedUnits
    BY <1>1, <1>2, <2>5
  <2>8. s2c + sw + out + JobReply = cr + s2c + sw + out + JobReply + QueuedReply
    BY <1>2, <2>3, <2>5, <2>6
  <2> QED BY <2>1, <2>2, <2>3, <2>4, <2>7, <2>8
<1>4. PICK a, b, d, e, f, g, h, i, k, m \in Int :
         /\ toWrite = a /\ cw = b /\ c2s = d /\ sr = e /\ left = f
         /\ s2c = g /\ sw = h /\ out = i /\ NetBuf = k /\ ServerWBuf = m
    BY BuffersAssumption DEF IInv, TypeOK
<1>5. toWrite >= 0 /\ sr >= 0 /\ NetBuf > 0
    BY BuffersAssumption DEF IInv, TypeOK
<1>6. left > NetBuf /\ left > 0
    BY <1>3, <1>4, <1>5
<1>7. job.cmd \in {"tree", "hex"}
    BY <1>6 DEF IInv, ServerAt, WriteStuck
<1>8. CASE job.cmd = "tree"
  <2>1. JobReply = left /\ ReplyLen(call) = call.n /\ call.n \in Int
    BY <1>1, <1>2, <1>8, CallFacts DEF JobReply, ReplyLen
  <2>2. PICK n \in Int : call.n = n
    BY <2>1
  <2>3. call.n = s2c + sw + out + left
    BY <1>3, <2>1
  <2>4. call.n > ServerWBuf + NetBuf + 1
    BY <1>1, <1>3, <1>4, <1>6, <2>2, <2>3
  <2> QED BY <1>2, <1>8, <2>4 DEF TreeCapacity
<1>9. CASE job.cmd = "hex"
  <2>1. JobReply = 2 * left /\ ReplyLen(call) = 2 * call.n /\ call.n \in Int
    BY <1>1, <1>2, <1>9, CallFacts DEF JobReply, ReplyLen
  <2>2. PICK n, w \in Int : call.n = n /\ HexBuf = w
    BY <2>1, BuffersAssumption
  <2>3. 2 * call.n = s2c + sw + out + 2 * left
    BY <1>3, <2>1
  <2>4. call.n < HexBuf /\ ServerWBuf >= 2 * HexBuf
    BY <1>2, <1>9, BuffersAssumption DEF IInv, ServerAt, WriteStuck
  <2> QED BY <1>1, <1>3, <1>4, <1>6, <2>2, <2>3, <2>4
<1> QED BY <1>7, <1>8, <1>9

(* The two ends block each other only over a tree larger than the server's
   bufio.Writer and the socket buffers of one direction together. *)
THEOREM NeverStuckBelowCapacity == Spec => []StuckOnlyOverCapacity
BY StuckIsLarge, Invariance, PTL

-----------------------------------------------------------------------------
(* Refinement. *)

(* A fresh connection maps to an empty queue. *)
LEMMA InitRefines == Init => Queue!Init
BY DEF Init, Queue!Init, Todo, Client, InStub

(* A new call goes to the end of the queue. *)
LEMMA StartCallRefines ==
    ASSUME IInv, NEW c \in Calls, StartCall(c)
    PROVE  Queue!Issue(c)
<1>1. Todo' = Append(Todo, c)
  <2>1. reqs \in Seq(Calls) /\ reqs' = Append(reqs, c) /\ job' = job
    BY DEF IInv, TypeOK, StartCall
  <2>2. CASE job = NoCall
    BY <2>1, <2>2 DEF Todo
  <2>3. CASE job # NoCall
    <3>1. job \in Calls
      BY <2>3 DEF IInv, TypeOK
    <3> HIDE DEF Calls
    <3> QED BY <2>1, <2>3, <3>1 DEF Todo
  <2> QED BY <2>2, <2>3
<1>2. Client = "idle" /\ Client' = "waiting" /\ call' = c
    BY DEF Client, InStub, StartCall
<1> QED BY <1>1, <1>2 DEF Queue!Issue

(* IdleOwesNothing as a state formula, to be used of the next state. *)
LEMMA IdleQuiet == IInv /\ cpc = "idle" => IdleIsQuiet
BY IdleOwesNothing DEF IdleIsQuiet

(* A stub that has consumed its reply returns: nothing is queued behind it, or
   its call has no reply. *)
LEMMA ReturnRefines ==
    ASSUME IInv, IInv', InStub, cpc' = "idle", UNCHANGED <<call, reqs, job>>
    PROVE  Queue!Return
<1>1. Todo = <<>> \/ call = EmptyHex
  <2>1. (IInv /\ cpc = "idle" => IdleIsQuiet)'
    BY IdleQuiet, PTL
  <2>2. IInv' /\ cpc' = "idle" => IdleIsQuiet'
    BY <2>1
  <2>3. /\ reqs # <<>> => call = EmptyHex
        /\ job \in {NoCall, EmptyHex}
    BY <2>2 DEF IdleIsQuiet
  <2>4. reqs = <<>> /\ job # NoCall => call = EmptyHex
    BY <2>3 DEF IInv, CallsInFlight
  <2>5. reqs = <<>> /\ job = NoCall => Todo = <<>>
    BY DEF Todo
  <2> QED BY <2>3, <2>4, <2>5
<1>2. UNCHANGED <<Todo, call>> /\ Client = "waiting" /\ Client' = "idle"
    BY DEF Todo, Client, InStub
<1> QED BY <1>1, <1>2 DEF Queue!Return

(* Every step of the connection is a step of the queue or leaves it alone. *)
LEMMA StepRefines == IInv /\ [Next]_vars => [Queue!Next]_(Queue!vars)
<1> SUFFICES ASSUME IInv, [Next]_vars
             PROVE  Queue!Next \/ UNCHANGED <<Todo, Client, call>>
    BY DEF Queue!vars
<1>0. IInv'
    BY StepIInv
<1>a. ASSUME UNCHANGED <<reqs, job, call>>, InStub' = InStub, InStub \/ cpc' = cpc
      PROVE  UNCHANGED <<Todo, Client, call>>
    BY <1>a DEF Todo, Client
<1>1. ASSUME NEW c \in Calls, StartCall(c) PROVE Queue!Next
    BY <1>1, StartCallRefines DEF Queue!Next
<1>2. CASE ClientStep
  <2>1. InStub /\ UNCHANGED <<call, reqs, job>>
    BY <1>2 DEF ClientStep, ClientFill, ClientFlush, ClientRecv, ClientTake, InStub
  <2>2. CASE cpc' = "idle"
    BY <1>0, <2>1, <2>2, ReturnRefines DEF Queue!Next
  <2>3. CASE cpc' # "idle"
    <3>1. cpc' \in {"fill", "flush", "read"}
      BY <1>2, <2>3 DEF IInv, TypeOK, ClientStep, ClientFill, ClientFlush,
         ClientRecv, ClientTake
    <3> QED BY <2>1, <3>1, <1>a DEF InStub
  <2> QED BY <2>2, <2>3
<1>3. CASE ClientClose
  <2>1. Client # "closed" /\ Client' = "closed" /\ UNCHANGED <<Todo, call>>
    BY <1>3 DEF IInv, TypeOK, Client, InStub, Todo, ClientClose
  <2> QED BY <2>1 DEF Queue!Next, Queue!Close
<1>4. CASE HarnessCancel \/ PropagateCancel \/ SiblingFails
    BY <1>4, <1>a DEF HarnessCancel, PropagateCancel, SiblingFails, InStub
<1>5. CASE ServerStep
  <2>1. UNCHANGED <<cpc, call>> /\ InStub' = InStub
    BY <1>5 DEF ServerStep, ServerTop, ServerFill, ServerReadCmd, ServerReadInt,
       ServerReadVal, ServerReadHex, ServerPut, ServerPush, ServerFlushed, ServerEOF,
       ServerReset, InStub
  <2>2. UNCHANGED Client
    BY <2>1 DEF Client
  <2>3. CASE ServerReadCmd
    <3>1. job = NoCall
      BY <2>3 DEF IInv, ServerAt, ServerReadCmd
    <3>2. /\ reqs \in Seq(Calls) /\ reqs # <<>> /\ Head(reqs) # NoCall
          /\ job' = Head(reqs) /\ reqs' = Tail(reqs)
      BY <2>3, CallFacts DEF IInv, TypeOK, ServerReadCmd
    <3>3. Todo = reqs /\ Todo' = <<Head(reqs)>> \o Tail(reqs)
      BY <3>1, <3>2 DEF Todo
    <3> QED BY <2>1, <2>2, <3>2, <3>3
  <2>4. CASE UNCHANGED <<reqs, job>>
    BY <2>1, <2>2, <2>4 DEF Todo
  <2>5. CASE reqs' = reqs /\ job' = NoCall /\ job # NoCall
    <3>1. reqs \in Seq(Calls) /\ Todo = <<job>> \o reqs /\ Todo' = <<>> \o reqs
      BY <2>5 DEF IInv, TypeOK, Todo
    <3>2. Todo # <<>> /\ Todo' = Tail(Todo)
      BY <3>1
    <3> QED BY <2>1, <2>2, <3>2 DEF Queue!Next, Queue!Execute
  <2>6. \/ ServerReadCmd
        \/ UNCHANGED <<reqs, job>>
        \/ reqs' = reqs /\ job' = NoCall /\ job # NoCall
    BY <1>5 DEF IInv, ServerAt, ServerStep, ServerTop, ServerFill, ServerReadInt,
       ServerReadVal, ServerReadHex, ServerPut, ServerPush, ServerFlushed, ServerEOF,
       ServerReset, Continue
  <2> QED BY <2>3, <2>4, <2>5, <2>6
<1>6. CASE UNCHANGED vars
    BY <1>6, <1>a DEF vars, InStub
<1> QED BY <1>1, <1>2, <1>3, <1>4, <1>5, <1>6 DEF Next

(* The connection implements the queue: calls are executed once and in order,
   and a stub returns after its call was executed. *)
THEOREM Refinement == Spec => RefinesRpcQueue
BY InitRefines, StepRefines, Invariance, PTL DEF Spec, RefinesRpcQueue, Queue!Spec

==============================================================================
