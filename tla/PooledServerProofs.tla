------------------------- MODULE PooledServerProofs -------------------------
(***************************************************************************)
(* What the lifecycle of the pool-based servers promises for every number  *)
(* of clients: Run leaves nothing behind, reports faults and only faults,  *)
(* and keeps the safety part of the promise of Server.Run; and while the   *)
(* benchmark runs only a fault can leave a client without a server.        *)
(***************************************************************************)
EXTENDS PooledServer, TLAPS

-----------------------------------------------------------------------------
(* The inductive invariant. *)

(* Which states a connection of each kind of server goes through. *)
Shapes ==
    /\ ~HasVat => vat = "done"
    /\ \A i \in Clients :
        /\ HasVat => conn[i] \in {"none", "backlog", "serving", "gone"}
        /\ kind = "gocapnp" => conn[i] \in {"none", "backlog", "serving", "failed", "gone"}

(* What has ended by the time a goroutine has ended. *)
Ends ==
    /\ acc \in {"failed", "done"} => \A i \in Clients : NoTask(i)
    /\ closer = "done" <=> lopen = FALSE
    /\ closer = "done" => gctx = TRUE /\ \A i \in Clients : conn[i] # "backlog"
    /\ vat = "failed" => gctx = TRUE
    /\ run # "running" => closer = "done" /\ acc = "done" /\ vat = "done"
    /\ \A i \in Clients : ClientGone(i) => cctx = TRUE

(* Where the error a pool has recorded comes from. *)
Errors ==
    /\ accErr = TRUE => acc # "accept"
    /\ ~HasVat /\ acc \in {"accept", "join"} => gerr = "none"
    /\ ~HasVat /\ acc \in {"failed", "done"} => gerr = JoinResult
    /\ gerr = "err" => accErr = TRUE \/ perr = "err"
    /\ run # "running" => (run = "err" <=> gerr = "err")
    /\ FaultsAreReal

(* While the benchmark runs every cancellation was set off by an error. *)
Quiet ==
    cctx = FALSE =>
        /\ gerr # "canceled" /\ perr # "canceled"
        /\ gctx = TRUE => gerr = "err" /\ acc = "done"
        /\ pctx = TRUE => perr = "err" \/ acc \in {"failed", "done"}
        /\ acc = "failed" => gerr = "err"
        /\ acc # "accept" /\ lopen = TRUE => accErr = TRUE
        /\ \A i \in Clients :
            /\ conn[i] = "failed" => perr = "err"
            /\ conn[i] \in {"failed", "gone"} /\ link[i] = "open" =>
                  kind = "tcp" /\ perr = "err"

IInv == TypeOK /\ Shapes /\ Ends /\ Errors /\ Quiet

-----------------------------------------------------------------------------
LEMMA InitSatisfies == Init => IInv
<1> SUFFICES ASSUME Init PROVE IInv
    OBVIOUS
<1>1. TypeOK
    BY DEF Init, TypeOK, HasVat, Kinds
<1>2. Shapes
    BY DEF Init, Shapes
<1>3. Ends
    BY DEF Init, Ends, ClientGone, NoTask
<1>4. Errors
    BY DEF Init, Errors, FaultsAreReal
<1>5. Quiet
    BY DEF Init, Quiet
<1> QED BY <1>1, <1>2, <1>3, <1>4, <1>5 DEF IInv

LEMMA TypeStep ==
    ASSUME TypeOK, [Next]_vars
    PROVE  TypeOK'
<1> USE DEF TypeOK, poolVars, taskVars, connVars
<1>1. CASE HarnessCancel \/ PropagateToG \/ PropagateToConnPool
    BY <1>1 DEF HarnessCancel, PropagateToG, PropagateToConnPool
<1>2. CASE CloseListener
    BY <1>2 DEF CloseListener
<1>3. CASE AcceptEnds \/ AcceptorCancels \/ VatCancels \/ RunReturns
    BY <1>3 DEF AcceptEnds, AcceptorCancels, VatCancels, RunReturns
<1>4. CASE Join
    BY <1>4 DEF Join, JoinResult, Record
<1>5. CASE VatEnds
    BY <1>5 DEF VatEnds, Record
<1>6. ASSUME NEW i \in Clients, Dial(i) \/ DialFails(i) \/ StartCall(i) PROVE TypeOK'
  <2>1. CASE Dial(i)
    BY <2>1 DEF Dial
  <2>2. CASE DialFails(i)
    BY <2>2 DEF DialFails
  <2>3. CASE StartCall(i)
    BY <2>3 DEF StartCall
  <2> QED BY <1>6, <2>1, <2>2, <2>3
<1>7. ASSUME NEW i \in Clients, CallFails(i) \/ ClientClose(i) \/ Break(i) PROVE TypeOK'
  <2>1. CASE CallFails(i)
    BY <2>1 DEF CallFails
  <2>2. CASE ClientClose(i)
    BY <2>2 DEF ClientClose
  <2>3. CASE Break(i)
    BY <2>3 DEF Break
  <2> QED BY <1>7, <2>1, <2>2, <2>3
<1>8. ASSUME NEW i \in Clients, Accept(i) \/ ConnCancels(i) \/ ConnRead(i) PROVE TypeOK'
  <2>1. CASE Accept(i)
    BY <2>1 DEF Accept
  <2>2. CASE ConnCancels(i)
    BY <2>2 DEF ConnCancels
  <2>3. CASE ConnRead(i)
    BY <2>3 DEF ConnRead
  <2> QED BY <1>8, <2>1, <2>2, <2>3
<1>9. ASSUME NEW i \in Clients, ConnTop(i) \/ ConnError(i) PROVE TypeOK'
    BY <1>9 DEF ConnTop, ConnError, ConnFails, Record
<1>10. ASSUME NEW i \in Clients, ConnEOF(i) \/ CapPeerGone(i) PROVE TypeOK'
    BY <1>10 DEF ConnEOF, CapPeerGone, Leave
<1>11. ASSUME NEW i \in Clients, ConnReply(i) \/ CapServe(i) PROVE TypeOK'
  <2>1. CASE ConnReply(i)
    BY <2>1 DEF ConnReply
  <2>2. CASE CapServe(i)
    BY <2>2 DEF CapServe
  <2> QED BY <1>11, <2>1, <2>2
<1>12. ASSUME NEW i \in Clients, CapClose(i) PROVE TypeOK'
    BY <1>12 DEF CapClose, Leave, ConnFails, Record
<1>13. CASE UNCHANGED vars
    BY <1>13 DEF vars
<1> QED BY <1>1, <1>2, <1>3, <1>4, <1>5, <1>6, <1>7, <1>8, <1>9, <1>10, <1>11, <1>12, <1>13
        DEF Next, ConnStep

LEMMA ShapesStep ==
    ASSUME IInv, [Next]_vars
    PROVE  Shapes'
<1> USE DEF IInv, TypeOK, Shapes, HasVat, Kinds, poolVars, taskVars, connVars
<1>1. CASE UNCHANGED <<kind, conn>> /\ (vat' = vat \/ HasVat)
    BY <1>1
<1>2. CASE HarnessCancel \/ PropagateToG \/ PropagateToConnPool
    BY <1>2, <1>1 DEF HarnessCancel, PropagateToG, PropagateToConnPool
<1>3. CASE AcceptEnds \/ AcceptorCancels \/ VatCancels \/ RunReturns \/ Join
    BY <1>3, <1>1 DEF AcceptEnds, AcceptorCancels, VatCancels, RunReturns, Join
<1>4. CASE CloseListener \/ VatEnds
    BY <1>4 DEF CloseListener, VatEnds
<1>5. ASSUME NEW i \in Clients, DialFails(i) \/ StartCall(i) \/ CallFails(i) \/ ClientClose(i)
                                \/ Break(i) \/ CapServe(i)
      PROVE  Shapes'
    BY <1>5, <1>1 DEF DialFails, StartCall, CallFails, ClientClose, Break, CapServe
<1>6. ASSUME NEW i \in Clients, Dial(i) \/ Accept(i) PROVE Shapes'
    BY <1>6 DEF Dial, Accept
<1>7. ASSUME NEW i \in Clients, ConnCancels(i) \/ ConnRead(i) \/ ConnTop(i) \/ ConnError(i)
                                \/ ConnReply(i)
      PROVE  Shapes'
    BY <1>7 DEF ConnCancels, ConnRead, ConnTop, ConnError, ConnReply, ConnFails
<1>8. ASSUME NEW i \in Clients, ConnEOF(i) \/ CapPeerGone(i) \/ CapClose(i) PROVE Shapes'
    BY <1>8 DEF ConnEOF, CapPeerGone, CapClose, Leave, ConnFails
<1>9. CASE UNCHANGED vars
    BY <1>9, <1>1 DEF vars
<1> QED BY <1>2, <1>3, <1>4, <1>5, <1>6, <1>7, <1>8, <1>9 DEF Next, ConnStep

LEMMA EndsStep ==
    ASSUME IInv, [Next]_vars
    PROVE  Ends'
<1> USE DEF IInv, TypeOK, Shapes, Ends, NoTask, ClientGone, HasVat, Kinds,
            poolVars, taskVars, connVars
<1>1. CASE HarnessCancel \/ PropagateToG \/ PropagateToConnPool
    BY <1>1 DEF HarnessCancel, PropagateToG, PropagateToConnPool
<1>2. CASE CloseListener
    BY <1>2 DEF CloseListener
<1>3. CASE AcceptEnds \/ AcceptorCancels \/ VatCancels \/ RunReturns
    BY <1>3 DEF AcceptEnds, AcceptorCancels, VatCancels, RunReturns
<1>4. CASE Join
    BY <1>4 DEF Join
<1>5. CASE VatEnds
    BY <1>5 DEF VatEnds
<1>6. ASSUME NEW i \in Clients, Dial(i) PROVE Ends'
    BY <1>6 DEF Dial
<1>7. ASSUME NEW i \in Clients, DialFails(i) \/ StartCall(i) \/ CallFails(i) \/ ClientClose(i)
                                \/ Break(i)
      PROVE  Ends'
    BY <1>7 DEF DialFails, StartCall, CallFails, ClientClose, Break
<1>8. ASSUME NEW i \in Clients, Accept(i) PROVE Ends'
    BY <1>8 DEF Accept
<1>9. ASSUME NEW i \in Clients, ConnCancels(i) \/ ConnRead(i) \/ ConnTop(i) \/ ConnError(i)
      PROVE  Ends'
    BY <1>9 DEF ConnCancels, ConnRead, ConnTop, ConnError, ConnFails
<1>10. ASSUME NEW i \in Clients, ConnEOF(i) \/ CapPeerGone(i) \/ CapClose(i) PROVE Ends'
    BY <1>10 DEF ConnEOF, CapPeerGone, CapClose, Leave, ConnFails
<1>11. ASSUME NEW i \in Clients, ConnReply(i) \/ CapServe(i) PROVE Ends'
    BY <1>11 DEF ConnReply, CapServe, Waiting
<1>12. CASE UNCHANGED vars
    BY <1>12 DEF vars
<1> QED BY <1>1, <1>2, <1>3, <1>4, <1>5, <1>6, <1>7, <1>8, <1>9, <1>10, <1>11, <1>12
        DEF Next, ConnStep

-----------------------------------------------------------------------------
(* A fault that was seen stays: a broken connection stays broken and a client *)
(* that left stays away.                                                   *)
LEMMA FaultsStay ==
    ASSUME IInv, [Next]_vars, NEW i \in Clients
    PROVE  /\ link[i] = "broken" => link'[i] = "broken"
           /\ cli[i] = "aborted" => cli'[i] = "aborted"
<1> USE DEF IInv, TypeOK, poolVars, taskVars, connVars
<1>1. CASE UNCHANGED <<link, cli>>
    BY <1>1
<1>2. CASE HarnessCancel \/ PropagateToG \/ PropagateToConnPool
    BY <1>2, <1>1 DEF HarnessCancel, PropagateToG, PropagateToConnPool
<1>3. CASE AcceptEnds \/ AcceptorCancels \/ VatCancels \/ RunReturns \/ Join
    BY <1>3, <1>1 DEF AcceptEnds, AcceptorCancels, VatCancels, RunReturns, Join
<1>4. CASE CloseListener \/ VatEnds
    BY <1>4 DEF CloseListener, VatEnds
<1>5. ASSUME NEW j \in Clients, Dial(j) \/ DialFails(j) \/ StartCall(j) \/ CallFails(j)
                                \/ ClientClose(j) \/ Break(j)
      PROVE  /\ link[i] = "broken" => link'[i] = "broken"
             /\ cli[i] = "aborted" => cli'[i] = "aborted"
    BY <1>5 DEF Dial, DialFails, StartCall, CallFails, ClientClose, Break
<1>6. ASSUME NEW j \in Clients, ConnReply(j) \/ CapServe(j)
      PROVE  /\ link[i] = "broken" => link'[i] = "broken"
             /\ cli[i] = "aborted" => cli'[i] = "aborted"
    BY <1>6 DEF ConnReply, CapServe, Waiting
<1>7. ASSUME NEW j \in Clients, Accept(j) \/ ConnCancels(j) \/ ConnRead(j) \/ ConnTop(j)
                                \/ ConnError(j)
      PROVE  UNCHANGED <<link, cli>>
    BY <1>7 DEF Accept, ConnCancels, ConnRead, ConnTop, ConnError
<1>8. ASSUME NEW j \in Clients, ConnEOF(j) \/ CapPeerGone(j) \/ CapClose(j)
      PROVE  /\ link[i] = "broken" => link'[i] = "broken"
             /\ cli[i] = "aborted" => cli'[i] = "aborted"
    BY <1>8 DEF ConnEOF, CapPeerGone, CapClose, Leave
<1>9. CASE UNCHANGED vars
    BY <1>9, <1>1 DEF vars
<1> QED BY <1>1, <1>2, <1>3, <1>4, <1>5, <1>6, <1>7, <1>8, <1>9 DEF Next, ConnStep

(* The first error is kept, so an error never turns into a cancellation. *)
LEMMA FirstErrorStays ==
    ASSUME NEW old \in {"none", "canceled", "err"}, NEW new \in {"none", "canceled", "err"}
    PROVE  /\ Record(old, new) \in {old, new}
           /\ old # "none" => Record(old, new) = old
           /\ Record("none", new) = new
BY DEF Record

(* A task fails with an error only on a broken connection, or under a client *)
(* that left inside a call.                                                *)
LEMMA FaultsAreRealStep ==
    ASSUME IInv, [Next]_vars
    PROVE  FaultsAreReal'
<1> USE DEF IInv, TypeOK, Errors, poolVars, taskVars, connVars
<1>1. CASE perr = "err"
  <2>1. PICK i \in Clients : link[i] = "broken" \/ cli[i] = "aborted"
    BY <1>1 DEF FaultsAreReal
  <2> QED BY <2>1, FaultsStay DEF FaultsAreReal
<1>2. CASE perr' # "err"
    BY <1>2 DEF FaultsAreReal
<1>3. CASE perr # "err" /\ perr' = "err"
  <2>1. PICK i \in Clients : ConnTop(i) \/ ConnError(i) \/ CapClose(i)
    <3>1. perr' # perr
      BY <1>3
    <3>2. CASE HarnessCancel \/ PropagateToG \/ PropagateToConnPool \/ CloseListener
               \/ AcceptEnds \/ Join \/ AcceptorCancels \/ VatEnds \/ VatCancels \/ RunReturns
      BY <3>1, <3>2 DEF HarnessCancel, PropagateToG, PropagateToConnPool, CloseListener,
         AcceptEnds, Join, AcceptorCancels, VatEnds, VatCancels, RunReturns
    <3>3. ASSUME NEW j \in Clients, Dial(j) \/ DialFails(j) \/ StartCall(j) \/ CallFails(j)
                                    \/ ClientClose(j) \/ Break(j) \/ Accept(j)
          PROVE  perr' = perr
      BY <3>3 DEF Dial, DialFails, StartCall, CallFails, ClientClose, Break, Accept
    <3>4. ASSUME NEW j \in Clients, ConnCancels(j) \/ ConnRead(j) \/ ConnEOF(j) \/ ConnReply(j)
                                    \/ CapServe(j) \/ CapPeerGone(j)
          PROVE  perr' = perr
      BY <3>4 DEF ConnCancels, ConnRead, ConnEOF, ConnReply, CapServe, CapPeerGone
    <3> QED BY <3>1, <3>2, <3>3, <3>4 DEF Next, ConnStep, vars
  <2>2. link[i] = "broken" \/ cli[i] = "aborted"
    BY <1>3, <2>1 DEF ConnTop, ConnError, CapClose, ConnFails, Record
  <2> QED BY <2>2, FaultsStay DEF FaultsAreReal
<1> QED BY <1>1, <1>2, <1>3

LEMMA ErrorsStep ==
    ASSUME IInv, [Next]_vars
    PROVE  Errors'
<1> USE DEF IInv, TypeOK, Shapes, Ends, Errors, JoinResult, NoTask, HasVat, Kinds,
            poolVars, taskVars, connVars
<1>0. FaultsAreReal'
    BY FaultsAreRealStep
<1>1. CASE UNCHANGED <<kind, gerr, perr, acc, accErr, run>>
    BY <1>0, <1>1
<1>2. CASE HarnessCancel \/ PropagateToG \/ PropagateToConnPool \/ CloseListener \/ VatCancels
    BY <1>1, <1>2 DEF HarnessCancel, PropagateToG, PropagateToConnPool, CloseListener, VatCancels
<1>3. CASE AcceptEnds \/ AcceptorCancels \/ RunReturns
    BY <1>0, <1>3 DEF AcceptEnds, AcceptorCancels, RunReturns
<1>4. CASE Join
  <2>1. /\ gerr' = Record(gerr, JoinResult) /\ acc' \in {"failed", "done"}
        /\ UNCHANGED <<kind, perr, accErr, run>>
    BY <1>4 DEF Join
  <2>2. gerr' \in {gerr, JoinResult} /\ (gerr = "none" => gerr' = JoinResult)
    BY <2>1, FirstErrorStays
  <2> QED BY <1>0, <1>4, <2>1, <2>2 DEF Join
<1>5. CASE VatEnds
  <2>1. gerr' \in {gerr, "canceled"} /\ (gerr = "err" => gerr' = "err")
    BY <1>5, FirstErrorStays DEF VatEnds
  <2> QED BY <1>0, <1>5, <2>1 DEF VatEnds
<1>6. ASSUME NEW i \in Clients, Dial(i) \/ DialFails(i) \/ StartCall(i) \/ CallFails(i)
                                \/ ClientClose(i) \/ Break(i) \/ Accept(i)
      PROVE  Errors'
    BY <1>1, <1>6 DEF Dial, DialFails, StartCall, CallFails, ClientClose, Break, Accept
<1>7. ASSUME NEW i \in Clients, ConnCancels(i) \/ ConnRead(i) \/ ConnEOF(i) \/ ConnReply(i)
                                \/ CapServe(i) \/ CapPeerGone(i)
      PROVE  Errors'
    BY <1>1, <1>7 DEF ConnCancels, ConnRead, ConnEOF, ConnReply, CapServe, CapPeerGone
<1>8. ASSUME NEW i \in Clients, ConnTop(i) \/ ConnError(i) \/ CapClose(i) PROVE Errors'
  <2>1. /\ UNCHANGED <<kind, gerr, acc, accErr, run>> /\ ~HasVat
        /\ conn[i] \in {"top", "read", "body", "serving"}
    BY <1>8 DEF ConnTop, ConnError, CapClose
  <2>2. acc \in {"accept", "join"}
    BY <2>1
  <2> QED BY <1>0, <2>1, <2>2
<1>9. CASE UNCHANGED vars
    BY <1>1, <1>9 DEF vars
<1> QED BY <1>2, <1>3, <1>4, <1>5, <1>6, <1>7, <1>8, <1>9 DEF Next, ConnStep

-----------------------------------------------------------------------------
LEMMA QuietStep ==
    ASSUME IInv, [Next]_vars
    PROVE  Quiet'
<1> USE DEF IInv, TypeOK, Shapes, Ends, Quiet, HasVat, Kinds, poolVars, taskVars, connVars
<1> SUFFICES ASSUME cctx' = FALSE PROVE Quiet'
    OBVIOUS
<1>1. CASE HarnessCancel \/ PropagateToG \/ PropagateToConnPool
    BY <1>1 DEF HarnessCancel, PropagateToG, PropagateToConnPool
<1>2. CASE CloseListener
    BY <1>2 DEF CloseListener
<1>3. CASE AcceptEnds \/ AcceptorCancels \/ VatCancels \/ RunReturns
    BY <1>3 DEF AcceptEnds, AcceptorCancels, VatCancels, RunReturns
<1>4. CASE Join
  <2>1. JoinResult \in {"none", "err"} /\ gerr \in {"none", "err"}
    BY <1>4 DEF JoinResult, Join
  <2>2. gerr' \in {gerr, JoinResult} /\ (JoinResult = "err" => gerr' = "err")
    BY <1>4, <2>1 DEF Join, Record
  <2> QED BY <1>4, <2>1, <2>2 DEF Join
<1>5. CASE VatEnds
  <2>1. gerr' = gerr
    BY <1>5, FirstErrorStays DEF VatEnds
  <2> QED BY <1>5, <2>1 DEF VatEnds
<1>6. ASSUME NEW i \in Clients, Dial(i) \/ DialFails(i) \/ StartCall(i) \/ CallFails(i)
                                \/ ClientClose(i) \/ Break(i) \/ Accept(i)
      PROVE  Quiet'
    BY <1>6 DEF Dial, DialFails, StartCall, CallFails, ClientClose, Break, Accept
<1>7. ASSUME NEW i \in Clients, ConnCancels(i) \/ ConnRead(i) \/ ConnReply(i) \/ CapServe(i)
      PROVE  Quiet'
    BY <1>7 DEF ConnCancels, ConnRead, ConnReply, CapServe
<1>8. ASSUME NEW i \in Clients, ConnTop(i) PROVE Quiet'
  <2>1. CASE pctx = TRUE
    <3>1. perr = "err"
      BY <1>8, <2>1 DEF ConnTop, NoTask
    <3> QED BY <1>8, <2>1, <3>1 DEF ConnTop, ConnFails, Record
  <2>2. CASE pctx = FALSE
    BY <1>8, <2>2 DEF ConnTop
  <2> QED BY <2>1, <2>2
<1>9. ASSUME NEW i \in Clients, ConnEOF(i) \/ ConnError(i) PROVE Quiet'
    BY <1>9 DEF ConnEOF, ConnError, ConnFails, Leave, Record, ClientGone
<1>10. ASSUME NEW i \in Clients, CapPeerGone(i) \/ CapClose(i) PROVE Quiet'
    BY <1>10 DEF CapPeerGone, CapClose, ConnFails, Leave, Record
<1>11. CASE UNCHANGED vars
    BY <1>11 DEF vars
<1> QED BY <1>1, <1>2, <1>3, <1>4, <1>5, <1>6, <1>7, <1>8, <1>9, <1>10, <1>11
        DEF Next, ConnStep

-----------------------------------------------------------------------------
(* The theorems. *)

(* Every reachable state satisfies the inductive invariant. *)
THEOREM Invariance == Spec => []IInv
<1>1. IInv /\ [Next]_vars => IInv'
    BY TypeStep, ShapesStep, EndsStep, ErrorsStep, QuietStep DEF IInv
<1> QED BY InitSatisfies, <1>1, PTL DEF Spec

(* The variables keep their types, whatever the number of clients. *)
THEOREM TypesKept == Spec => []TypeOK
<1>1. IInv => TypeOK
    BY DEF IInv
<1> QED BY Invariance, <1>1, PTL

(* The deferred g.Wait and connPool.Wait of the three Run functions leave no
   goroutine and no listener behind, however many connections there were. *)
THEOREM NothingLeftBehind == Spec => []Joined
<1>1. IInv => Joined
  <2> USE DEF IInv, TypeOK, Shapes, Ends, NoTask
  <2> SUFFICES ASSUME IInv, run # "running" PROVE Joined
      BY DEF Joined
  <2>1. closer = "done" /\ acc = "done" /\ vat = "done" /\ lopen = FALSE
      OBVIOUS
  <2>2. ASSUME NEW i \in Clients PROVE conn[i] \in {"none", "gone"} \/ HasVat
      BY <2>1
  <2> QED BY <2>1, <2>2 DEF Joined
<1> QED BY Invariance, <1>1, PTL

(* Run returns an error exactly when a task of a pool failed: WithFirstError and
   the test for context.Canceled lose no fault and invent none, but for a failure of
   Accept that mdcapnp's vat overtakes after the benchmark's context has ended. *)
THEOREM FaultsAreReported == Spec => []Reported
<1>1. IInv => Reported
  <2> SUFFICES ASSUME IInv, run # "running"
               PROVE  /\ run = "err" => Fault
                      /\ Fault /\ run # "err" => HasVat /\ cctx
      BY DEF Reported
  <2>1. run = "err" <=> gerr = "err"
      BY DEF IInv, Errors
  <2>2. run = "err" => Fault
      BY <2>1 DEF IInv, TypeOK, Errors, Fault
  <2>3. ASSUME ~HasVat, Fault PROVE run = "err"
      BY <2>1, <2>3 DEF IInv, TypeOK, Ends, Errors, Fault, JoinResult
  <2>4. ASSUME cctx = FALSE PROVE run = "err"
      BY <2>1, <2>4 DEF IInv, Ends, Quiet
  <2>5. cctx \in BOOLEAN
      BY DEF IInv, TypeOK
  <2> QED BY <2>2, <2>3, <2>4, <2>5
<1> QED BY Invariance, <1>1, PTL

(* Clients that close between two calls are no fault, in whatever order contexts
   and connections end. *)
THEOREM CleanClosesAreNoFault == Spec => []FaultsAreReal
<1>1. IInv => FaultsAreReal
    BY DEF IInv, Errors
<1> QED BY Invariance, <1>1, PTL

(* While the benchmark runs, a client is left without an answer only after a fault
   of Accept or of another client's connection. *)
THEOREM OnlyFaultsAbandon == Spec => []AbandonedOnlyAfterFault
<1>1. IInv => AbandonedOnlyAfterFault
  <2> SUFFICES ASSUME IInv, NEW i \in Clients, Abandoned(i), cctx = FALSE
               PROVE  accErr = TRUE \/ (kind = "tcp" /\ \E j \in Clients \ {i} : link[j] = "broken")
      BY DEF AbandonedOnlyAfterFault, IInv, TypeOK
  <2>1. CASE conn[i] = "gone"
    <3>1. kind = "tcp" /\ perr = "err" /\ link[i] = "open"
      BY <2>1 DEF IInv, Quiet, Abandoned
    <3>2. PICK j \in Clients : link[j] = "broken" \/ cli[j] = "aborted"
      BY <3>1 DEF IInv, Errors, FaultsAreReal
    <3>3. cli[j] # "aborted"
      BY DEF IInv, Ends, ClientGone
    <3> QED BY <3>1, <3>2, <3>3
  <2>2. CASE acc # "accept" /\ lopen = TRUE
    BY <2>2 DEF IInv, Quiet
  <2> QED BY <2>1, <2>2 DEF Abandoned, IInv, TypeOK
<1> QED BY Invariance, <1>1, PTL

(* The three Run functions keep the safety part of the promise of Server.Run: they
   return nil only once their context has ended, whatever happens to the
   connections before.  (That they do return is RefinesServerRun, which TLC checks.) *)
THEOREM ImplementsServerRun == Spec => Promise!SafeSpec
<1>1. Init => Promise!Init
    BY DEF Init, Promise!Init
<1>2. ASSUME IInv, [Next]_vars PROVE [Promise!Next]_(Promise!vars)
  <2> USE DEF poolVars, taskVars, connVars
  <2>1. CASE RunReturns
    <3>1. gctx = TRUE /\ run = "running" /\ cctx' = cctx
      BY <1>2, <2>1 DEF IInv, Ends, RunReturns
    <3>2. cctx = TRUE \/ gerr = "err"
      BY <1>2, <3>1 DEF IInv, TypeOK, Quiet
    <3>3. run' = IF gerr = "err" THEN "err" ELSE "nil"
      BY <2>1 DEF RunReturns
    <3> QED BY <3>1, <3>2, <3>3 DEF Promise!Next, Promise!Return
  <2>2. CASE HarnessCancel
    BY <2>2 DEF HarnessCancel, Promise!Next, Promise!Cancel
  <2>3. CASE UNCHANGED <<cctx, run>>
    BY <2>3 DEF Promise!vars
  <2>4. CASE PropagateToG \/ PropagateToConnPool \/ CloseListener \/ AcceptEnds \/ Join
             \/ AcceptorCancels \/ VatEnds \/ VatCancels \/ UNCHANGED vars
    BY <2>3, <2>4 DEF PropagateToG, PropagateToConnPool, CloseListener, AcceptEnds, Join,
       AcceptorCancels, VatEnds, VatCancels, vars
  <2>5. ASSUME NEW i \in Clients, Dial(i) \/ DialFails(i) \/ StartCall(i) \/ CallFails(i)
                                  \/ ClientClose(i) \/ Break(i) \/ Accept(i)
        PROVE  UNCHANGED <<cctx, run>>
    BY <2>5 DEF Dial, DialFails, StartCall, CallFails, ClientClose, Break, Accept
  <2>6. ASSUME NEW i \in Clients, ConnStep(i)
        PROVE  UNCHANGED <<cctx, run>>
    BY <2>6 DEF ConnStep, ConnCancels, ConnRead, ConnReply, CapServe, ConnTop, ConnEOF, ConnError,
       CapPeerGone, CapClose
  <2> QED BY <1>2, <2>1, <2>2, <2>3, <2>4, <2>5, <2>6 DEF Next
<1> QED BY <1>1, <1>2, Invariance, PTL DEF Spec, Promise!SafeSpec
=============================================================================
