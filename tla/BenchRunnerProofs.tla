------------------------- MODULE BenchRunnerProofs -------------------------
(***************************************************************************)
(* What the benchmark runner promises for every number of clients and      *)
(* iterations: clients are not shared, every iteration is counted once, no *)
(* call is under way when the context ends, and a fault of the server      *)
(* fails the benchmark.                                                    *)
(*                                                                         *)
(* The counts of the workers are added up with explicit partial sums.      *)
(* Induction is over sets of naturals, from the library's theorem that a   *)
(* well-founded relation has minimal elements: that one is first-order.    *)
(***************************************************************************)
EXTENDS BenchRunner, Integers, SequenceTheorems, FiniteSetTheorems,
        WellFoundedInduction, TLAPS

-----------------------------------------------------------------------------
(* Sums. *)

(* Less-than on the naturals is well-founded. *)
LEMMA LessIsWellFounded == IsWellFoundedOn({ss \in Nat \X Nat : ss[1] < ss[2]}, Nat)
BY NatLessThanWellFounded DEF OpToRel

(* A set that contains 0 and the successor of each of its naturals contains all. *)
LEMMA SetInduction ==
    ASSUME NEW S, 0 \in S, \A n \in Nat : n \in S => n + 1 \in S
    PROVE  Nat \subseteq S
<1> SUFFICES ASSUME Nat \ S # {} PROVE FALSE
    OBVIOUS
<1> DEFINE R == {ss \in Nat \X Nat : ss[1] < ss[2]}
<1>1. IsWellFoundedOn(R, Nat)
    BY LessIsWellFounded
<1>2. \A m, n \in Nat : m < n => <<m, n>> \in R
    OBVIOUS
<1> HIDE DEF R
<1>3. PICK least \in Nat \ S : \A y \in Nat \ S : ~ (<<y, least>> \in R)
    BY <1>1, WFMin
<1>4. least # 0 /\ least - 1 \in Nat /\ (least - 1) + 1 = least /\ least - 1 < least
    BY <1>3
<1> QED BY <1>2, <1>3, <1>4

(* The partial sums of f[1], ..., f[n]; and "f[1] + ... + f[n] = s". *)
PartialSums(f, n) ==
    {P \in [0..n -> Int] : P[0] = 0 /\ \A i \in 1..n : P[i] = P[i - 1] + f[i]}

Adds(f, n, s) == \E P \in PartialSums(f, n) : P[n] = s

(* Partial sums of natural numbers do not decrease. *)
LEMMA SumsGrow ==
    ASSUME NEW n \in Nat, NEW f \in [1..n -> Nat], NEW P \in PartialSums(f, n)
    PROVE  \A j \in 0..n : \A i \in 0..j : P[i] <= P[j]
<1> DEFINE S == {j \in Nat : j <= n => \A i \in 0..j : P[i] <= P[j]}
<1>1. P \in [0..n -> Int] /\ P[0] = 0 /\ \A i \in 1..n : P[i] = P[i - 1] + f[i]
    BY DEF PartialSums
<1>2. 0 \in S
    BY <1>1
<1>3. ASSUME NEW j \in Nat, j \in S PROVE j + 1 \in S
  <2> SUFFICES ASSUME j + 1 <= n, NEW i \in 0..(j + 1) PROVE P[i] <= P[j + 1]
    OBVIOUS
  <2>1. P[j + 1] = P[j] + f[j + 1] /\ f[j + 1] \in Nat /\ P[j] \in Int
    BY <1>1
  <2>2. CASE i = j + 1
    BY <2>1, <2>2
  <2>3. CASE i \in 0..j
    <3>1. P[i] <= P[j] /\ P[i] \in Int
      BY <1>1, <1>3, <2>3
    <3> QED BY <2>1, <3>1
  <2> QED BY <2>2, <2>3
<1> HIDE DEF S
<1>4. Nat \subseteq S
    BY <1>2, <1>3, SetInduction
<1> USE DEF S
<1> QED BY <1>4

(* A sum of natural numbers is one, and no summand exceeds it. *)
LEMMA SumBounds ==
    ASSUME NEW n \in Nat, NEW f \in [1..n -> Nat], NEW s, Adds(f, n, s)
    PROVE  s \in Nat /\ \A i \in 1..n : f[i] <= s
<1>1. PICK P \in PartialSums(f, n) : P[n] = s
    BY DEF Adds
<1>2. P \in [0..n -> Int] /\ P[0] = 0 /\ \A i \in 1..n : P[i] = P[i - 1] + f[i]
    BY <1>1 DEF PartialSums
<1>3. \A j \in 0..n : \A i \in 0..j : P[i] <= P[j]
    BY <1>1, SumsGrow
<1>4. s \in Nat
    BY <1>1, <1>2, <1>3
<1>5. ASSUME NEW i \in 1..n PROVE f[i] <= s
  <2>1. P[i] = P[i - 1] + f[i] /\ P[i - 1] \in Int /\ f[i] \in Nat /\ P[i] \in Int
    BY <1>2
  <2>2. P[0] <= P[i - 1] /\ P[i] <= P[n]
    BY <1>3
  <2> QED BY <1>1, <1>2, <2>1, <2>2
<1> QED BY <1>4, <1>5

(* Nothing adds up to zero. *)
LEMMA SumOfNone ==
    ASSUME NEW f
    PROVE  Adds(f, 0, 0) /\ \A s : Adds(f, 0, s) => s = 0
<1>1. [i \in 0..0 |-> 0] \in PartialSums(f, 0)
    BY DEF PartialSums
<1>2. Adds(f, 0, 0)
    BY <1>1 DEF Adds
<1>3. \A s : Adds(f, 0, s) => s = 0
    BY DEF Adds, PartialSums
<1> QED BY <1>2, <1>3

(* Zeros add up to zero, and only to zero. *)
LEMMA SumOfZeros ==
    ASSUME NEW n \in Nat, NEW f \in [1..n -> Nat], \A i \in 1..n : f[i] = 0
    PROVE  Adds(f, n, 0) /\ \A s : Adds(f, n, s) => s = 0
<1>1. Adds(f, n, 0)
  <2>1. [i \in 0..n |-> 0] \in PartialSums(f, n)
    BY DEF PartialSums
  <2> QED BY <2>1 DEF Adds
<1>2. ASSUME NEW s, Adds(f, n, s) PROVE s = 0
  <2>1. PICK P \in PartialSums(f, n) : P[n] = s
    BY <1>2 DEF Adds
  <2>2. P \in [0..n -> Int] /\ P[0] = 0 /\ \A i \in 1..n : P[i] = P[i - 1] + 0
    BY <2>1 DEF PartialSums
  <2> DEFINE S == {j \in Nat : j <= n => P[j] = 0}
  <2>3. 0 \in S
    BY <2>2
  <2>4. ASSUME NEW j \in Nat, j \in S PROVE j + 1 \in S
    <3> SUFFICES ASSUME j + 1 <= n PROVE P[j + 1] = 0
      OBVIOUS
    <3>1. P[j + 1] = P[j] + 0 /\ P[j] = 0
      BY <2>2, <2>4
    <3> QED BY <3>1
  <2> HIDE DEF S
  <2>5. Nat \subseteq S
    BY <2>3, <2>4, SetInduction
  <2> USE DEF S
  <2> QED BY <2>1, <2>5
<1> QED BY <1>1, <1>2

(* One summand changes. *)
LEMMA SumChange ==
    ASSUME NEW n \in Nat, NEW f \in [1..n -> Nat], NEW s \in Int, Adds(f, n, s),
           NEW w \in 1..n, NEW x \in Nat
    PROVE  Adds([f EXCEPT ![w] = x], n, s + x - f[w])
<1> DEFINE g == [f EXCEPT ![w] = x]
<1>1. PICK P \in PartialSums(f, n) : P[n] = s
    BY DEF Adds
<1>2. P \in [0..n -> Int] /\ P[0] = 0 /\ \A i \in 1..n : P[i] = P[i - 1] + f[i]
    BY <1>1 DEF PartialSums
<1> DEFINE Q == [i \in 0..n |-> IF i >= w THEN P[i] + x - f[w] ELSE P[i]]
<1>3. Q \in [0..n -> Int] /\ Q[0] = 0 /\ Q[n] = s + x - f[w]
  <2>1. \A i \in 0..n : Q[i] = IF i >= w THEN P[i] + x - f[w] ELSE P[i]
    OBVIOUS
  <2>2. f[w] \in Nat
    OBVIOUS
  <2>3. \A i \in 0..n : P[i] \in Int /\ P[i] + x - f[w] \in Int
    <3>1. \A a \in Int : a + x - f[w] \in Int
      BY <2>2
    <3>2. \A i \in 0..n : P[i] \in Int
      BY <1>2
    <3> QED BY <3>1, <3>2
  <2>4. 0 \in 0..n /\ n \in 0..n /\ ~ (0 >= w) /\ n >= w
    OBVIOUS
  <2>5. Q \in [0..n -> Int]
    BY <2>3
  <2> QED BY <1>1, <1>2, <2>1, <2>4, <2>5
<1>4. ASSUME NEW i \in 1..n PROVE Q[i] = Q[i - 1] + g[i]
  <2>1. P[i] = P[i - 1] + f[i] /\ P[i - 1] \in Int /\ f[i] \in Nat /\ f[w] \in Nat
    BY <1>2
  <2>2. i - 1 \in 0..n /\ i \in 0..n
    OBVIOUS
  <2>3. CASE i < w
    BY <2>1, <2>2, <2>3
  <2>4. CASE i = w
    BY <2>1, <2>2, <2>4
  <2>5. CASE i > w
    BY <2>1, <2>2, <2>5
  <2> QED BY <2>3, <2>4, <2>5
<1>5. Q \in PartialSums(g, n)
    BY <1>3, <1>4 DEF PartialSums
<1> QED BY <1>3, <1>5 DEF Adds

(* A summand is appended, or the first one removed. *)
LEMMA SumAppend ==
    ASSUME NEW f \in Seq(Nat), NEW s \in Int, Adds(f, Len(f), s), NEW x \in Nat
    PROVE  Adds(Append(f, x), Len(Append(f, x)), s + x)
<1> DEFINE n == Len(f)
           g == Append(f, x)
<1>1. n \in Nat /\ Len(g) = n + 1 /\ g[n + 1] = x /\ \A i \in 1..n : g[i] = f[i]
    OBVIOUS
<1>2. PICK P \in PartialSums(f, n) : P[n] = s
    BY DEF Adds
<1>3. P \in [0..n -> Int] /\ P[0] = 0 /\ \A i \in 1..n : P[i] = P[i - 1] + f[i]
    BY <1>2 DEF PartialSums
<1> DEFINE Q == [i \in 0..(n + 1) |-> IF i = n + 1 THEN s + x ELSE P[i]]
<1> HIDE DEF n, g
<1>4. Q \in [0..(n + 1) -> Int] /\ Q[0] = 0 /\ Q[n + 1] = s + x
    BY <1>1, <1>3
<1>5. ASSUME NEW i \in 1..(n + 1) PROVE Q[i] = Q[i - 1] + g[i]
  <2>1. CASE i = n + 1
    BY <1>1, <1>2, <2>1
  <2>2. CASE i \in 1..n
    BY <1>1, <1>3, <2>2
  <2> QED BY <1>1, <2>1, <2>2
<1>6. Q \in PartialSums(g, n + 1)
    BY <1>4, <1>5 DEF PartialSums
<1>7. Adds(g, n + 1, s + x)
    BY <1>4, <1>6 DEF Adds
<1> QED BY <1>1, <1>7 DEF g

LEMMA SumTail ==
    ASSUME NEW f \in Seq(Nat), NEW s \in Int, Adds(f, Len(f), s), f # <<>>
    PROVE  Adds(Tail(f), Len(Tail(f)), s - Head(f))
<1> DEFINE n == Len(f) - 1
           g == Tail(f)
           h == Head(f)
<1>1. n \in Nat /\ Len(f) = n + 1 /\ Len(g) = n /\ h = f[1] /\ h \in Nat
      /\ \A i \in 1..n : g[i] = f[i + 1]
    OBVIOUS
<1> HIDE DEF n, g, h
<1>2. PICK P \in PartialSums(f, n + 1) : P[n + 1] = s
    BY <1>1 DEF Adds
<1>3. P \in [0..(n + 1) -> Int] /\ P[0] = 0 /\ \A i \in 1..(n + 1) : P[i] = P[i - 1] + f[i]
    BY <1>2 DEF PartialSums
<1>4. P[1] = h
    BY <1>1, <1>3
<1> DEFINE Q == [i \in 0..n |-> P[i + 1] - h]
<1>5. Q \in [0..n -> Int] /\ Q[0] = 0 /\ Q[n] = s - h
    BY <1>1, <1>2, <1>3, <1>4
<1>6. ASSUME NEW i \in 1..n PROVE Q[i] = Q[i - 1] + g[i]
  <2>1. i + 1 \in 1..(n + 1) /\ (i + 1) - 1 = i /\ (i - 1) + 1 = i /\ i \in 0..n
        /\ i - 1 \in 0..n /\ i \in 0..(n + 1)
    BY <1>1
  <2>2. P[i + 1] = P[i] + f[i + 1] /\ P[i] \in Int /\ P[i + 1] \in Int
    BY <1>3, <2>1
  <2>3. Q[i] = P[i + 1] - h /\ Q[i - 1] = P[i] - h /\ g[i] = f[i + 1]
    BY <1>1, <2>1
  <2> HIDE DEF Q
  <2>4. h \in Int /\ f[i + 1] \in Int
    BY <1>1, <2>1
  <2> QED BY <2>2, <2>3, <2>4
<1>7. Q \in PartialSums(g, n)
    BY <1>5, <1>6 DEF PartialSums
<1>8. Adds(g, n, s - h)
    BY <1>5, <1>7 DEF Adds
<1> QED BY <1>1, <1>8 DEF g, h

-----------------------------------------------------------------------------
USE DEF Clients, Workers, NoClient, mainVars, workVars

-----------------------------------------------------------------------------
(* The inductive invariant. *)

Types ==
    /\ mode \in {"sequential", "parallel"}
    /\ mpc \in {"listen", "dial", "loop", "call", "parallel", "totals", "setbytes",
                "return", "cleanup", "end"}
    /\ cctx \in BOOLEAN /\ failed \in BOOLEAN
    /\ srv \in {"none", "running", "nil", "err"}
    /\ clients \in Seq(Clients)
    /\ wpc \in [Workers -> {"none", "take", "next", "call", "send", "exit"}]
    /\ held \in [Workers -> Clients \cup {NoClient}]
    /\ ret \in {"none", "nil", "err"}

(* A client is in the channel once, or with one worker, or was not dealt out. *)
OneOwner ==
    /\ mpc \in {"listen", "dial"} => \A w \in Workers : held[w] = NoClient
    /\ \A i, j \in 1..Len(clients) : clients[i] = clients[j] => i = j
    /\ \A i \in 1..Len(clients) : \A w \in Workers : held[w] # clients[i]
    /\ OneGoroutinePerClient

(* Workers are at work only while the benchmark's goroutine waits for them, and
   the context ends after the benchmark function has returned. *)
Phases ==
    /\ mpc # "parallel" => \A w \in Workers : wpc[w] \in {"none", "exit"}
    /\ cctx <=> mpc \in {"cleanup", "end"}

(* What RunCase returned, and whether there is a server to wait for. *)
Outcome ==
    /\ mpc = "return" => ret # "none"
    /\ mpc \in {"cleanup", "end"} => ret = "nil" \/ (ret = "err" /\ failed)
    /\ srv = "none" =>
          mpc = "listen" \/ (mpc \in {"return", "cleanup", "end"} /\ ret = "err")
    /\ ServerFaultFails

(* The iterations a worker has claimed and will account for: those it counted,
   and the one it is at.  What a failed worker had counted is lost. *)
Owed ==
    [w \in Workers |-> IF wpc[w] = "exit" THEN 0
                       ELSE cnt[w] + IF wpc[w] = "call" THEN 1 ELSE 0]

(* The iterations that are in no worker's count and in no total. *)
AtHand == iters + N + IF mpc = "call" THEN 1 ELSE 0

Numbers ==
    /\ iters \in 0..Iters /\ N \in 0..Iters
    /\ dialed \in 0..NbClients /\ got \in 0..NbClients
    /\ totals \in Seq(0..Iters)
    /\ cnt \in [Workers -> 0..Iters]

(* Every iteration is unclaimed, under way, in a worker's count, in the channel or
   in N, and in one of them; without a failure, none is lost. *)
Conserved ==
    \E owed, sent \in Int :
        /\ Adds(Owed, NbClients, owed) /\ Adds(totals, Len(totals), sent)
        /\ AtHand + owed + sent <= Iters
        /\ ~failed /\ ret # "err" => AtHand + owed + sent = Iters

(* Which mode the phases belong to, and what a failure means before the end. *)
Modes ==
    /\ mpc \in {"loop", "call"} => mode = "sequential"
    /\ mpc \in {"parallel", "totals"} => mode = "parallel"
    /\ mode = "sequential" => totals = <<>> /\ \A w \in Workers : wpc[w] = "none"
    /\ \A w \in Workers : wpc[w] = "none" => cnt[w] = 0
    /\ mpc \in {"listen", "dial"} => \A w \in Workers : wpc[w] = "none"
    /\ mpc \notin {"return", "cleanup", "end"} => ret = "none"
    /\ failed => WorkerFailed \/ cctx

(* A worker sends its total when there is nothing left to claim. *)
Exhausted ==
    /\ (\E w \in Workers : wpc[w] = "send") \/ got + Len(totals) > 0 => iters = 0
    /\ mpc = "setbytes" => IF mode = "sequential" THEN iters = 0 ELSE got = NbClients

(* A total for every worker that has ended, but for one that failed. *)
Ended == {w \in Workers : wpc[w] = "exit"}

Counted ==
    /\ got + Len(totals) <= Cardinality(Ended)
    /\ WorkerFailed => got + Len(totals) < Cardinality(Ended)

IInv ==
    /\ Types /\ OneOwner /\ Phases /\ Outcome
    /\ Numbers /\ Conserved /\ Modes /\ Exhausted /\ Counted

-----------------------------------------------------------------------------
(* The variables keep their types.  Only the channel of clients needs care. *)

LEMMA InitIsTyped == Init => IInv
<1> SUFFICES ASSUME Init PROVE IInv
    OBVIOUS
<1>1. Types
  <2>1. clients \in Seq(Clients)
    BY EmptySeq DEF Init
  <2>2. wpc \in [Workers -> {"none", "take", "next", "call", "send", "exit"}]
    BY DEF Init
  <2>3. held \in [Workers -> Clients \cup {NoClient}]
    BY DEF Init
  <2> QED BY <2>1, <2>2, <2>3 DEF Init, Types
<1>2. OneOwner
    BY DEF Init, OneOwner, OneGoroutinePerClient
<1>3. Phases
    BY DEF Init, Phases
<1>4. Outcome
    BY DEF Init, Outcome, ServerFaultFails
<1>5. Numbers
  <2>1. totals \in Seq(0..Iters) /\ cnt \in [Workers -> 0..Iters]
    BY ItersAssumption, EmptySeq DEF Init
  <2> QED BY <2>1, NbClientsAssumption, ItersAssumption DEF Init, Numbers
<1>6. Conserved
  <2>1. Owed \in [1..NbClients -> Nat] /\ \A i \in 1..NbClients : Owed[i] = 0
    BY DEF Init, Owed
  <2>2. Adds(Owed, NbClients, 0)
    <3> HIDE DEF Workers
    <3> QED BY <2>1, NbClientsAssumption, SumOfZeros
  <2>3. Len(totals) = 0
    BY DEF Init
  <2>4. Adds(totals, Len(totals), 0)
    BY <2>3, SumOfNone
  <2>5. AtHand + 0 + 0 = Iters /\ AtHand + 0 + 0 <= Iters
    BY ItersAssumption DEF Init, AtHand
  <2> QED BY <2>2, <2>4, <2>5 DEF Conserved
<1>7. Modes
    BY DEF Init, Modes
<1>8. Exhausted
    BY DEF Init, Exhausted
<1>9. Counted
  <2>1. Ended = {} /\ got + Len(totals) = 0 /\ ~WorkerFailed
    BY DEF Init, Ended, WorkerFailed
  <2> QED BY <2>1, FS_EmptySet DEF Counted
<1> QED BY <1>1, <1>2, <1>3, <1>4, <1>5, <1>6, <1>7, <1>8, <1>9 DEF IInv

(* The channel after the clients were put in: the identity on 1..NbClients. *)
LEMMA FullChannel ==
    /\ [c \in Clients |-> c] \in Seq(Clients)
    /\ Len([c \in Clients |-> c]) = NbClients
BY NbClientsAssumption

LEMMA TypesStep ==
    ASSUME Types, [Next]_vars
    PROVE  Types'
<1>1. CASE StartServer
    BY <1>1 DEF Types, StartServer, ReturnWith
<1>2. CASE Dial
    BY <1>2 DEF Types, Dial, ReturnWith
<1>3. CASE Dialed
  <2>1. clients' \in Seq(Clients)
    BY <1>3, FullChannel DEF Types, Dialed
  <2> QED BY <1>3, <2>1 DEF Types, Dialed
<1>4. CASE Loop \/ Call
    BY <1>4 DEF Types, Loop, Call, ReturnWith
<1>5. CASE JoinWorkers \/ Receive \/ SetBytes
    BY <1>5 DEF Types, JoinWorkers, Receive, SetBytes, ReturnWith
<1>6. CASE Finish
    BY <1>6 DEF Types, Finish
<1>7. CASE Cleanup \/ CleanupTimeout
    BY <1>7 DEF Types, Cleanup, CleanupTimeout
<1>8. ASSUME NEW w \in Workers, Take(w) PROVE Types'
  <2>1. Head(clients) \in Clients /\ Tail(clients) \in Seq(Clients)
    <3>1. clients \in Seq(Clients) /\ clients # <<>>
      BY <1>8 DEF Types, Take
    <3> HIDE DEF Clients
    <3> QED BY <3>1, HeadTailProperties
  <2>2. /\ clients' = Tail(clients) /\ held' = [held EXCEPT ![w] = Head(clients)]
        /\ wpc' = [wpc EXCEPT ![w] = "next"]
        /\ UNCHANGED <<mode, mpc, cctx, failed, srv, ret>>
    BY <1>8 DEF Take, mainVars
  <2>3. held' \in [Workers -> Clients \cup {NoClient}]
    BY <2>1, <2>2 DEF Types
  <2>4. wpc' \in [Workers -> {"none", "take", "next", "call", "send", "exit"}]
    BY <2>2 DEF Types
  <2> QED BY <2>1, <2>2, <2>3, <2>4 DEF Types
<1>9. ASSUME NEW w \in Workers, ClaimNext(w) \/ WorkerCall(w) \/ Send(w) PROVE Types'
  <2>1. CASE ClaimNext(w)
    BY <2>1 DEF Types, ClaimNext
  <2>2. CASE WorkerCall(w)
    BY <2>2 DEF Types, WorkerCall
  <2>3. CASE Send(w)
    BY <2>3 DEF Types, Send
  <2> QED BY <1>9, <2>1, <2>2, <2>3
<1>10. CASE ServerReturns
    BY <1>10 DEF Types, ServerReturns, Server!Return
<1>11. CASE UNCHANGED vars
    BY <1>11 DEF Types, vars
<1> QED BY <1>1, <1>2, <1>3, <1>4, <1>5, <1>6, <1>7, <1>8, <1>9, <1>10, <1>11
        DEF Next, MainStep, WorkerStep

-----------------------------------------------------------------------------
(* The channel hands a client to one worker at a time. *)

LEMMA OneOwnerStep ==
    ASSUME IInv, [Next]_vars
    PROVE  OneOwner'
<1>1. CASE Dialed
  <2>1. \A w \in Workers : held[w] = NoClient /\ held'[w] = NoClient
    BY <1>1 DEF IInv, OneOwner, Dialed
  <2>2. CASE mode = "sequential"
    BY <1>1, <2>1, <2>2 DEF IInv, OneOwner, OneGoroutinePerClient, Dialed
  <2>3. CASE mode # "sequential"
    <3>1. mpc' = "parallel" /\ clients' = [c \in Clients |-> c]
      BY <1>1, <2>3 DEF Dialed
    <3>2. Len(clients') = NbClients /\ \A i \in 1..NbClients : clients'[i] = i
      BY <3>1, FullChannel
    <3>3. \A i \in 1..NbClients : i # NoClient
      BY NbClientsAssumption
    <3> QED BY <2>1, <3>1, <3>2, <3>3 DEF OneOwner, OneGoroutinePerClient
  <2> QED BY <2>2, <2>3
<1>2. ASSUME NEW w \in Workers, Take(w) PROVE OneOwner'
  <2> DEFINE h == Head(clients)
  <2>1. /\ clients \in Seq(Clients) /\ clients # <<>>
        /\ clients' = Tail(clients) /\ h = clients[1]
        /\ Len(clients) \in Nat \ {0} /\ Len(clients') = Len(clients) - 1
        /\ \A i \in 1..Len(clients') : clients'[i] = clients[i + 1]
    BY <1>2 DEF IInv, Types, Take
  <2>2. held' = [held EXCEPT ![w] = h] /\ held \in [Workers -> Clients \cup {NoClient}]
    BY <1>2 DEF IInv, Types, Take
  <2>3. \A i, j \in 1..Len(clients') : clients'[i] = clients'[j] => i = j
    <3> SUFFICES ASSUME NEW i \in 1..Len(clients'), NEW j \in 1..Len(clients'),
                        clients'[i] = clients'[j]
                 PROVE  i = j
      OBVIOUS
    <3>1. i + 1 \in 1..Len(clients) /\ j + 1 \in 1..Len(clients)
      BY <2>1
    <3>2. i + 1 = j + 1
      BY <2>1, <3>1 DEF IInv, OneOwner
    <3> QED BY <3>2
  <2>4. \A i \in 1..Len(clients') : clients'[i] # h /\ \A v \in Workers : held[v] # clients'[i]
    <3> SUFFICES ASSUME NEW i \in 1..Len(clients')
                 PROVE  clients'[i] # h /\ \A v \in Workers : held[v] # clients'[i]
      OBVIOUS
    <3>1. i + 1 \in 1..Len(clients) /\ 1 \in 1..Len(clients) /\ i + 1 # 1
      BY <2>1
    <3> QED BY <2>1, <3>1 DEF IInv, OneOwner
  <2>5. \A v \in Workers : held[v] # h
    BY <2>1 DEF IInv, OneOwner
  <2>6. OneGoroutinePerClient'
    BY <2>2, <2>5 DEF IInv, OneOwner, OneGoroutinePerClient
  <2>7. mpc' = "parallel"
    BY <1>2 DEF IInv, Phases, Types, Take
  <2>8. \A i \in 1..Len(clients') : \A v \in Workers : held'[v] # clients'[i]
    BY <2>2, <2>4
  <2> QED BY <2>3, <2>6, <2>7, <2>8 DEF OneOwner
<1>3. CASE UNCHANGED <<clients, held>> /\ (mpc' \in {"listen", "dial"} => mpc \in {"listen", "dial"})
    BY <1>3 DEF IInv, OneOwner, OneGoroutinePerClient
<1>4. CASE StartServer \/ Dial
    BY <1>4, <1>3 DEF StartServer, Dial, ReturnWith
<1>5. CASE Loop \/ Call \/ JoinWorkers \/ Receive \/ SetBytes
    BY <1>5, <1>3 DEF Loop, Call, JoinWorkers, Receive, SetBytes, ReturnWith
<1>6. CASE Finish \/ Cleanup \/ CleanupTimeout
    BY <1>6, <1>3 DEF Finish, Cleanup, CleanupTimeout
<1>7. ASSUME NEW w \in Workers, ClaimNext(w) \/ WorkerCall(w) \/ Send(w) PROVE OneOwner'
    BY <1>7, <1>3 DEF ClaimNext, WorkerCall, Send
<1>8. CASE ServerReturns \/ UNCHANGED vars
    BY <1>8, <1>3 DEF ServerReturns, vars
<1> QED BY <1>1, <1>2, <1>4, <1>5, <1>6, <1>7, <1>8 DEF Next, MainStep, WorkerStep

-----------------------------------------------------------------------------
(* RunParallel waits for every worker, failed ones included. *)

LEMMA PhasesStep ==
    ASSUME IInv, [Next]_vars
    PROVE  Phases'
<1>1. CASE JoinWorkers
    BY <1>1 DEF IInv, Types, Phases, JoinWorkers
<1>2. ASSUME NEW w \in Workers, WorkerStep(w) PROVE Phases'
  <2>1. wpc[w] \notin {"none", "exit"} /\ UNCHANGED <<mpc, cctx>>
    BY <1>2 DEF WorkerStep, Take, ClaimNext, WorkerCall, Send
  <2>2. mpc = "parallel"
    BY <2>1 DEF IInv, Phases
  <2> QED BY <2>1, <2>2 DEF IInv, Phases
<1>3. CASE Dialed
    BY <1>3 DEF IInv, Types, Phases, Dialed
<1>4. CASE StartServer \/ Dial \/ Loop \/ Call \/ Receive \/ SetBytes
    BY <1>4 DEF IInv, Phases, StartServer, Dial, Loop, Call, Receive, SetBytes, ReturnWith
<1>5. CASE Finish \/ Cleanup \/ CleanupTimeout
    BY <1>5 DEF IInv, Phases, Finish, Cleanup, CleanupTimeout
<1>6. CASE ServerReturns \/ UNCHANGED vars
    BY <1>6 DEF IInv, Phases, ServerReturns, Server!Return, vars
<1> QED BY <1>1, <1>2, <1>3, <1>4, <1>5, <1>6 DEF Next, MainStep

-----------------------------------------------------------------------------
(* An error on any way out marks the benchmark as failed. *)

LEMMA OutcomeStep ==
    ASSUME IInv, [Next]_vars
    PROVE  Outcome'
<1>1. CASE StartServer \/ Dial \/ Call \/ SetBytes
  <2>1. ASSUME NEW e \in {"nil", "err"}, ReturnWith(e), srv' = srv, srv = "none" => e = "err"
        PROVE  Outcome'
    BY <2>1 DEF Outcome, ServerFaultFails, ReturnWith
  <2>2. CASE StartServer
    BY <1>1, <2>1, <2>2 DEF Outcome, ServerFaultFails, StartServer
  <2>3. CASE Dial
    BY <2>1, <2>3 DEF IInv, Outcome, ServerFaultFails, Dial
  <2>4. CASE Call
    BY <2>1, <2>4 DEF IInv, Outcome, ServerFaultFails, Call
  <2>5. CASE SetBytes
    BY <2>1, <2>5 DEF IInv, Outcome, ServerFaultFails, SetBytes
  <2> QED BY <1>1, <2>2, <2>3, <2>4, <2>5
<1>2. CASE Dialed \/ Loop \/ JoinWorkers \/ Receive
    BY <1>2 DEF IInv, Outcome, ServerFaultFails, Dialed, Loop, JoinWorkers, Receive
<1>3. CASE Finish
    BY <1>3 DEF IInv, Types, Outcome, ServerFaultFails, Finish
<1>4. CASE Cleanup
    BY <1>4 DEF IInv, Types, Outcome, ServerFaultFails, Cleanup
<1>5. CASE CleanupTimeout
    BY <1>5 DEF IInv, Types, Outcome, ServerFaultFails, CleanupTimeout
<1>6. ASSUME NEW w \in Workers, WorkerStep(w) PROVE Outcome'
  <2>1. wpc[w] \notin {"none", "exit"}
    BY <1>6 DEF WorkerStep, Take, ClaimNext, WorkerCall, Send
  <2>2. mpc = "parallel"
    BY <2>1 DEF IInv, Phases
  <2>3. UNCHANGED <<mpc, ret, srv>>
    BY <1>6 DEF WorkerStep, Take, ClaimNext, WorkerCall, Send
  <2> QED BY <2>2, <2>3 DEF IInv, Outcome, ServerFaultFails
<1>7. CASE ServerReturns
    BY <1>7 DEF IInv, Outcome, ServerFaultFails, ServerReturns, Server!Return
<1>8. CASE UNCHANGED vars
    BY <1>8 DEF IInv, Outcome, ServerFaultFails, vars
<1> QED BY <1>1, <1>2, <1>3, <1>4, <1>5, <1>6, <1>7, <1>8 DEF Next, MainStep

-----------------------------------------------------------------------------
(* The books balance. *)

(* What the sums are over, and what they are bounded by. *)
LEMMA Books ==
    ASSUME Types, Numbers, Conserved
    PROVE  /\ Owed \in [1..NbClients -> Nat] /\ totals \in Seq(Nat)
           /\ \E owed, sent \in Nat :
                /\ Adds(Owed, NbClients, owed) /\ Adds(totals, Len(totals), sent)
                /\ \A w \in Workers : Owed[w] <= owed
                /\ totals # <<>> => Head(totals) <= sent
                /\ AtHand + owed + sent <= Iters
                /\ ~failed /\ ret # "err" => AtHand + owed + sent = Iters
<1>1. \A w \in Workers : Owed[w] \in Nat
    BY ItersAssumption DEF Numbers, Owed
<1>2. Owed \in [1..NbClients -> Nat]
    BY <1>1 DEF Owed
<1>3. totals \in Seq(Nat)
    BY ItersAssumption DEF Numbers
<1>4. Len(totals) \in Nat /\ totals \in [1..Len(totals) -> Nat]
      /\ (totals # <<>> => 1 \in 1..Len(totals) /\ Head(totals) = totals[1])
    BY <1>3
<1>5. PICK owed, sent \in Int :
        /\ Adds(Owed, NbClients, owed) /\ Adds(totals, Len(totals), sent)
        /\ AtHand + owed + sent <= Iters
        /\ ~failed /\ ret # "err" => AtHand + owed + sent = Iters
    BY DEF Conserved
<1>6. owed \in Nat /\ \A w \in 1..NbClients : Owed[w] <= owed
    BY <1>2, <1>5, NbClientsAssumption, SumBounds
<1>7. sent \in Nat /\ \A i \in 1..Len(totals) : totals[i] <= sent
    BY <1>4, <1>5, SumBounds
<1> QED BY <1>2, <1>3, <1>4, <1>5, <1>6, <1>7

LEMMA NumbersStep ==
    ASSUME IInv, [Next]_vars
    PROVE  Numbers'
<1> USE NbClientsAssumption, ItersAssumption
<1>1. PICK owed, sent \in Nat :
        /\ \A w \in Workers : Owed[w] <= owed
        /\ totals # <<>> => Head(totals) <= sent
        /\ AtHand + owed + sent <= Iters
    BY Books DEF IInv
<1>2. Numbers /\ Types
    BY DEF IInv
<1>3. CASE StartServer \/ Dial \/ Dialed
  <2>1. CASE StartServer
    BY <1>2, <2>1 DEF Numbers, StartServer, ReturnWith
  <2>2. CASE Dial
    <3>1. NbWanted \in 1..NbClients
      BY DEF NbWanted
    <3>2. dialed' \in 0..NbClients
      BY <1>2, <2>2, <3>1 DEF Numbers, Dial
    <3> QED BY <1>2, <2>2, <3>2 DEF Numbers, Dial, ReturnWith
  <2>3. CASE Dialed
    BY <1>2, <2>3 DEF Numbers, Dialed
  <2> QED BY <1>3, <2>1, <2>2, <2>3
<1>4. CASE Loop \/ JoinWorkers \/ SetBytes \/ Finish \/ Cleanup \/ CleanupTimeout
  <2>1. CASE Loop
    BY <1>2, <2>1 DEF Numbers, Loop, ReturnWith
  <2>2. CASE JoinWorkers \/ SetBytes \/ Finish \/ Cleanup \/ CleanupTimeout
    BY <1>2, <2>2 DEF Numbers, JoinWorkers, SetBytes, Finish, Cleanup, CleanupTimeout, ReturnWith
  <2> QED BY <1>4, <2>1, <2>2
<1>5. CASE Call
  <2>1. N' \in 0..Iters
    BY <1>1, <1>2, <1>5 DEF Numbers, Call, AtHand
  <2> QED BY <1>2, <1>5, <2>1 DEF Numbers, Call
<1>6. CASE Receive
  <2>1. totals # <<>> => Head(totals) \in 0..Iters /\ Tail(totals) \in Seq(0..Iters)
    BY <1>2 DEF Numbers
  <2>3. CASE got < NbClients /\ totals # <<>>
    <3>1. N' = N + Head(totals) /\ totals' = Tail(totals) /\ got' = got + 1
      BY <1>2, <1>6, <2>3 DEF Numbers, Receive
    <3>2. N + Head(totals) <= Iters
      BY <1>1, <1>2, <2>1, <2>3 DEF Numbers, AtHand
    <3>3. N' \in 0..Iters /\ totals' \in Seq(0..Iters) /\ got' \in 0..NbClients
      BY <1>2, <2>1, <2>3, <3>1, <3>2 DEF Numbers
    <3> QED BY <1>2, <1>6, <3>3 DEF Numbers, Receive
  <2>4. CASE UNCHANGED <<N, totals, got>>
    BY <1>2, <1>6, <2>4 DEF Numbers, Receive
  <2> QED BY <1>6, <2>3, <2>4 DEF Receive
<1>7. ASSUME NEW w \in Workers, Take(w) \/ ClaimNext(w) PROVE Numbers'
  <2>1. UNCHANGED <<N, dialed, got, totals, cnt>>
    BY <1>7 DEF Take, ClaimNext, mainVars
  <2>2. iters' \in 0..Iters
    <3>1. iters' = iters \/ (iters > 0 /\ iters' = iters - 1)
      BY <1>7 DEF Take, ClaimNext
    <3>2. iters \in 0..Iters
      BY <1>2 DEF Numbers
    <3> QED BY <3>1, <3>2
  <2> QED BY <1>2, <2>1, <2>2 DEF Numbers
<1>8. ASSUME NEW w \in Workers, WorkerCall(w) PROVE Numbers'
  <2>1. Owed[w] = cnt[w] + 1 /\ cnt[w] \in 0..Iters
    BY <1>2, <1>8 DEF WorkerCall, Owed, Numbers
  <2>3. cnt[w] + 1 \in 0..Iters
    BY <1>1, <1>2, <2>1 DEF Numbers, AtHand
  <2> QED BY <1>2, <1>8, <2>3 DEF Numbers, WorkerCall
<1>9. ASSUME NEW w \in Workers, Send(w) PROVE Numbers'
  <2>1. cnt[w] \in 0..Iters /\ totals \in Seq(0..Iters)
    BY <1>2 DEF Numbers
  <2>2. Append(totals, cnt[w]) \in Seq(0..Iters)
    BY <2>1
  <2> QED BY <1>2, <1>9, <2>2 DEF Numbers, Send
<1>10. CASE ServerReturns \/ UNCHANGED vars
    BY <1>2, <1>10 DEF Numbers, ServerReturns, vars
<1> QED BY <1>3, <1>4, <1>5, <1>6, <1>7, <1>8, <1>9, <1>10 DEF Next, MainStep, WorkerStep

(* The arithmetic of those books. *)
LEMMA LessAtHand ==
    ASSUME NEW d \in Nat, NEW e \in Nat, NEW o \in Nat, NEW s \in Nat, NEW b \in Nat,
           e <= d, d + o + s <= b
    PROVE  e + o + s <= b
OBVIOUS

LEMMA SameAtHand ==
    ASSUME NEW d \in Nat, NEW o \in Nat, NEW s \in Nat
    PROVE  d + o + s <= d + o + s /\ d + 0 + s <= d + o + s
OBVIOUS

LEMMA MovedToHand ==
    ASSUME NEW d \in Nat, NEW o \in Nat, NEW s \in Nat, NEW h \in Nat
    PROVE  s - h \in Int /\ (d + h) + o + (s - h) = d + o + s
OBVIOUS

LEMMA ClaimedFromHand ==
    ASSUME NEW d \in Nat, NEW y \in Nat, NEW s \in Nat
    PROVE  /\ (d - 1) + (y + 1) + s = d + y + s
           /\ (d - 1) + (y + 1) + s <= d + y + s
OBVIOUS

LEMMA SentFromHand ==
    ASSUME NEW d \in Nat, NEW y \in Nat, NEW s \in Nat
    PROVE  d + 0 + (s + y) = d + y + s /\ d + 0 + (s + y) <= d + y + s
OBVIOUS

LEMMA ExchangedAtMost ==
    ASSUME NEW d \in Int, NEW e \in Int, NEW x \in Int, NEW y \in Int,
           NEW s \in Int, NEW t \in Int, NEW o \in Int, NEW b \in Int,
           e + x + t <= d + y + s, d + o + s <= b
    PROVE  e + (o + x - y) + t <= b
OBVIOUS

LEMMA ExchangedAtLeast ==
    ASSUME NEW d \in Int, NEW e \in Int, NEW x \in Int, NEW y \in Int,
           NEW s \in Int, NEW t \in Int, NEW o \in Int, NEW b \in Int,
           d + y + s <= e + x + t, b <= d + o + s
    PROVE  b <= e + (o + x - y) + t
OBVIOUS

LEMMA ThreeSummands ==
    ASSUME NEW x \in Int, NEW y \in Int, NEW s \in Int
    PROVE  x + y + s \in Int /\ x + y + s <= x + y + s
OBVIOUS

LEMMA AtMostAndAtLeast ==
    ASSUME NEW x \in Int, NEW y \in Int, x <= y, y <= x
    PROVE  x = y
OBVIOUS

LEMMA OneAtHand ==
    ASSUME NEW i \in Nat, NEW n \in Nat
    PROVE  /\ (i - 1) + n + 1 = i + n + 0 /\ i + (n + 1) + 0 = i + n + 1
           /\ i + n + 0 <= i + n + 1 /\ i + n + 0 \in Nat
           /\ (i - 1) + n + 0 = (i + n + 0) - 1 /\ (i - 1) + n + 1 = (i + n + 1) - 1
OBVIOUS

LEMMA ConservedStep ==
    ASSUME IInv, [Next]_vars
    PROVE  Conserved'
<1> USE NbClientsAssumption, ItersAssumption
<1>1. /\ Types /\ Numbers /\ Modes
      /\ Owed \in [1..NbClients -> Nat] /\ totals \in Seq(Nat) /\ NbClients \in Nat
    BY Books DEF IInv
<1>2. PICK owed, sent \in Nat :
        /\ Adds(Owed, NbClients, owed) /\ Adds(totals, Len(totals), sent)
        /\ AtHand + owed + sent <= Iters
        /\ ~failed /\ ret # "err" => AtHand + owed + sent = Iters
    BY Books DEF IInv
<1>3. AtHand \in Nat /\ iters \in Nat /\ N \in Nat
    BY <1>1 DEF AtHand, Numbers
<1> DEFINE Whole == /\ AtHand' + owed + sent <= Iters
                    /\ ~failed' /\ ret' # "err" => AtHand' + owed + sent = Iters
<1>4. ASSUME Owed' = Owed, UNCHANGED totals, Whole PROVE Conserved'
    BY <1>2, <1>4 DEF Conserved
<1>5. Owed' = Owed \/ wpc' # wpc \/ cnt' # cnt
    BY DEF Owed
<1>6. CASE StartServer \/ Dial \/ JoinWorkers \/ SetBytes
  <2>1. Owed' = Owed /\ UNCHANGED totals /\ AtHand' = AtHand /\ failed' = failed
    BY <1>5, <1>6 DEF StartServer, Dial, JoinWorkers, SetBytes, ReturnWith, AtHand
  <2>2. ret' # "err" => ret # "err"
    BY <1>1, <1>6 DEF Modes, StartServer, Dial, JoinWorkers, SetBytes, ReturnWith
  <2> QED BY <1>2, <1>4, <2>1, <2>2
<1>7. CASE Finish \/ Cleanup \/ CleanupTimeout \/ ServerReturns \/ UNCHANGED vars
  <2>1. Owed' = Owed /\ UNCHANGED totals /\ AtHand' = AtHand /\ ret' = ret
    BY <1>5, <1>7 DEF Finish, Cleanup, CleanupTimeout, ServerReturns, vars, AtHand
  <2>2. ~failed' => ~failed
    BY <1>7 DEF Finish, Cleanup, CleanupTimeout, ServerReturns, vars
  <2> QED BY <1>2, <1>4, <2>1, <2>2
<1>8. CASE Dialed
  <2>1. Owed' = Owed
    <3>1. cnt' = cnt
      BY <1>8 DEF Dialed
    <3>2. CASE wpc' = wpc
      BY <1>5, <3>1, <3>2
    <3>3. CASE mode # "sequential"
      <4>1. \A w \in Workers : wpc'[w] = "take"
        BY <1>8, <3>3 DEF Dialed
      <4>2. \A w \in Workers : wpc[w] = "none"
        BY <1>1, <1>8 DEF Modes, Dialed
      <4> QED BY <3>1, <4>1, <4>2 DEF Owed
    <3> QED BY <1>8, <3>2, <3>3 DEF Dialed
  <2>2. UNCHANGED <<totals, failed, ret>> /\ AtHand' = AtHand
    BY <1>8 DEF Dialed, AtHand
  <2> QED BY <1>2, <1>4, <2>1, <2>2
<1>9. CASE Loop \/ Call
  <2>1. Owed' = Owed /\ UNCHANGED <<totals, failed>>
    BY <1>5, <1>9 DEF Loop, Call
  <2>2. \/ AtHand' = AtHand /\ ret' = ret
        \/ AtHand' <= AtHand /\ AtHand' \in Nat /\ ret' = "err"
    <3>1. CASE Loop
      <4>1. mpc = "loop" /\ ret' = ret /\ N' = N
        BY <3>1 DEF Loop
      <4>2. \/ iters' = iters - 1 /\ mpc' = "call"
            \/ iters' = iters /\ mpc' = "setbytes"
        BY <3>1 DEF Loop
      <4>3. AtHand = iters + N + 0
        BY <4>1 DEF AtHand
      <4>4. CASE iters' = iters - 1 /\ mpc' = "call"
        <5>1. AtHand' = (iters - 1) + N + 1
          BY <4>1, <4>4 DEF AtHand
        <5> QED BY <1>3, <4>1, <4>3, <5>1, OneAtHand
      <4>5. CASE iters' = iters /\ mpc' = "setbytes"
        <5>1. AtHand' = iters + N + 0
          BY <4>1, <4>5 DEF AtHand
        <5> QED BY <4>1, <4>3, <5>1
      <4> QED BY <4>2, <4>4, <4>5
    <3>2. CASE Call
      <4>1. AtHand = iters + N + 1 /\ iters' = iters
        BY <3>2 DEF Call, AtHand
      <4>2. CASE mpc' = "loop" /\ N' = N + 1 /\ ret' = ret
        <5>1. AtHand' = iters + (N + 1) + 0
          BY <4>1, <4>2 DEF AtHand
        <5> QED BY <1>3, <4>1, <4>2, <5>1, OneAtHand
      <4>3. CASE mpc' = "return" /\ N' = N /\ ret' = "err"
        <5>1. AtHand' = iters + N + 0
          BY <4>1, <4>3 DEF AtHand
        <5> QED BY <1>3, <4>1, <4>3, <5>1, OneAtHand
      <4> QED BY <3>2, <4>2, <4>3 DEF Call, ReturnWith
    <3> QED BY <1>9, <3>1, <3>2
  <2>3. CASE AtHand' = AtHand /\ ret' = ret
    BY <1>2, <1>4, <2>1, <2>3
  <2>4. CASE AtHand' <= AtHand /\ AtHand' \in Nat /\ ret' = "err"
    <3>1. AtHand' + owed + sent <= Iters
      BY <1>2, <1>3, <2>4, LessAtHand
    <3> QED BY <1>4, <2>1, <2>4, <3>1
  <2> QED BY <2>2, <2>3, <2>4
<1>10. CASE Receive
  <2>1. Owed' = Owed /\ UNCHANGED <<iters, failed, ret>>
    BY <1>5, <1>10 DEF Receive
  <2>2. CASE UNCHANGED <<N, totals>>
    <3>1. AtHand' = AtHand
      BY <1>10, <2>2 DEF Receive, AtHand
    <3> QED BY <1>2, <1>4, <2>1, <2>2, <3>1
  <2>3. CASE totals # <<>> /\ N' = N + Head(totals) /\ totals' = Tail(totals)
    <3>1. Adds(totals', Len(totals'), sent - Head(totals))
      BY <1>1, <1>2, <2>3, SumTail
    <3>2. Head(totals) \in Nat
      BY <1>1, <2>3
    <3> DEFINE rest == sent - Head(totals)
    <3>3. AtHand' = AtHand + Head(totals)
      BY <1>3, <1>10, <2>3, <3>2 DEF Receive, AtHand
    <3>4. rest \in Int /\ AtHand' + owed + rest = AtHand + owed + sent
      BY <1>3, <3>2, <3>3, MovedToHand
    <3>5. Adds(Owed', NbClients, owed) /\ Adds(totals', Len(totals'), rest) /\ owed \in Int
      BY <1>2, <2>1, <3>1
    <3> HIDE DEF rest
    <3> QED BY <1>2, <2>1, <3>4, <3>5 DEF Conserved
  <2> QED BY <1>10, <2>2, <2>3 DEF Receive
<1>11. ASSUME NEW w \in Workers, WorkerStep(w) PROVE Conserved'
  <2>1. UNCHANGED <<mpc, ret, N>>
    BY <1>11 DEF WorkerStep, Take, ClaimNext, WorkerCall, Send
  <2>2. ASSUME NEW s \in Int, Adds(totals', Len(totals'), s),
               \A v \in Workers \ {w} : Owed'[v] = Owed[v],
               Owed'[w] \in Nat, AtHand' \in Int,
               AtHand' + Owed'[w] + s <= AtHand + Owed[w] + sent,
               ~failed' => ~failed /\ AtHand' + Owed'[w] + s = AtHand + Owed[w] + sent
        PROVE  Conserved'
    <3> DEFINE x == Owed'[w]
               y == Owed[w]
               o == owed + x - y
    <3>1. x \in Nat /\ y \in Nat /\ w \in 1..NbClients /\ owed \in Int
      BY <1>1, <1>2, <2>2
    <3>2. Owed' = [Owed EXCEPT ![w] = x]
      BY <1>1, <2>2 DEF Owed
    <3> HIDE DEF x
    <3>3. Adds([Owed EXCEPT ![w] = x], NbClients, owed + x - Owed[w])
      BY <1>1, <1>2, <3>1, SumChange
    <3>4. /\ AtHand' + x + s <= AtHand + y + sent
          /\ ~failed' => ~failed /\ AtHand' + x + s = AtHand + y + sent
      BY <2>2 DEF x
    <3>5. Adds(Owed', NbClients, o)
      BY <3>2, <3>3
    <3> HIDE DEF y
    <3>6. x \in Int /\ y \in Int /\ sent \in Int /\ AtHand \in Int /\ Iters \in Int
      BY <1>2, <1>3, <3>1
    <3>7. o \in Int
      BY <3>1, <3>6
    <3>8. /\ AtHand' + o + s <= Iters
          /\ ~failed' /\ ret' # "err" => AtHand' + o + s = Iters
      <4>1. AtHand' \in Int
        BY <2>2
      <4>2. AtHand' + o + s <= Iters
        BY <1>2, <2>2, <3>1, <3>4, <3>6, <4>1, ExchangedAtMost
      <4>3. ASSUME ~failed', ret' # "err" PROVE AtHand' + o + s = Iters
        <5>1. AtHand' + x + s = AtHand + y + sent
          BY <3>4, <4>3
        <5>2. AtHand + owed + sent = Iters
          BY <1>2, <2>1, <3>4, <4>3
        <5>3. AtHand + y + sent <= AtHand' + x + s /\ Iters <= AtHand + owed + sent
          <6>1. AtHand + y + sent <= AtHand + y + sent
            BY <3>6, ThreeSummands
          <6>2. AtHand + owed + sent <= AtHand + owed + sent
            BY <3>1, <3>6, ThreeSummands
          <6> QED BY <5>1, <5>2, <6>1, <6>2
        <5>4. Iters <= AtHand' + o + s
          BY <2>2, <3>1, <3>6, <4>1, <5>3, ExchangedAtLeast
        <5> HIDE DEF o
        <5>5. AtHand' + o + s \in Int
          BY <2>2, <3>7, <4>1, ThreeSummands
        <5> QED BY <3>6, <4>2, <5>4, <5>5, AtMostAndAtLeast
      <4> QED BY <4>2, <4>3
    <3> HIDE DEF o
    <3> QED BY <2>2, <3>5, <3>7, <3>8 DEF Conserved
  <2>3. /\ wpc \in [Workers -> {"none", "take", "next", "call", "send", "exit"}]
        /\ cnt \in [Workers -> 0..Iters] /\ Owed[w] \in Nat /\ cnt[w] \in Nat
        /\ \A v \in Workers : Owed[v] = IF wpc[v] = "exit" THEN 0
                                        ELSE cnt[v] + IF wpc[v] = "call" THEN 1 ELSE 0
        /\ \A v \in Workers : Owed'[v] = IF wpc'[v] = "exit" THEN 0
                                        ELSE cnt'[v] + IF wpc'[v] = "call" THEN 1 ELSE 0
    BY <1>1 DEF Types, Numbers, Owed
  <2>4. CASE Take(w)
    <3>1. UNCHANGED <<totals, failed>> /\ AtHand' = AtHand
      BY <2>1, <2>4 DEF Take, AtHand
    <3>2. Owed'[w] = Owed[w] /\ \A v \in Workers \ {w} : Owed'[v] = Owed[v]
      BY <2>3, <2>4 DEF Take
    <3>3. AtHand + Owed[w] + sent <= AtHand + Owed[w] + sent
      BY <1>3, <2>3, SameAtHand
    <3> QED BY <1>2, <1>3, <2>2, <2>3, <3>1, <3>2, <3>3
  <2>5. CASE ClaimNext(w)
    <3>1. UNCHANGED <<totals, failed>>
      BY <2>5 DEF ClaimNext
    <3>2. \A v \in Workers \ {w} : Owed'[v] = Owed[v]
      BY <2>3, <2>5 DEF ClaimNext
    <3>3. \/ Owed'[w] = Owed[w] + 1 /\ iters' = iters - 1
          \/ Owed'[w] = Owed[w] /\ iters' = iters
      <4>1. wpc[w] = "next" /\ cnt'[w] = cnt[w]
        BY <2>5 DEF ClaimNext
      <4>2. \/ wpc'[w] = "call" /\ iters' = iters - 1
            \/ wpc'[w] = "send" /\ iters' = iters
        BY <2>3, <2>5 DEF ClaimNext
      <4>3. Owed[w] = cnt[w] + 0
        BY <2>3, <4>1
      <4>4. Owed'[w] = cnt[w] + IF wpc'[w] = "call" THEN 1 ELSE 0
        BY <2>3, <4>1, <4>2
      <4> QED BY <2>3, <4>2, <4>3, <4>4
    <3>4. \/ Owed'[w] = Owed[w] + 1 /\ AtHand' = AtHand - 1
          \/ Owed'[w] = Owed[w] /\ AtHand' = AtHand
      <4>1. CASE iters' = iters
        <5>1. AtHand' = AtHand
          BY <2>1, <4>1 DEF AtHand
        <5>2. iters # iters - 1
          BY <1>3
        <5> QED BY <3>3, <4>1, <5>1, <5>2
      <4>2. CASE Owed'[w] = Owed[w] + 1 /\ iters' = iters - 1
        <5>1. AtHand' = AtHand - 1
          <6>1. CASE mpc = "call"
            <7>1. AtHand = iters + N + 1 /\ AtHand' = (iters - 1) + N + 1
              BY <2>1, <4>2, <6>1 DEF AtHand
            <7> QED BY <1>3, <7>1, OneAtHand
          <6>2. CASE mpc # "call"
            <7>1. AtHand = iters + N + 0 /\ AtHand' = (iters - 1) + N + 0
              BY <2>1, <4>2, <6>2 DEF AtHand
            <7> QED BY <1>3, <7>1, OneAtHand
          <6> QED BY <6>1, <6>2
        <5> QED BY <4>2, <5>1
      <4> QED BY <3>3, <4>1, <4>2
    <3>5. AtHand' \in Int /\ Owed'[w] \in Nat
      BY <1>3, <2>3, <3>4
    <3>6. /\ AtHand' + Owed'[w] + sent = AtHand + Owed[w] + sent
          /\ AtHand' + Owed'[w] + sent <= AtHand + Owed[w] + sent
      <4>1. CASE Owed'[w] = Owed[w] /\ AtHand' = AtHand
        <5>1. AtHand + Owed[w] + sent <= AtHand + Owed[w] + sent
          BY <1>3, <2>3, SameAtHand
        <5> QED BY <4>1, <5>1
      <4>2. CASE Owed'[w] = Owed[w] + 1 /\ AtHand' = AtHand - 1
        <5>1. /\ (AtHand - 1) + (Owed[w] + 1) + sent = AtHand + Owed[w] + sent
              /\ (AtHand - 1) + (Owed[w] + 1) + sent <= AtHand + Owed[w] + sent
          BY <1>3, <2>3, ClaimedFromHand
        <5> QED BY <4>2, <5>1
      <4> QED BY <3>4, <4>1, <4>2
    <3> QED BY <1>2, <2>2, <3>1, <3>2, <3>5, <3>6
  <2>6. CASE WorkerCall(w)
    <3>1. UNCHANGED totals /\ AtHand' = AtHand
      BY <2>1, <2>6 DEF WorkerCall, AtHand
    <3>2. \A v \in Workers \ {w} : Owed'[v] = Owed[v]
      BY <2>3, <2>6 DEF WorkerCall
    <3>3. \/ Owed'[w] = Owed[w] /\ UNCHANGED failed
          \/ Owed'[w] = 0 /\ failed' = TRUE
      BY <2>3, <2>6 DEF WorkerCall
    <3>4. AtHand + Owed[w] + sent <= AtHand + Owed[w] + sent
          /\ AtHand + 0 + sent <= AtHand + Owed[w] + sent
      BY <1>3, <2>3, SameAtHand
    <3> QED BY <1>2, <1>3, <2>2, <2>3, <3>1, <3>2, <3>3, <3>4
  <2>7. CASE Send(w)
    <3>1. UNCHANGED failed /\ totals' = Append(totals, cnt[w]) /\ AtHand' = AtHand
      BY <2>1, <2>7 DEF Send, AtHand
    <3>2. Adds(totals', Len(totals'), sent + cnt[w])
      BY <1>1, <1>2, <2>3, <3>1, SumAppend
    <3>3. wpc[w] = "send" /\ wpc'[w] = "exit" /\ cnt' = cnt
          /\ \A v \in Workers \ {w} : wpc'[v] = wpc[v]
      BY <2>3, <2>7 DEF Send
    <3>4. Owed'[w] = 0 /\ Owed[w] = cnt[w] + 0
      BY <2>3, <3>3
    <3>5. \A v \in Workers \ {w} : Owed'[v] = Owed[v]
      BY <2>3, <3>3
    <3>6. sent + cnt[w] \in Int /\ 0 \in Nat /\ Owed[w] = cnt[w]
      BY <1>2, <2>3, <3>4
    <3>7. /\ AtHand + 0 + (sent + cnt[w]) = AtHand + cnt[w] + sent
          /\ AtHand + 0 + (sent + cnt[w]) <= AtHand + cnt[w] + sent
      BY <1>3, <2>3, SentFromHand
    <3> QED BY <1>3, <2>2, <3>1, <3>2, <3>4, <3>5, <3>6, <3>7
  <2> QED BY <1>11, <2>4, <2>5, <2>6, <2>7 DEF WorkerStep
<1> QED BY <1>6, <1>7, <1>8, <1>9, <1>10, <1>11 DEF Next, MainStep

LEMMA ModesStep ==
    ASSUME IInv, [Next]_vars
    PROVE  Modes'
<1>1. Modes /\ Types /\ Phases
    BY DEF IInv
<1>2. CASE StartServer \/ Dial
    BY <1>1, <1>2 DEF Modes, WorkerFailed, StartServer, Dial, ReturnWith
<1>3. CASE Dialed
    BY <1>1, <1>3 DEF Modes, Types, WorkerFailed, Dialed
<1>4. CASE Loop \/ Call
    BY <1>1, <1>4 DEF Modes, WorkerFailed, Loop, Call, ReturnWith
<1>5. CASE JoinWorkers \/ SetBytes
    BY <1>1, <1>5 DEF Modes, WorkerFailed, JoinWorkers, SetBytes, ReturnWith
<1>6. CASE Receive
    BY <1>1, <1>6 DEF Modes, Types, WorkerFailed, Receive
<1>7. CASE Finish
    BY <1>1, <1>7 DEF Modes, WorkerFailed, Finish
<1>8. CASE Cleanup \/ CleanupTimeout
    BY <1>1, <1>8 DEF Modes, WorkerFailed, Phases, Cleanup, CleanupTimeout
<1>9. ASSUME NEW w \in Workers, WorkerStep(w) PROVE Modes'
  <2>1. wpc[w] \notin {"none", "exit"} /\ UNCHANGED <<mode, mpc, cctx, ret>>
    BY <1>9 DEF WorkerStep, Take, ClaimNext, WorkerCall, Send
  <2>2. mpc = "parallel" /\ mode = "parallel" /\ ~cctx
    BY <1>1, <2>1 DEF Modes, Phases
  <2>3. \A v \in Workers : wpc'[v] = "none" => wpc[v] = "none" /\ cnt'[v] = cnt[v]
    <3>1. wpc \in [Workers -> {"none", "take", "next", "call", "send", "exit"}]
          /\ cnt \in [Workers -> 0..Iters]
      BY <1>1 DEF Types, IInv, Numbers
    <3>2. wpc'[w] # "none"
      BY <1>9, <3>1 DEF WorkerStep, Take, ClaimNext, WorkerCall, Send
    <3>3. \A v \in Workers \ {w} : wpc'[v] = wpc[v] /\ cnt'[v] = cnt[v]
      <4>1. CASE Take(w) \/ ClaimNext(w)
        BY <3>1, <4>1 DEF Take, ClaimNext
      <4>2. CASE WorkerCall(w) \/ Send(w)
        BY <3>1, <4>2 DEF WorkerCall, Send
      <4> QED BY <1>9, <4>1, <4>2 DEF WorkerStep
    <3> QED BY <3>2, <3>3
  <2> QED BY <1>1, <2>1, <2>2, <2>3 DEF Modes, WorkerFailed
<1>10. CASE ServerReturns \/ UNCHANGED vars
    BY <1>1, <1>10 DEF Modes, WorkerFailed, ServerReturns, Server!Return, vars
<1> QED BY <1>2, <1>3, <1>4, <1>5, <1>6, <1>7, <1>8, <1>9, <1>10 DEF Next, MainStep

LEMMA ExhaustedStep ==
    ASSUME IInv, [Next]_vars
    PROVE  Exhausted'
<1>1. Exhausted /\ Types /\ Modes /\ Phases /\ Numbers
    BY DEF IInv
<1>2. Len(totals) \in Nat /\ got \in Nat /\ iters \in Nat
    BY <1>1 DEF Numbers
<1>3. ASSUME UNCHANGED <<got, totals, wpc, iters, mode>>, mpc' = "setbytes" => mpc = "setbytes"
      PROVE  Exhausted'
    BY <1>1, <1>3 DEF Exhausted
<1>4. CASE StartServer \/ Dial \/ Call \/ JoinWorkers \/ SetBytes
    BY <1>3, <1>4 DEF StartServer, Dial, Call, JoinWorkers, SetBytes, ReturnWith
<1>5. CASE Finish \/ Cleanup \/ CleanupTimeout \/ ServerReturns \/ UNCHANGED vars
    BY <1>3, <1>5 DEF Finish, Cleanup, CleanupTimeout, ServerReturns, vars
<1>6. CASE Dialed
    BY <1>1, <1>6 DEF Exhausted, Modes, Types, Dialed
<1>7. CASE Loop
  <2>1. mode = "sequential" /\ mode' = mode /\ UNCHANGED <<got, totals, wpc>>
    BY <1>1, <1>7 DEF Modes, Loop
  <2>2. iters = 0 => iters' = 0
    BY <1>7 DEF Loop
  <2>3. mpc' = "setbytes" => iters' = 0
    BY <1>2, <1>7 DEF Loop
  <2> QED BY <1>1, <2>1, <2>2, <2>3 DEF Exhausted
<1>8. CASE Receive
  <2>1. mode = "parallel" /\ UNCHANGED <<mode, wpc, iters>> /\ mpc = "totals"
    BY <1>1, <1>8 DEF Modes, Receive, workVars
  <2>2. CASE totals # <<>> /\ totals' = Tail(totals) /\ got' = got + 1 /\ UNCHANGED mpc
    <3>1. got + Len(totals) > 0
      <4>1. totals \in Seq(0..Iters)
        BY <1>1 DEF Numbers
      <4> QED BY <1>2, <2>2, <4>1
    <3> QED BY <1>1, <2>1, <2>2, <3>1 DEF Exhausted
  <2>3. CASE UNCHANGED <<totals, got>> /\ got = NbClients
    BY <1>1, <2>1, <2>3 DEF Exhausted
  <2> QED BY <1>8, <2>2, <2>3 DEF Receive
<1>9. ASSUME NEW w \in Workers, WorkerStep(w) PROVE Exhausted'
  <2>1. wpc[w] \notin {"none", "exit"} /\ UNCHANGED <<mode, mpc, got>>
    BY <1>9 DEF WorkerStep, Take, ClaimNext, WorkerCall, Send
  <2>2. mpc' = "parallel"
    BY <1>1, <2>1 DEF Phases
  <2>3. CASE Take(w) \/ WorkerCall(w)
    <3>1. \A v \in Workers : wpc'[v] = "send" => wpc[v] = "send"
      BY <1>1, <2>3 DEF Types, Take, WorkerCall
    <3>2. UNCHANGED <<totals, iters>>
      BY <2>3 DEF Take, WorkerCall
    <3> QED BY <1>1, <2>1, <2>2, <3>1, <3>2 DEF Exhausted
  <2>4. CASE ClaimNext(w)
    <3>1. UNCHANGED totals /\ (iters = 0 => iters' = 0)
      BY <2>4 DEF ClaimNext
    <3>2. \A v \in Workers : wpc'[v] = "send" => wpc[v] = "send" \/ iters' = 0
      <4>1. CASE iters > 0 /\ wpc' = [wpc EXCEPT ![w] = "call"]
        BY <1>1, <4>1 DEF Types
      <4>2. CASE ~(iters > 0) /\ UNCHANGED iters
        BY <1>2, <4>2
      <4> QED BY <2>4, <4>1, <4>2 DEF ClaimNext
    <3> QED BY <1>1, <2>1, <2>2, <3>1, <3>2 DEF Exhausted
  <2>5. CASE Send(w)
    <3>1. iters' = 0
      BY <1>1, <2>5 DEF Exhausted, Send
    <3> QED BY <2>2, <3>1 DEF Exhausted
  <2> QED BY <1>9, <2>3, <2>4, <2>5 DEF WorkerStep
<1> QED BY <1>4, <1>5, <1>6, <1>7, <1>8, <1>9 DEF Next, MainStep

(* The workers that have ended are finitely many, at most NbClients. *)
LEMMA EndedIsFinite ==
    /\ IsFiniteSet(Ended) /\ Cardinality(Ended) \in Nat
    /\ Cardinality(Ended) <= NbClients
<1>1. IsFiniteSet(Workers) /\ Cardinality(Workers) = NbClients
    BY NbClientsAssumption, FS_Interval
<1>2. Ended \subseteq Workers
    BY DEF Ended
<1> HIDE DEF Workers
<1> QED BY <1>1, <1>2, FS_Subset, FS_CardinalityType

LEMMA CountedStep ==
    ASSUME IInv, [Next]_vars
    PROVE  Counted'
<1>1. Counted /\ Types /\ Modes /\ Phases /\ Numbers
    BY DEF IInv
<1>2. Len(totals) \in Nat /\ got \in Nat /\ totals \in Seq(0..Iters)
    BY <1>1 DEF Numbers
<1>3. ASSUME got' + Len(totals') = got + Len(totals), Ended' = Ended,
             WorkerFailed' => WorkerFailed
      PROVE  Counted'
    BY <1>1, <1>3 DEF Counted
<1>4. Ended' = Ended \/ wpc' # wpc
    BY DEF Ended
<1>5. CASE StartServer \/ Dial \/ Loop \/ Call \/ JoinWorkers \/ SetBytes
    BY <1>3, <1>4, <1>5
       DEF WorkerFailed, StartServer, Dial, Loop, Call, JoinWorkers, SetBytes, ReturnWith
<1>6. CASE Finish \/ Cleanup \/ CleanupTimeout
    BY <1>1, <1>3, <1>4, <1>6 DEF Phases, WorkerFailed, Finish, Cleanup, CleanupTimeout
<1>7. CASE ServerReturns \/ UNCHANGED vars
    BY <1>3, <1>4, <1>7 DEF WorkerFailed, ServerReturns, Server!Return, vars
<1>8. CASE Dialed
  <2>1. Ended' = Ended
    BY <1>1, <1>8 DEF Modes, Types, Ended, Dialed
  <2> QED BY <1>3, <1>8, <2>1 DEF WorkerFailed, Dialed
<1>9. CASE Receive
  <2>1. got' + Len(totals') = got + Len(totals)
    BY <1>2, <1>9 DEF Receive
  <2> QED BY <1>3, <1>4, <1>9, <2>1 DEF WorkerFailed, Receive
<1>10. ASSUME NEW w \in Workers, WorkerStep(w) PROVE Counted'
  <2>1. wpc[w] \notin {"none", "exit"} /\ UNCHANGED <<mode, cctx, got>>
    BY <1>10 DEF WorkerStep, Take, ClaimNext, WorkerCall, Send
  <2>2. ASSUME wpc' = [wpc EXCEPT ![w] = "exit"]
        PROVE  Cardinality(Ended') = Cardinality(Ended) + 1
    <3>1. Ended' = Ended \cup {w} /\ w \notin Ended
      BY <1>1, <2>1, <2>2 DEF Types, Ended
    <3> QED BY <3>1, EndedIsFinite, FS_AddElement
  <2>3. CASE Take(w) \/ ClaimNext(w)
    <3>1. Ended' = Ended /\ UNCHANGED <<totals, failed>>
      BY <1>1, <2>3 DEF Types, Ended, Take, ClaimNext
    <3> QED BY <1>3, <2>1, <3>1 DEF WorkerFailed
  <2>4. CASE WorkerCall(w)
    <3>1. UNCHANGED totals
      BY <2>4 DEF WorkerCall
    <3>2. CASE wpc' = [wpc EXCEPT ![w] = "next"] /\ UNCHANGED failed
      <4>1. Ended' = Ended
        BY <1>1, <2>1, <3>2 DEF Types, Ended
      <4> QED BY <1>3, <2>1, <3>1, <3>2, <4>1 DEF WorkerFailed
    <3>3. CASE wpc' = [wpc EXCEPT ![w] = "exit"]
      <4>1. got' + Len(totals') < Cardinality(Ended')
        BY <1>1, <1>2, <2>1, <2>2, <3>1, <3>3, EndedIsFinite DEF Counted
      <4>2. Cardinality(Ended') \in Nat
        BY <2>2, <3>3, EndedIsFinite
      <4> QED BY <1>2, <2>1, <3>1, <4>1, <4>2 DEF Counted
    <3> QED BY <2>4, <3>2, <3>3 DEF WorkerCall
  <2>5. CASE Send(w)
    <3>1. wpc' = [wpc EXCEPT ![w] = "exit"] /\ UNCHANGED failed /\ Len(totals') = Len(totals) + 1
      BY <1>2, <2>5 DEF Send
    <3>2. WorkerFailed' => WorkerFailed
      BY <2>1, <3>1 DEF WorkerFailed
    <3>3. /\ got' + Len(totals') = got + Len(totals) + 1
          /\ Cardinality(Ended') = Cardinality(Ended) + 1
      BY <1>2, <2>1, <2>2, <3>1
    <3> QED BY <1>1, <1>2, <3>2, <3>3, EndedIsFinite DEF Counted
  <2> QED BY <1>10, <2>3, <2>4, <2>5 DEF WorkerStep
<1> QED BY <1>5, <1>6, <1>7, <1>8, <1>9, <1>10 DEF Next, MainStep

-----------------------------------------------------------------------------
(* The theorems. *)

(* Every reachable state satisfies the inductive invariant. *)
THEOREM Invariance == Spec => []IInv
<1>1. IInv /\ [Next]_vars => IInv'
    BY TypesStep, OneOwnerStep, PhasesStep, OutcomeStep, NumbersStep, ConservedStep,
       ModesStep, ExhaustedStep, CountedStep DEF IInv
<1> QED BY InitIsTyped, <1>1, PTL DEF Spec

(* The variables keep their types, and no count exceeds the number of iterations,
   whichever way the workers compete for them and whether or not calls fail. *)
THEOREM TypeCorrect == Spec => []TypeOK
<1>1. IInv => TypeOK
  <2>1. ASSUME IInv PROVE TypeOK
    BY <2>1 DEF IInv, Types, Numbers, TypeOK
  <2> QED BY <2>1
<1> QED BY Invariance, <1>1, PTL

(* The divisor of the averages is the number of calls that were made: when RunCase
   reports, every iteration was counted once, in its worker's N and in the sum, and
   there was at least one (bench_runner.go:133-196). *)
THEOREM CallsCounted == Spec => []EveryCallCounted
<1> USE NbClientsAssumption, ItersAssumption
<1>1. ASSUME IInv, mpc = "setbytes" PROVE N = Iters /\ N > 0
  <2>1. /\ Types /\ Numbers /\ Conserved /\ Modes /\ Exhausted /\ Counted /\ Phases
        /\ ret = "none" /\ ~cctx
    BY <1>1 DEF IInv, Modes, Phases
  <2>2. PICK owed, sent \in Nat :
          /\ Adds(Owed, NbClients, owed) /\ Adds(totals, Len(totals), sent)
          /\ ~failed /\ ret # "err" => AtHand + owed + sent = Iters
    BY <2>1, Books
  <2>3. got \in Nat /\ Len(totals) \in Nat /\ totals \in Seq(0..Iters) /\ N \in Nat
    BY <2>1 DEF Numbers
  <2>4. ~failed /\ iters = 0 /\ totals = <<>>
    <3>1. CASE mode = "sequential"
      BY <1>1, <2>1, <3>1 DEF Modes, Exhausted, WorkerFailed
    <3>2. CASE mode # "sequential"
      <4>1. got = NbClients
        BY <1>1, <2>1, <3>2 DEF Exhausted
      <4>2. ~WorkerFailed /\ Len(totals) = 0
        BY <2>1, <2>3, <4>1, EndedIsFinite DEF Counted
      <4>3. iters = 0
        BY <2>1, <2>3, <4>1 DEF Exhausted
      <4> QED BY <2>1, <2>3, <4>2, <4>3 DEF Modes
    <3> QED BY <3>1, <3>2
  <2>5. owed = 0
    <3>1. Owed \in [1..NbClients -> Nat]
      BY <2>1, Books
    <3>2. \A w \in 1..NbClients : Owed[w] = 0
      BY <1>1, <2>1 DEF Phases, Modes, Owed
    <3> QED BY <2>2, <3>1, <3>2, SumOfZeros
  <2>6. sent = 0
    <3>1. Len(totals) = 0
      BY <2>4
    <3> QED BY <2>2, <3>1, SumOfNone
  <2>7. AtHand = iters + N + 0
    BY <1>1 DEF AtHand
  <2>8. N = Iters
    BY <2>1, <2>2, <2>3, <2>4, <2>5, <2>6, <2>7
  <2> QED BY <2>8
<1>2. IInv => EveryCallCounted
    BY <1>1 DEF EveryCallCounted
<1> QED BY Invariance, <1>2, PTL

(* "A client will only ever by used by a single goroutine to make calls": no two
   workers hold the same client, however many there are (bench_runner.go:163). *)
THEOREM ClientsNotShared == Spec => []OneGoroutinePerClient
<1>1. IInv => OneGoroutinePerClient
    BY DEF IInv, OneOwner
<1> QED BY Invariance, <1>1, PTL

(* The context, and with it every connection, ends when no call is under way:
   RunCase does not return while a worker is inside one. *)
THEOREM CallsEndBeforeContext == Spec => []NoCallAfterCancel
<1>1. IInv => NoCallAfterCancel
    BY DEF IInv, Phases, NoCallAfterCancel
<1> QED BY Invariance, <1>1, PTL

(* A benchmark that passes had a server that ended without an error, and in time
   (the cleanup of newServerHarness). *)
THEOREM FaultsFail == Spec => []ServerFaultFails
<1>1. IInv => ServerFaultFails
    BY DEF IInv, Outcome
<1> QED BY Invariance, <1>1, PTL
=============================================================================
