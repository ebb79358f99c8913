------------------------------- MODULE Trees -------------------------------
(***************************************************************************)
(* MultTreeValues over a sequence of calls of one client, for every RPC    *)
(* system.  The systems differ in which storage they keep from one call to *)
(* the next: slices are truncated and later revealed again, requests are   *)
(* overwritten by their replies, decoders write into what an earlier call  *)
(* left.  Storage is explicit here.  A tree maps positions to nodes: <<>>  *)
(* is the root's, Append(p, i) that of the i-th child of the node at p,    *)
(* for i up to the capacity of its slice; its first len are visible.       *)
(*                                                                         *)
(* What is copied or sent is a tree without hidden nodes.  Errors of the   *)
(* connection are left out: a call that fails ends the benchmark.          *)
(***************************************************************************)
EXTENDS Integers, FiniteSets, Sequences

CONSTANTS
  Depth, Broad,             \* chain and broad tree of newClientHarness (64, 64)
  Density, DenseLevels,     \* its dense tree (5, 6)
  Branching, RandomLevels,  \* its random tree (5, 8)
  Values,                   \* how many values an integer has (2^64)
  Seeds, Mults              \* what the random generator yields

ASSUME TreesAssumption ==
  /\ {Depth, Broad, Density, DenseLevels, Branching, RandomLevels} \subseteq Nat
  /\ Values \in Nat \ {0}
  /\ Seeds \subseteq Nat /\ Mults \subseteq Nat

Wrap(n) == n % Values

Kinds == {"tcp, http1, ws", "wsjson", "grpc", "gocapnp", "mdcapnp", "mdcapl0"}

-----------------------------------------------------------------------------
\* Trees.

Node(n) == [val |-> 0, len |-> n, cap |-> n]

\* A new tree; its only node is also what an array element is before its first use.
Zero == [p \in {<<>>} |-> Node(0)]

\* The k-th step of p starts at Above(p, k); Path(p) is all the nodes it meets.
Above(p, k) == SubSeq(p, 1, k - 1)
Path(p) == { SubSeq(p, 1, k) : k \in 0..Len(p) }

\* The nodes a walk from the root meets.
Visible(t) == { p \in DOMAIN t : \A k \in 1..Len(p) : p[k] <= t[Above(p, k)].len }

\* What another process, or an encoder, sees of a tree.
View(t) == [p \in Visible(t) |-> [t[p] EXCEPT !.cap = t[p].len]]

TotalNodes(t) == Cardinality(Visible(t))

InitChildren(node, n) ==
  [node EXCEPT !.len = n, !.cap = IF @ >= n THEN @ ELSE n]

\* Gives "to" the values and children of "from"; of what lies there, only the
\* nodes of "kept" are still the old ones when the walk comes to them.
Overwrite(from, to, kept) ==
  [p \in DOMAIN from \cup kept |->
     IF p \notin DOMAIN from THEN to[p]
     ELSE [InitChildren(IF p \in kept THEN to[p] ELSE Node(0), from[p].len)
             EXCEPT !.val = from[p].val]]

\* TreeNodeImpl and the mdcapnp adapters replace a slice that is too short, and
\* with it all that is below.
KeptIfRoom(from, to) ==
  { p \in DOMAIN to : \A q \in Path(p) \cap DOMAIN from : to[q].cap >= from[q].len }

\* gRPC's adapter grows it: slices.Grow keeps the nodes there are.
CopyTreeGrow(from, to) == Overwrite(from, to, DOMAIN to)

CopyTree(from, to) == Overwrite(from, to, KeptIfRoom(from, to))

\* encoding/json into a tree: an array is decoded into the elements the slice has,
\* hidden ones too, and then truncates it; "null" and "[]" drop its storage.
Decode(msg, t) ==
  Overwrite(msg, t,
    { p \in DOMAIN t : \A q \in Path(p) \cap DOMAIN msg : msg[q].len > 0 })

Reset(t) ==
  LET V == Visible(t)
  IN  [p \in DOMAIN t |-> IF p \in V THEN [t[p] EXCEPT !.len = 0] ELSE t[p]]

Mult(t, m) ==
  LET V == Visible(t)
  IN  [p \in DOMAIN t |->
         IF p \in V THEN [t[p] EXCEPT !.val = Wrap(@ * m)] ELSE t[p]]

-----------------------------------------------------------------------------
\* The servers' MultTree, from the tree of a request to that of the reply.

\* The decoded request is the reply.
GRPCMultTree(m, req) == Mult(req, m)

\* The request is multiplied where it lies and then copied to the results.
GoCapnpMultTree(m, req) == CopyTree(Mult(req, m), Zero)

\* The results are built while the request is read.
MDCapnpMultTree(m, in) ==
  [p \in DOMAIN in |->
     [InitChildren(Node(0), in[p].len) EXCEPT !.val = Wrap(in[p].val * m)]]

-----------------------------------------------------------------------------
\* The binary form: the values of the visible nodes, parents first.

\* p is met before q: above it, or in a smaller child where they part.
Before(p, q) ==
  \E k \in 1..Len(q) :
    /\ k <= Len(p) + 1
    /\ \A j \in 1..(k - 1) : p[j] = q[j]
    /\ k <= Len(p) => p[k] < q[k]

\* The number of p in a walk over the positions P.
Rank(P, p) == Cardinality({ q \in P : q = p \/ Before(q, p) })

WriteTree(t) ==
  LET V == Visible(t)
  IN  [n \in 1..TotalNodes(t) |-> t[CHOOSE p \in V : Rank(V, p) = n].val]

\* The shape is not sent: the reader's tree has it already.
ReadTree(ints, t) ==
  LET V == Visible(t)
  IN  [p \in DOMAIN t |->
         IF p \in V THEN [t[p] EXCEPT !.val = ints[Rank(V, p)]] ELSE t[p]]

WriteMultTreeRequest(m, t) == <<m, TotalNodes(t)>> \o WriteTree(t)

DoMultTreeRequest(ints) ==
  LET m == ints[1]
      totalNodes == ints[2]
  IN  [i \in 1..totalNodes |-> Wrap(ints[i + 2] * m)]

\* Successive values of the generator: neighbours differ.
PopulateWithRand(t, seed) ==
  ReadTree([i \in 1..TotalNodes(t) |-> Wrap(seed + i)], t)

-----------------------------------------------------------------------------
\* The harness: its trees and its check.

\* The positions of at most n steps, each to one of the first c children.
Box(c, n) == UNION { [1..k -> 1..c] : k \in 0..n }

MakeDenseTreeNode(density, level) ==
  [p \in Box(density, level) |-> Node(IF Len(p) < level THEN density ELSE 0)]

Chain(n) == MakeDenseTreeNode(1, n)

IntN(n) == 0..(n - 1)

\* Every tree the generator can come up with.  A child's branching is its parent's
\* less r \in IntN(branching \div 2): r = 0 allows all that any other r allows.
MakeRandomTree(level, branching) ==
  IF level = 0 \/ branching = 0 THEN {Zero}
  ELSE LET inner == Box(branching - 1, level - 1)
           shape(c) == { p \in Box(branching - 1, level) :
                           \A k \in 1..Len(p) : p[k] <= c[Above(p, k)] }
       IN  { [p \in shape(c) |-> Node(IF p \in inner THEN c[p] ELSE 0)] :
               c \in [inner -> IntN(branching)] }

\* Mutant of TreeMatchesForMult: surplus children of the reply go unnoticed.
MatchesIgnoringMore(src, tgt, m) ==
  \A p \in Visible(src) \cap Visible(tgt) :
    Wrap(tgt[p].val * m) = src[p].val /\ tgt[p].len <= src[p].len

\* The walk goes on while the counts agree, and so as long as both have the node.
TreeMatchesForMult(src, tgt, m) ==
  \A p \in Visible(src) \cap Visible(tgt) :
    Wrap(tgt[p].val * m) = src[p].val /\ tgt[p].len = src[p].len

-----------------------------------------------------------------------------
VARIABLES
  kind,       \* the RPC system
  testTrees,  \* benchClient.testTrees
  chosen,     \* benchClient.chosenTestTree, 0 before the first call
  mult,       \* the mult of that call
  tree,       \* storage of the request: wsClient.tree, grpcClient.tree, buildTree
  readTree,   \* storage of the reply: clientLevel0.readTree
  served,     \* storage in the server: multReq.Tree of runJsonConn
  reply       \* the tree MultTreeValues returned, as the harness sees it

vars == <<kind, testTrees, chosen, mult, tree, readTree, served, reply>>

Init ==
  /\ kind \in Kinds
  /\ \E r \in MakeRandomTree(RandomLevels, Branching) :
       testTrees = <<Zero, Chain(Depth), MakeDenseTreeNode(Broad, 1),
                     MakeDenseTreeNode(Density, DenseLevels), r>>
  /\ chosen = 0 /\ mult = 0
  /\ tree = Zero /\ readTree = Zero /\ served = Zero /\ reply = Zero

\* Mutant of Choose: IntN(len(testTrees)+1), an index past the end.
ChooseOnePast(i, m, arg) ==
  /\ chosen' = i + 1
  /\ mult' = m
  /\ testTrees' = [testTrees EXCEPT ![i] = arg]
  /\ UNCHANGED kind

\* makeCall up to the call; "arg" is the tree that fillArgs will copy.
Choose(i, m, arg) ==
  /\ chosen' = i
  /\ mult' = m
  /\ testTrees' = [testTrees EXCEPT ![i] = arg]
  /\ UNCHANGED kind

\* Mutant of BinaryCall: the request is written over the last one as it is.
BinaryCallNoReset(m, arg) ==
  LET filled == CopyTree(arg, tree)
      ints   == DoMultTreeRequest(WriteMultTreeRequest(m, filled))
  IN  /\ kind = "tcp, http1, ws"
      /\ tree' = ReadTree(ints, filled)
      /\ reply' = View(tree')
      /\ UNCHANGED <<readTree, served>>

\* The reply is read over the request.
BinaryCall(m, arg) ==
  LET filled == CopyTree(arg, Reset(tree))
      ints   == DoMultTreeRequest(WriteMultTreeRequest(m, filled))
  IN  /\ kind = "tcp, http1, ws"
      /\ tree' = ReadTree(ints, filled)
      /\ reply' = View(tree')
      /\ UNCHANGED <<readTree, served>>

\* Both sides decode into trees of earlier calls; only the client resets its own.
JSONCall(m, arg) ==
  LET filled == CopyTree(arg, Reset(tree))
  IN  /\ kind = "wsjson"
      /\ served' = Mult(Decode(View(filled), served), m)
      /\ tree' = Decode(View(served'), Reset(filled))
      /\ reply' = View(tree')
      /\ UNCHANGED readTree

\* The request's nodes are reused, without a Reset; the reply is new.
GRPCCall(m, arg) ==
  /\ kind = "grpc"
  /\ tree' = CopyTreeGrow(arg, tree)
  /\ reply' = GRPCMultTree(m, View(tree'))
  /\ UNCHANGED <<readTree, served>>

\* The request is built in the message, and the reply is read from its message.
GoCapnpCall(m, arg) ==
  /\ kind = "gocapnp"
  /\ reply' = View(GoCapnpMultTree(m, View(CopyTree(arg, Zero))))
  /\ UNCHANGED <<tree, readTree, served>>

\* Mutant of ResetReader: a leaf does not initialise its children.
ResetReaderSkipLeaf(msg, t) ==
  LET kept == KeptIfRoom(msg, t)
      r    == Overwrite(msg, t, kept)
  IN  [p \in DOMAIN r |->
         IF p \in DOMAIN msg \cap kept /\ msg[p].len = 0
         THEN [t[p] EXCEPT !.val = msg[p].val] ELSE r[p]]

\* reset() binds a reader's nodes to the message, and sizes them as InitChildren.
ResetReader(msg, t) == CopyTree(msg, t)

\* Both adapters are new in every call.
MDCapnpCall(m, arg) ==
  /\ kind = "mdcapnp"
  /\ LET res == MDCapnpMultTree(m, View(CopyTree(arg, Zero)))
     IN  reply' = View(ResetReader(res, Zero))
  /\ UNCHANGED <<tree, readTree, served>>

\* Both adapters are those of the call before.
Level0Call(m, arg) ==
  /\ kind = "mdcapl0"
  /\ tree' = CopyTree(arg, tree)
  /\ \E res \in {MDCapnpMultTree(m, View(tree'))} :  \* so that TLC evaluates it once
       readTree' = ResetReader(res, readTree)
  /\ reply' = View(readTree')
  /\ UNCHANGED served

Next ==
  \E i \in DOMAIN testTrees, seed \in Seeds, m \in Mults :
    LET arg == PopulateWithRand(testTrees[i], seed)
    IN  /\ Choose(i, m, arg)
        /\ \/ BinaryCall(m, arg)
           \/ JSONCall(m, arg)
           \/ GRPCCall(m, arg)
           \/ GoCapnpCall(m, arg)
           \/ MDCapnpCall(m, arg)
           \/ Level0Call(m, arg)

Spec == Init /\ [][Next]_vars

-----------------------------------------------------------------------------
\* Properties.

\* Every slice has an array as long as its capacity, and no node is without parent.
IsTree(t) ==
  /\ IsFiniteSet(DOMAIN t) /\ DOMAIN t \subseteq Seq(Nat \ {0}) /\ <<>> \in DOMAIN t
  /\ t \in [DOMAIN t -> [val : 0..(Values - 1), len : Nat, cap : Nat]]
  /\ \A p \in DOMAIN t :
       /\ t[p].len <= t[p].cap
       /\ \A i \in 1..t[p].cap : Append(p, i) \in DOMAIN t
       /\ \A k \in 1..Len(p) :
            Above(p, k) \in DOMAIN t /\ p[k] <= t[Above(p, k)].cap

\* Types: slices are no longer than their storage, at any depth, in every tree.
TypeOK ==
  /\ kind \in Kinds
  /\ chosen \in 0..Len(testTrees)
  /\ mult \in Mults \cup {0}
  /\ \A i \in DOMAIN testTrees : IsTree(testTrees[i])
  /\ \A t \in {tree, readTree, served, reply} : IsTree(t)

\* A tree as the set of its positions with their values, and the product of
\* one, independently of how the code walks it.
Labels(t) == { <<p, t[p].val>> : p \in Visible(t) }

Product(t, m) == { <<l[1], Wrap(l[2] * m)>> : l \in Labels(t) }

\* What interface.go:62-64 promises of MultTreeValues: the reply is the tree of this
\* call with every value multiplied, whatever earlier calls left in the storages:
\* no node, value or child count of another tree comes through.
ReplyIsProduct ==
  chosen # 0 => Labels(reply) = Product(testTrees[chosen], mult)

\* The check of the harness (treenode.go:113-129) accepts a reply exactly if it is
\* the product of the tree it is compared with, of this call or of another.
CheckIsExact ==
  \A i \in DOMAIN testTrees, m \in Mults :
    TreeMatchesForMult(reply, testTrees[i], m) <=>
      Labels(reply) = Product(testTrees[i], m)

NothingHidden(t) == \A p \in DOMAIN t \ Visible(t) : t[p].len = 0

\* Reset "truncates all children, but keeps their storage around"
\* (treenode.go:39): in a client that resets its tree before each use, a node out
\* of sight has no children, however deep, and revealing it reveals a leaf.
HiddenNodesAreLeaves ==
  kind \in {"tcp, http1, ws", "wsjson"} => NothingHidden(tree)

=============================================================================
