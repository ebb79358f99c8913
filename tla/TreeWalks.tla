----------------------------- MODULE TreeWalks -----------------------------
(***************************************************************************)
(* The tree functions as the code writes them: each handles the node at p  *)
(* and calls itself for one child after the other, on storage that its     *)
(* earlier steps have already changed.  Trees defines their results        *)
(* position by position; TLC evaluates the assumptions below, that the two *)
(* agree on every pair of small trees, with hidden nodes and without.      *)
(***************************************************************************)
EXTENDS Trees, SequencesExt

Kids(t, p) == [i \in 1..t[p].len |-> Append(p, i)]

Below(t, p) == { q \in DOMAIN t : q # p /\ IsPrefix(p, q) }

\* InitChildren of the node at p when the slice is too short: a new array, or with
\* "grow" a longer one that holds the old elements.
Replace(t, p, n, grow) ==
  LET old == IF grow THEN DOMAIN t ELSE DOMAIN t \ Below(t, p)
      new == { Append(p, i) : i \in 1..n }
  IN  [q \in old \cup new |->
         IF q = p THEN [t[p] EXCEPT !.len = n, !.cap = n]
         ELSE IF q \in old THEN t[q] ELSE Node(0)]

InitChildrenAt(t, p, n, grow) ==
  IF t[p].cap >= n THEN [t EXCEPT ![p].len = n] ELSE Replace(t, p, n, grow)

RECURSIVE CopyAt(_, _, _, _)
CopyAt(from, to, p, grow) ==
  FoldLeft(LAMBDA t, q : CopyAt(from, t, q, grow),
           InitChildrenAt([to EXCEPT ![p].val = from[p].val], p, from[p].len, grow),
           Kids(from, p))

RECURSIVE DecodeAt(_, _, _)
DecodeAt(msg, to, p) ==
  LET t == [to EXCEPT ![p].val = msg[p].val]
      n == msg[p].len
  IN  FoldLeft(LAMBDA s, q : DecodeAt(msg, s, q),
               IF n = 0 THEN Replace(t, p, 0, FALSE) ELSE InitChildrenAt(t, p, n, TRUE),
               Kids(msg, p))

RECURSIVE ResetAt(_, _)
ResetAt(t, p) == [FoldLeft(ResetAt, t, Kids(t, p)) EXCEPT ![p].len = 0]

RECURSIVE TotalNodesAt(_, _)
TotalNodesAt(t, p) ==
  FoldLeft(LAMBDA sum, q : sum + TotalNodesAt(t, q), 1, Kids(t, p))

RECURSIVE MultAt(_, _, _)
MultAt(t, p, m) ==
  FoldLeft(LAMBDA s, q : MultAt(s, q, m), [t EXCEPT ![p].val = Wrap(@ * m)], Kids(t, p))

RECURSIVE WriteAt(_, _)
WriteAt(t, p) == FoldLeft(LAMBDA out, q : out \o WriteAt(t, q), <<t[p].val>>, Kids(t, p))

\* The reader and the tree, one value further.
RECURSIVE ReadAt(_, _)
ReadAt(in, p) ==
  FoldLeft(ReadAt,
           [ints |-> Tail(in.ints), tree |-> [in.tree EXCEPT ![p].val = Head(in.ints)]],
           Kids(in.tree, p))

RECURSIVE DenseAt(_, _, _, _)
DenseAt(src, p, density, level) ==
  IF level <= 0 THEN src
  ELSE LET t == InitChildrenAt(src, p, density, FALSE)
       IN  FoldLeft(LAMBDA s, q : DenseAt(s, q, density, level - 1), t, Kids(t, p))

\* The trees that one step of the loop, and then the next, can come up with.
RECURSIVE RandomAt(_, _, _, _)
RandomAt(src, p, level, branching) ==
  IF level <= 0 \/ branching <= 0 THEN {src}
  ELSE LET child(s, q) == UNION { RandomAt(s, q, level - 1, branching - r) :
                                    r \in IntN(branching \div 2) }
           loop(t) == FoldLeft(LAMBDA S, q : UNION { child(s, q) : s \in S },
                               {t}, Kids(t, p))
       IN  UNION { loop(InitChildrenAt(src, p, c, FALSE)) : c \in IntN(branching) }

-----------------------------------------------------------------------------
\* Trees that are copied or sent, and storages that two calls have left.
Sources ==
  { PopulateWithRand(t, seed) :
      t \in MakeRandomTree(RandomLevels, Branching)
              \cup {Chain(Depth), MakeDenseTreeNode(Density, DenseLevels)},
      seed \in Seeds }

Storages ==
  UNION { { CopyAt(b, CopyAt(a, Zero, <<>>, FALSE), <<>>, TRUE),
            CopyAt(b, ResetAt(a, <<>>), <<>>, FALSE) } : a \in Sources, b \in Sources }

\* What is written over a storage, by each of the three ways to write.
ASSUME WritingAgrees ==
  \A from \in Sources, to \in Storages :
    /\ CopyTree(from, to) = CopyAt(from, to, <<>>, FALSE)
    /\ CopyTreeGrow(from, to) = CopyAt(from, to, <<>>, TRUE)
    /\ Decode(from, to) = DecodeAt(from, to, <<>>)

\* The walks over one tree.
ASSUME WalkingAgrees ==
  \A t \in Storages :
    /\ Reset(t) = ResetAt(t, <<>>)
    /\ TotalNodes(t) = TotalNodesAt(t, <<>>)
    /\ WriteTree(t) = WriteAt(t, <<>>)
    /\ LET ints == [i \in 1..TotalNodes(t) |-> Wrap(3 * i)]
       IN  ReadTree(ints, t) = ReadAt([ints |-> ints, tree |-> t], <<>>).tree
    /\ \A m \in Mults : Mult(t, m) = MultAt(t, <<>>, m)

\* The harness's trees.
ASSUME HarnessAgrees ==
  \A level \in 0..RandomLevels, branching \in 0..(Branching + 1) :
    /\ MakeRandomTree(level, branching) = RandomAt(Zero, <<>>, level, branching)
    /\ MakeDenseTreeNode(branching, level) = DenseAt(Zero, <<>>, branching, level)

=============================================================================
