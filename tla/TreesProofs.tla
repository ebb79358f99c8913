---------------------------- MODULE TreesProofs ----------------------------
(***************************************************************************)
(* Proofs about Trees: the reply of MultTreeValues is the product of the   *)
(* tree of its call whatever lies in the reused storages, and the check of *)
(* the harness is exact, for trees of any size and any number of values.   *)
(***************************************************************************)
EXTENDS Trees, SequenceTheorems, FiniteSetTheorems, WellFoundedInduction, TLAPS

Positions == Seq(Nat \ {0})

-----------------------------------------------------------------------------
(* Induction over the naturals, and their least elements.                  *)

Smaller == {ss \in Nat \X Nat : ss[1] < ss[2]}

LEMMA SmallerIsWellFounded == IsWellFoundedOn(Smaller, Nat)
BY NatLessThanWellFounded DEF OpToRel, Smaller

(* A set of naturals that is not empty has a least element. *)
LEMMA LeastElement ==
    ASSUME NEW S \in SUBSET Nat, S # {}
    PROVE  \E n \in S : \A m \in S : n <= m
<1>1. PICK least \in S : \A y \in S : ~ (<<y, least>> \in Smaller)
    BY SmallerIsWellFounded, WFMin
<1>2. \A y \in S : ~ (y < least)
    BY <1>1 DEF Smaller
<1> QED BY <1>1, <1>2

(* A set that contains 0 and the successor of each of its naturals contains all. *)
LEMMA SetInduction ==
    ASSUME NEW S, 0 \in S, \A n \in Nat : n \in S => n + 1 \in S
    PROVE  Nat \subseteq S
<1> SUFFICES ASSUME Nat \ S # {} PROVE FALSE
    OBVIOUS
<1>1. PICK least \in Nat \ S : \A m \in Nat \ S : least <= m
    BY LeastElement
<1>2. least # 0 /\ least - 1 \in Nat /\ (least - 1) + 1 = least /\ ~ (least <= least - 1)
    BY <1>1
<1> QED BY <1>1, <1>2

-----------------------------------------------------------------------------
(* Positions and the nodes above them.                                     *)

(* The first k steps of a position are a position, with the same nodes above. *)
LEMMA Prefix ==
    ASSUME NEW p \in Positions, NEW k \in 0..Len(p)
    PROVE  /\ SubSeq(p, 1, k) \in Positions
           /\ Len(SubSeq(p, 1, k)) = k
           /\ \A i \in 1..k : SubSeq(p, 1, k)[i] = p[i]
           /\ \A j \in 0..k : SubSeq(SubSeq(p, 1, k), 1, j) = SubSeq(p, 1, j)
<1>1. Len(p) \in Nat /\ \A i \in 1..Len(p) : p[i] \in Nat \ {0}
    BY LenProperties, ElementOfSeq DEF Positions
<1>2. /\ SubSeq(p, 1, k) \in Positions
      /\ Len(SubSeq(p, 1, k)) = k
      /\ \A i \in 1..k : SubSeq(p, 1, k)[i] = p[i]
  <2>1. k \in Int /\ 1 \in Int /\ \A i \in 1..k : p[i] \in Nat \ {0}
      BY <1>1
  <2>2. /\ SubSeq(p, 1, k) \in Seq(Nat \ {0})
        /\ Len(SubSeq(p, 1, k)) = IF 1 <= k THEN k - 1 + 1 ELSE 0
        /\ \A i \in 1..(k - 1 + 1) : SubSeq(p, 1, k)[i] = p[1 + i - 1]
      BY <2>1, SubSeqProperties
  <2> QED BY <1>1, <2>2 DEF Positions
<1>3. ASSUME NEW j \in 0..k
      PROVE  SubSeq(SubSeq(p, 1, k), 1, j) = SubSeq(p, 1, j)
  <2> DEFINE q == SubSeq(p, 1, k)
  <2>1. j \in Int /\ 1 \in Int /\ (\A i \in 1..j : p[i] \in Nat \ {0})
        /\ (\A i \in 1..j : q[i] = p[i])
      BY <1>1, <1>2
  <2>2. /\ SubSeq(p, 1, j) \in Seq(Nat \ {0})
        /\ Len(SubSeq(p, 1, j)) = IF 1 <= j THEN j - 1 + 1 ELSE 0
        /\ \A i \in 1..(j - 1 + 1) : SubSeq(p, 1, j)[i] = p[1 + i - 1]
      BY <2>1, SubSeqProperties
  <2>3. \A i \in 1..j : q[i] \in Nat \ {0}
      BY <2>1
  <2> HIDE DEF q
  <2>4. /\ SubSeq(q, 1, j) \in Seq(Nat \ {0})
        /\ Len(SubSeq(q, 1, j)) = IF 1 <= j THEN j - 1 + 1 ELSE 0
        /\ \A i \in 1..(j - 1 + 1) : SubSeq(q, 1, j)[i] = q[1 + i - 1]
      BY <2>1, <2>3, SubSeqProperties
  <2>5. \A i \in 1..Len(SubSeq(q, 1, j)) : SubSeq(q, 1, j)[i] = SubSeq(p, 1, j)[i]
      BY <2>1, <2>2, <2>4
  <2>6. SubSeq(q, 1, j) = SubSeq(p, 1, j)
      BY <2>2, <2>4, <2>5, SeqEqual
  <2> QED BY <2>6 DEF q
<1> QED BY <1>2, <1>3

(* A position is all of its steps, and its k-th step leads one node further. *)
LEMMA Step ==
    ASSUME NEW p \in Positions
    PROVE  /\ SubSeq(p, 1, Len(p)) = p
           /\ SubSeq(p, 1, 0) = <<>>
           /\ \A k \in 1..Len(p) : p[k] \in Nat \ {0}
                                   /\ SubSeq(p, 1, k) = Append(Above(p, k), p[k])
<1>1. Len(p) \in Nat /\ \A i \in 1..Len(p) : p[i] \in Nat \ {0}
    BY LenProperties, ElementOfSeq DEF Positions
<1>2. SubSeq(p, 1, Len(p)) = p
    BY SubSeqFull DEF Positions
<1>3. SubSeq(p, 1, 0) = <<>>
    BY SubSeqEmpty
<1>4. ASSUME NEW k \in 1..Len(p) PROVE SubSeq(p, 1, k) = Append(Above(p, k), p[k])
  <2> DEFINE q == SubSeq(p, 1, k)
             u == SubSeq(p, 1, k - 1)
  <2>1. k \in 0..Len(p) /\ k - 1 \in 0..Len(p) /\ p[k] \in Nat \ {0}
      BY <1>1
  <2>2. q \in Seq(Nat \ {0}) /\ Len(q) = k /\ \A i \in 1..k : q[i] = p[i]
      BY <2>1, Prefix DEF Positions
  <2>3. u \in Seq(Nat \ {0}) /\ Len(u) = k - 1 /\ \A i \in 1..(k - 1) : u[i] = p[i]
      BY <2>1, Prefix DEF Positions
  <2> HIDE DEF q, u
  <2>4. Append(u, p[k]) \in Seq(Nat \ {0}) /\ Len(Append(u, p[k])) = k
        /\ \A i \in 1..k : Append(u, p[k])[i] = p[i]
      BY <2>1, <2>3
  <2>5. q = Append(u, p[k])
      BY <2>2, <2>4, SeqEqual
  <2> QED BY <2>5 DEF q, u, Above
<1> QED BY <1>1, <1>2, <1>3, <1>4

(* The nodes above a child are its parent and the nodes above that. *)
LEMMA Child ==
    ASSUME NEW p \in Positions, NEW i \in Nat \ {0}
    PROVE  /\ Append(p, i) \in Positions
           /\ Len(Append(p, i)) = Len(p) + 1
           /\ Append(p, i)[Len(p) + 1] = i
           /\ Above(Append(p, i), Len(p) + 1) = p
           /\ \A k \in 1..Len(p) : /\ Append(p, i)[k] = p[k]
                                   /\ Above(Append(p, i), k) = Above(p, k)
           /\ \A k \in 0..Len(p) : SubSeq(Append(p, i), 1, k) = SubSeq(p, 1, k)
           /\ Path(Append(p, i)) = Path(p) \cup {Append(p, i)}
<1> DEFINE c == Append(p, i)
<1>1. Len(p) \in Nat /\ p \in Seq(Nat \ {0})
    BY LenProperties DEF Positions
<1>2. c \in Positions /\ Len(c) = Len(p) + 1 /\ c[Len(p) + 1] = i
      /\ \A k \in 1..Len(p) : c[k] = p[k]
    BY <1>1 DEF Positions
<1> HIDE DEF c
<1>3. ASSUME NEW k \in 0..Len(p) PROVE SubSeq(c, 1, k) = SubSeq(p, 1, k)
  <2>1. k \in 0..Len(c) /\ \A j \in 1..k : c[j] = p[j]
      BY <1>1, <1>2
  <2>2. SubSeq(c, 1, k) \in Seq(Nat \ {0}) /\ Len(SubSeq(c, 1, k)) = k
        /\ \A j \in 1..k : SubSeq(c, 1, k)[j] = c[j]
      BY <1>2, <2>1, Prefix DEF Positions
  <2>3. SubSeq(p, 1, k) \in Seq(Nat \ {0}) /\ Len(SubSeq(p, 1, k)) = k
        /\ \A j \in 1..k : SubSeq(p, 1, k)[j] = p[j]
      BY <2>1, Prefix DEF Positions
  <2> QED BY <2>1, <2>2, <2>3, SeqEqual
<1>4. SubSeq(c, 1, Len(p)) = p /\ SubSeq(c, 1, Len(p) + 1) = c
    BY <1>1, <1>2, <1>3, Step
<1>5. Above(c, Len(p) + 1) = p /\ \A k \in 1..Len(p) : Above(c, k) = Above(p, k)
    BY <1>1, <1>3, <1>4 DEF Above
<1>6. Path(c) = Path(p) \cup {c}
  <2>1. ASSUME NEW k \in 0..Len(c) PROVE SubSeq(c, 1, k) \in Path(p) \cup {c}
      BY <1>1, <1>2, <1>3, <1>4, <2>1 DEF Path
  <2>2. ASSUME NEW k \in 0..Len(p) PROVE SubSeq(p, 1, k) \in Path(c)
      BY <1>1, <1>2, <1>3, <2>2 DEF Path
  <2>3. c \in Path(c)
      BY <1>1, <1>2, <1>4 DEF Path
  <2> QED BY <2>1, <2>2, <2>3 DEF Path
<1> QED BY <1>2, <1>3, <1>5, <1>6 DEF c

(* The nodes above a position, and those above them. *)
LEMMA NodesAbove ==
    ASSUME NEW p \in Positions, NEW k \in 1..Len(p)
    PROVE  /\ Above(p, k) \in Positions
           /\ Len(Above(p, k)) = k - 1
           /\ \A j \in 1..(k - 1) : /\ Above(p, k)[j] = p[j]
                                    /\ Above(Above(p, k), j) = Above(p, j)
           /\ Path(Above(p, k)) \subseteq Path(p)
<1>1. Len(p) \in Nat
    BY LenProperties DEF Positions
<1>2. k - 1 \in 0..Len(p) /\ \A j \in 1..(k - 1) : j - 1 \in 0..(k - 1)
    BY <1>1
<1>3. /\ Above(p, k) \in Positions /\ Len(Above(p, k)) = k - 1
      /\ \A j \in 1..(k - 1) : Above(p, k)[j] = p[j]
      /\ \A j \in 0..(k - 1) : SubSeq(Above(p, k), 1, j) = SubSeq(p, 1, j)
    BY <1>2, Prefix DEF Above
<1>4. \A j \in 1..(k - 1) : Above(Above(p, k), j) = Above(p, j)
    BY <1>2, <1>3 DEF Above
<1>5. Path(Above(p, k)) \subseteq Path(p)
  <2>1. \A j \in 0..(k - 1) : SubSeq(p, 1, j) \in Path(p)
      BY <1>1 DEF Path
  <2> QED BY <1>3, <2>1 DEF Path
<1> QED BY <1>3, <1>4, <1>5

(* A walk from the root that no step leads out of D stays in D. *)
LEMMA WalkDown ==
    ASSUME NEW D, <<>> \in D, NEW p \in Positions,
           \A k \in 1..Len(p) : Above(p, k) \in D => Append(Above(p, k), p[k]) \in D
    PROVE  p \in D /\ \A k \in 1..Len(p) : Above(p, k) \in D
<1> DEFINE S == {k \in Nat : k <= Len(p) => SubSeq(p, 1, k) \in D}
<1>1. Len(p) \in Nat
    BY LenProperties DEF Positions
<1>2. 0 \in S
    BY Step
<1>3. ASSUME NEW k \in Nat, k \in S PROVE k + 1 \in S
  <2> SUFFICES ASSUME k + 1 <= Len(p) PROVE SubSeq(p, 1, k + 1) \in D
      OBVIOUS
  <2>1. k + 1 \in 1..Len(p) /\ (k + 1) - 1 = k /\ SubSeq(p, 1, k) \in D
      BY <1>1, <1>3
  <2>2. Above(p, k + 1) \in D
      BY <2>1 DEF Above
  <2>3. Append(Above(p, k + 1), p[k + 1]) \in D
      BY <2>1, <2>2
  <2>4. Append(Above(p, k + 1), p[k + 1]) = SubSeq(p, 1, k + 1)
      BY <2>1, Step
  <2> QED BY <2>3, <2>4
<1> HIDE DEF S
<1>4. Nat \subseteq S
    BY <1>2, <1>3, SetInduction
<1> USE DEF S
<1>5. \A k \in 0..Len(p) : SubSeq(p, 1, k) \in D
    BY <1>1, <1>4
<1>6. p \in D
  <2>1. SubSeq(p, 1, Len(p)) \in D
      BY <1>1, <1>5
  <2>2. SubSeq(p, 1, Len(p)) = p
      BY Step
  <2> QED BY <2>1, <2>2
<1>7. \A k \in 1..Len(p) : Above(p, k) \in D
    BY <1>1, <1>5 DEF Above
<1> QED BY <1>6, <1>7

-----------------------------------------------------------------------------
(* Trees and what is visible of them.                                      *)

Nodes == [val : 0..(Values - 1), len : Nat, cap : Nat]

(* What Wrap yields is the value of an integer. *)
LEMMA WrapType == ASSUME NEW n \in Nat PROVE Wrap(n) \in 0..(Values - 1)
<1>1. Values \in Nat \ {0}
    BY TreesAssumption
<1> QED BY <1>1 DEF Wrap

LEMMA ProductType ==
    ASSUME NEW v \in 0..(Values - 1), NEW m \in Nat PROVE Wrap(v * m) \in 0..(Values - 1)
<1>1. v \in Nat /\ v * m \in Nat
    BY TreesAssumption
<1> QED BY <1>1, WrapType

(* A tree without hidden nodes: what is copied or sent. *)
Sent(t) == IsTree(t) /\ \A p \in DOMAIN t : t[p].cap = t[p].len

(* The parts of IsTree, and the types of what they are about. *)
LEMMA TreeFacts ==
    ASSUME NEW t, IsTree(t)
    PROVE  /\ IsFiniteSet(DOMAIN t) /\ DOMAIN t \subseteq Positions /\ <<>> \in DOMAIN t
           /\ t = [p \in DOMAIN t |-> t[p]]
           /\ \A p \in DOMAIN t :
                /\ t[p] \in Nodes /\ t[p].len <= t[p].cap
                /\ t[p].val \in 0..(Values - 1) /\ t[p].len \in Nat /\ t[p].cap \in Nat
                /\ \A i \in 1..t[p].cap : Append(p, i) \in DOMAIN t
                /\ \A k \in 1..Len(p) :
                     Above(p, k) \in DOMAIN t /\ p[k] <= t[Above(p, k)].cap
<1>1. t \in [DOMAIN t -> Nodes]
    BY DEF IsTree, Nodes
<1>2. \A p \in DOMAIN t : t[p] \in Nodes
    BY <1>1
<1>3. \A p \in DOMAIN t :
         t[p].val \in 0..(Values - 1) /\ t[p].len \in Nat /\ t[p].cap \in Nat
    BY <1>2 DEF Nodes
<1>4. t = [p \in DOMAIN t |-> t[p]]
    BY <1>1
<1> QED BY <1>2, <1>3, <1>4 DEF IsTree, Positions

(* The other way round. *)
LEMMA TreeFrom ==
    ASSUME NEW t, IsFiniteSet(DOMAIN t), DOMAIN t \subseteq Positions, <<>> \in DOMAIN t,
           t = [p \in DOMAIN t |-> t[p]],
           \A p \in DOMAIN t : t[p] \in Nodes,
           \A p \in DOMAIN t : t[p].len <= t[p].cap,
           \A p \in DOMAIN t : \A i \in 1..t[p].cap : Append(p, i) \in DOMAIN t,
           \A p \in DOMAIN t : \A k \in 1..Len(p) :
             Above(p, k) \in DOMAIN t /\ p[k] <= t[Above(p, k)].cap
    PROVE  IsTree(t)
<1>1. t \in [DOMAIN t -> Nodes]
    OBVIOUS
<1>2. t \in [DOMAIN t -> [val : 0..(Values - 1), len : Nat, cap : Nat]]
    BY <1>1 DEF Nodes
<1>3. IsFiniteSet(DOMAIN t) /\ DOMAIN t \subseteq Seq(Nat \ {0}) /\ <<>> \in DOMAIN t
    BY DEF Positions
<1> QED BY <1>2, <1>3 DEF IsTree

(* The visible nodes: the root, what is above a visible node, and the children *)
(* that the slice of a visible node shows. *)
LEMMA VisibleNodes ==
    ASSUME NEW t, IsTree(t)
    PROVE  /\ Visible(t) \subseteq DOMAIN t /\ Visible(t) \subseteq Positions
           /\ IsFiniteSet(Visible(t)) /\ <<>> \in Visible(t)
           /\ \A p \in Visible(t) : \A k \in 1..Len(p) :
                Above(p, k) \in Visible(t) /\ p[k] <= t[Above(p, k)].len
           /\ \A p \in Visible(t) : \A i \in 1..t[p].len : Append(p, i) \in Visible(t)
<1> DEFINE V == Visible(t)
<1>1. V \subseteq DOMAIN t /\ V \subseteq Positions /\ IsFiniteSet(V)
  <2>1. V \in SUBSET DOMAIN t
      BY DEF Visible
  <2> QED BY <2>1, TreeFacts, FS_Subset
<1>2. <<>> \in V
    BY TreeFacts, EmptySeq DEF Visible
<1>3. ASSUME NEW p \in V, NEW k \in 1..Len(p)
      PROVE  Above(p, k) \in V /\ p[k] <= t[Above(p, k)].len
  <2>1. p \in DOMAIN t /\ p \in Positions /\ Len(p) \in Nat
        /\ \A j \in 1..Len(p) : p[j] <= t[Above(p, j)].len
      BY <1>1, LenProperties DEF Visible, Positions
  <2> DEFINE u == Above(p, k)
  <2>2. u \in DOMAIN t
      BY <2>1, TreeFacts
  <2>3. Len(u) = k - 1 /\ \A j \in 1..(k - 1) : u[j] = p[j] /\ Above(u, j) = Above(p, j)
      BY <2>1, NodesAbove
  <2> HIDE DEF u
  <2>4. \A j \in 1..Len(u) : u[j] <= t[Above(u, j)].len
      BY <2>1, <2>3
  <2>5. u \in V
      BY <2>2, <2>4 DEF Visible
  <2> QED BY <2>1, <2>5 DEF u
<1>4. ASSUME NEW p \in V, NEW i \in 1..t[p].len PROVE Append(p, i) \in V
  <2>1. p \in DOMAIN t /\ p \in Positions /\ Len(p) \in Nat
        /\ \A j \in 1..Len(p) : p[j] <= t[Above(p, j)].len
      BY <1>1, LenProperties DEF Visible, Positions
  <2>2. t[p].len \in Nat /\ t[p].cap \in Nat /\ t[p].len <= t[p].cap
      BY <2>1, TreeFacts
  <2>3. i \in Nat \ {0} /\ i \in 1..t[p].cap
      BY <2>2
  <2> DEFINE c == Append(p, i)
  <2>4. c \in DOMAIN t
      BY <2>1, <2>3, TreeFacts
  <2>5. Len(c) = Len(p) + 1 /\ c[Len(p) + 1] = i /\ Above(c, Len(p) + 1) = p
        /\ \A k \in 1..Len(p) : c[k] = p[k] /\ Above(c, k) = Above(p, k)
      BY <2>1, <2>3, Child
  <2> HIDE DEF c
  <2>6. ASSUME NEW k \in 1..Len(c) PROVE c[k] <= t[Above(c, k)].len
    <3>1. CASE k = Len(p) + 1
        BY <2>2, <2>5, <3>1
    <3>2. CASE k \in 1..Len(p)
        BY <2>1, <2>5, <3>2
    <3> QED BY <2>1, <2>5, <3>1, <3>2
  <2>7. c \in V
      BY <2>4, <2>6 DEF Visible
  <2> QED BY <2>7 DEF c
<1> QED BY <1>1, <1>2, <1>3, <1>4

(* All of a tree without hidden nodes is visible. *)
LEMMA AllVisible ==
    ASSUME NEW t, Sent(t)
    PROVE  Visible(t) = DOMAIN t
<1>1. IsTree(t) /\ \A p \in DOMAIN t : t[p].cap = t[p].len
    BY DEF Sent
<1>2. ASSUME NEW p \in DOMAIN t, NEW k \in 1..Len(p) PROVE p[k] <= t[Above(p, k)].len
    BY <1>1, TreeFacts
<1> QED BY <1>2 DEF Visible

(* What others see of a tree is a tree without hidden nodes, with its values. *)
LEMMA ViewIsSent ==
    ASSUME NEW t, IsTree(t)
    PROVE  /\ Sent(View(t)) /\ DOMAIN View(t) = Visible(t)
           /\ \A p \in Visible(t) : View(t)[p].val = t[p].val /\ View(t)[p].len = t[p].len
<1> DEFINE V == Visible(t)
           r == View(t)
<1>1. DOMAIN r = V /\ r = [p \in V |-> r[p]]
      /\ \A p \in V : r[p] = [t[p] EXCEPT !.cap = t[p].len]
    BY DEF View
<1>2. V \subseteq DOMAIN t
    BY VisibleNodes
<1>3. \A p \in V : t[p] \in Nodes
    BY <1>2, TreeFacts
<1>4. \A p \in V : r[p] \in Nodes /\ r[p].cap = t[p].len /\ r[p].val = t[p].val
                   /\ r[p].len = t[p].len
    BY <1>1, <1>3 DEF Nodes
<1> HIDE DEF r
<1>5. \A p \in V : t[p].len \in Nat
    BY <1>2, TreeFacts
<1>6. IsTree(r)
  <2>1. IsFiniteSet(V) /\ V \subseteq Positions /\ <<>> \in V
      BY VisibleNodes
  <2>2. \A p \in V : r[p].len <= r[p].cap
      BY <1>4, <1>5
  <2>3. \A p \in V : \A i \in 1..r[p].cap : Append(p, i) \in V
      BY <1>4, VisibleNodes
  <2>4. \A p \in V : \A k \in 1..Len(p) : Above(p, k) \in V /\ p[k] <= r[Above(p, k)].cap
      BY <1>4, VisibleNodes
  <2> HIDE DEF V
  <2>5. IsFiniteSet(DOMAIN r) /\ DOMAIN r \subseteq Positions /\ <<>> \in DOMAIN r
      BY <1>1, <2>1
  <2>6. r = [p \in DOMAIN r |-> r[p]]
      BY <1>1
  <2>7. /\ \A p \in DOMAIN r : r[p] \in Nodes
        /\ \A p \in DOMAIN r : r[p].len <= r[p].cap
      BY <1>1, <1>4, <2>2
  <2>8. /\ \A p \in DOMAIN r : \A i \in 1..r[p].cap : Append(p, i) \in DOMAIN r
        /\ \A p \in DOMAIN r : \A k \in 1..Len(p) :
              Above(p, k) \in DOMAIN r /\ p[k] <= r[Above(p, k)].cap
      BY <1>1, <2>3, <2>4
  <2> QED BY <2>5, <2>6, <2>7, <2>8, TreeFrom, Zenon
<1>7. Sent(r)
    BY <1>1, <1>4, <1>6 DEF Sent
<1> QED BY <1>1, <1>4, <1>7 DEF r

-----------------------------------------------------------------------------
(* A tree written over another.                                            *)

LEMMA NewNode == \A n \in Nat : Node(n) \in Nodes /\ Node(n).len = n /\ Node(n).cap = n
BY TreesAssumption DEF Node, Nodes

(* A node that is given a value and n children, and room for them. *)
Filled(node, n, v) == [InitChildren(node, n) EXCEPT !.val = v]

LEMMA InitChildrenNode ==
    ASSUME NEW node \in Nodes, NEW n \in Nat, NEW v \in 0..(Values - 1)
    PROVE  /\ Filled(node, n, v) \in Nodes
           /\ Filled(node, n, v).val = v /\ Filled(node, n, v).len = n
           /\ Filled(node, n, v).cap = IF node.cap >= n THEN node.cap ELSE n
           /\ Filled(node, n, v).cap \in Nat /\ n <= Filled(node, n, v).cap
<1> DEFINE r == Filled(node, n, v)
<1> DEFINE c == IF node.cap >= n THEN node.cap ELSE n
<1>1. node.cap \in Nat /\ node = [val |-> node.val, len |-> node.len, cap |-> node.cap]
    BY DEF Nodes
<1>2. c \in Nat /\ n <= c /\ c = IF node.cap >= n THEN node.cap ELSE n
    BY <1>1
<1>3. InitChildren(node, n) = [node EXCEPT !.len = n, !.cap = c]
    BY DEF InitChildren
<1> HIDE DEF c
<1>4. InitChildren(node, n) = [val |-> node.val, len |-> n, cap |-> c]
    BY <1>1, <1>3
<1>5. r = [val |-> v, len |-> n, cap |-> c]
    BY <1>4 DEF Filled
<1> HIDE DEF r
<1>6. r.val = v /\ r.len = n /\ r.cap = c
    BY <1>5
<1>7. r \in Nodes
  <2> DEFINE I == 0..(Values - 1)
  <2>1. v \in I /\ Nodes = [val : I, len : Nat, cap : Nat]
      BY DEF Nodes
  <2> HIDE DEF I
  <2> QED BY <1>2, <1>5, <2>1
<1>8. /\ r \in Nodes /\ r.val = v /\ r.len = n /\ r.cap \in Nat /\ n <= r.cap
      /\ r.cap = IF node.cap >= n THEN node.cap ELSE n
    BY <1>2, <1>6, <1>7
<1> QED BY <1>8 DEF r

(* What is left in r after "from" was written over "to". *)
Written(from, to, r) ==
    /\ IsTree(r) /\ Visible(r) = DOMAIN from
    /\ \A p \in DOMAIN from : r[p].val = from[p].val /\ r[p].len = from[p].len
    /\ \A p \in DOMAIN r \ DOMAIN from : p \in DOMAIN to /\ r[p].len = to[p].len

(* The kept nodes lose nothing above them, and nothing below them but what is  *)
(* written anew.                                                               *)
Keeps(from, to, kept) ==
    /\ kept \subseteq DOMAIN to
    /\ \A p \in kept : \A k \in 1..Len(p) : Above(p, k) \in kept
    /\ \A p \in kept : \A i \in 1..to[p].cap : Append(p, i) \in kept \cup DOMAIN from

LEMMA Overwritten ==
    ASSUME NEW from, Sent(from), NEW to, IsTree(to), NEW kept, Keeps(from, to, kept)
    PROVE  Written(from, to, Overwrite(from, to, kept))
<1> DEFINE F == DOMAIN from
           r == Overwrite(from, to, kept)
           old(p) == IF p \in kept THEN to[p] ELSE Node(0)
<1>1. DOMAIN r = F \cup kept /\ r = [p \in F \cup kept |-> r[p]]
    BY DEF Overwrite
<1>2. \A p \in F : r[p] = Filled(old(p), from[p].len, from[p].val)
    BY DEF Overwrite, Filled
<1>3. \A p \in kept \ F : r[p] = to[p]
    BY DEF Overwrite
<1> HIDE DEF r
<1>4. IsTree(from) /\ \A p \in F : from[p].cap = from[p].len
    BY DEF Sent
<1>5. kept \subseteq DOMAIN to
    BY DEF Keeps
<1>6. \A p \in F : from[p].val \in 0..(Values - 1) /\ from[p].len \in Nat
    BY <1>4, TreeFacts
<1>7. \A p \in kept : to[p] \in Nodes /\ to[p].len \in Nat /\ to[p].cap \in Nat
                      /\ to[p].len <= to[p].cap
    BY <1>5, TreeFacts
<1>8. \A p \in F : old(p) \in Nodes
    BY <1>7, NewNode
<1> HIDE DEF old
<1>9. \A p \in F : /\ r[p] \in Nodes /\ r[p].val = from[p].val /\ r[p].len = from[p].len
                   /\ r[p].cap = IF old(p).cap >= from[p].len THEN old(p).cap ELSE from[p].len
                   /\ r[p].cap \in Nat /\ from[p].len <= r[p].cap
  <2> TAKE p \in F
  <2>1. /\ old(p) \in Nodes /\ from[p].len \in Nat /\ from[p].val \in 0..(Values - 1)
        /\ r[p] = Filled(old(p), from[p].len, from[p].val)
      BY <1>2, <1>6, <1>8
  <2>2. PICK x \in Nodes, n \in Nat, v \in 0..(Values - 1) :
           x = old(p) /\ n = from[p].len /\ v = from[p].val
      BY <2>1
  <2>3. /\ Filled(x, n, v) \in Nodes
        /\ Filled(x, n, v).val = v /\ Filled(x, n, v).len = n
        /\ Filled(x, n, v).cap = IF x.cap >= n THEN x.cap ELSE n
        /\ Filled(x, n, v).cap \in Nat /\ n <= Filled(x, n, v).cap
      BY InitChildrenNode
  <2>4. r[p] = Filled(x, n, v)
      BY <2>1, <2>2
  <2> QED BY <2>2, <2>3, <2>4
<1>10. \A p \in F \cup kept : r[p] \in Nodes /\ r[p].cap \in Nat /\ r[p].len <= r[p].cap
    BY <1>3, <1>7, <1>9
<1>11. \A p \in kept : to[p].cap <= r[p].cap
  <2> SUFFICES ASSUME NEW p \in kept PROVE to[p].cap <= r[p].cap
      OBVIOUS
  <2>1. CASE p \in F
    <3>1. old(p) = to[p] /\ to[p].cap \in Nat /\ from[p].len \in Nat
        BY <2>1, <1>6, <1>7 DEF old
    <3> QED BY <2>1, <3>1, <1>9
  <2>2. CASE p \notin F
      BY <2>2, <1>3, <1>7
  <2> QED BY <2>1, <2>2
<1>12. ASSUME NEW p \in F \cup kept, NEW i \in 1..r[p].cap PROVE Append(p, i) \in F \cup kept
  <2>1. CASE p \in F /\ i <= from[p].len
    <3>1. i \in 1..from[p].cap
        BY <1>4, <1>6, <1>10, <2>1
    <3> QED BY <1>4, <2>1, <3>1, TreeFacts
  <2>2. CASE p \in F /\ ~ (i <= from[p].len)
    <3>1. i \in Nat /\ i <= r[p].cap /\ from[p].len \in Nat /\ r[p].cap \in Nat
        BY <1>6, <1>10, <2>2
    <3>2. CASE p \in kept
      <4>1. old(p) = to[p] /\ to[p].cap \in Nat
          BY <1>7, <3>2 DEF old
      <4>2. r[p].cap = IF to[p].cap >= from[p].len THEN to[p].cap ELSE from[p].len
          BY <1>9, <2>2, <4>1
      <4>3. i \in 1..to[p].cap
          BY <2>2, <3>1, <4>1, <4>2
      <4> QED BY <3>2, <4>3 DEF Keeps
    <3>3. CASE p \notin kept
      <4>1. old(p).cap = 0
          BY <3>3, NewNode DEF old
      <4>2. r[p].cap = from[p].len
          BY <1>6, <1>9, <2>2, <4>1
      <4> QED BY <2>2, <3>1, <4>2
    <3> QED BY <3>2, <3>3
  <2>3. CASE p \notin F
      BY <1>3, <2>3 DEF Keeps
  <2> QED BY <2>1, <2>2, <2>3
<1>13. ASSUME NEW p \in F \cup kept, NEW k \in 1..Len(p)
       PROVE  Above(p, k) \in F \cup kept /\ p[k] <= r[Above(p, k)].cap
  <2> DEFINE u == Above(p, k)
  <2>0. F \subseteq Positions /\ DOMAIN to \subseteq Positions
      BY <1>4, TreeFacts
  <2>1. p[k] \in Nat
      BY <2>0, <1>5, ElementOfSeq DEF Positions
  <2>2. CASE p \in F
    <3>1. u \in F /\ p[k] <= from[u].cap
        BY <1>4, <2>2, TreeFacts
    <3> HIDE DEF u
    <3>2. from[u].cap = from[u].len /\ from[u].len <= r[u].cap /\ from[u].len \in Nat
          /\ r[u].cap \in Nat
        BY <1>4, <1>6, <1>9, <3>1
    <3>3. u \in F \cup kept /\ p[k] <= r[u].cap
        BY <2>1, <3>1, <3>2
    <3> QED BY <3>3 DEF u
  <2>3. CASE p \in kept
    <3>1. u \in kept
        BY <2>3 DEF Keeps
    <3>2. p[k] <= to[u].cap
        BY <1>5, <2>3, TreeFacts
    <3> HIDE DEF u
    <3>3. to[u].cap <= r[u].cap /\ to[u].cap \in Nat /\ r[u].cap \in Nat
        BY <1>7, <1>10, <1>11, <3>1
    <3>4. u \in F \cup kept /\ p[k] <= r[u].cap
        BY <2>1, <3>1, <3>2, <3>3
    <3> QED BY <3>4 DEF u
  <2> QED BY <2>2, <2>3
<1>14. F \subseteq Positions /\ IsFiniteSet(F) /\ <<>> \in F
    BY <1>4, TreeFacts
<1>15. IsTree(r)
  <2>1. IsFiniteSet(kept)
    <3>1. kept \in SUBSET DOMAIN to /\ IsFiniteSet(DOMAIN to)
        BY <1>5, TreeFacts
    <3> QED BY <3>1, FS_Subset
  <2>2. IsFiniteSet(F \cup kept)
      BY <1>14, <2>1, FS_Union
  <2>3. F \cup kept \subseteq Positions /\ <<>> \in F \cup kept
      BY <1>5, <1>14, TreeFacts
  <2> DEFINE R == F \cup kept
  <2>4. /\ DOMAIN r = R /\ r = [p \in R |-> r[p]] /\ IsFiniteSet(R) /\ R \subseteq Positions
        /\ <<>> \in R
        /\ \A p \in R : r[p] \in Nodes /\ r[p].len <= r[p].cap
        /\ \A p \in R : \A i \in 1..r[p].cap : Append(p, i) \in R
        /\ \A p \in R : \A k \in 1..Len(p) : Above(p, k) \in R /\ p[k] <= r[Above(p, k)].cap
      BY <1>1, <1>10, <1>12, <1>13, <2>2, <2>3
  <2> HIDE DEF R, F
  <2> QED BY <2>4, TreeFrom
<1>16. Visible(r) = F
  <2>1. ASSUME NEW p \in F PROVE p \in Visible(r)
    <3>1. ASSUME NEW k \in 1..Len(p) PROVE p[k] <= r[Above(p, k)].len
      <4>1. Above(p, k) \in F /\ p[k] <= from[Above(p, k)].cap
          BY <1>4, TreeFacts
      <4> QED BY <1>4, <1>9, <4>1
    <3> QED BY <1>1, <3>1 DEF Visible
  <2>2. ASSUME NEW p \in Visible(r) PROVE p \in F
    <3>1. p \in Positions
        BY <1>15, VisibleNodes
    <3>2. ASSUME NEW k \in 1..Len(p), Above(p, k) \in F PROVE Append(Above(p, k), p[k]) \in F
      <4> DEFINE u == Above(p, k)
      <4>1. p[k] \in Nat \ {0} /\ p[k] <= r[u].len
          BY <3>1, Step DEF Visible
      <4> HIDE DEF u
      <4>2. u \in F
          BY <3>2 DEF u
      <4>3. r[u].len = from[u].cap /\ from[u].cap \in Nat
          BY <1>4, <1>6, <1>9, <4>2
      <4>4. p[k] \in 1..from[u].cap
          BY <4>1, <4>3
      <4>5. Append(u, p[k]) \in F
          BY <1>4, <4>2, <4>4, TreeFacts
      <4> QED BY <4>5 DEF u
    <3> HIDE DEF F
    <3> QED BY <1>14, <3>1, <3>2, WalkDown
  <2> QED BY <2>1, <2>2
<1>17. \A p \in DOMAIN r \ F : p \in DOMAIN to /\ r[p].len = to[p].len
    BY <1>1, <1>3, <1>5
<1>18. Written(from, to, r)
    BY <1>9, <1>15, <1>16, <1>17 DEF Written
<1> QED BY <1>18 DEF r

(* A set of nodes of "to" that is given by what holds of all on their path. *)
LEMMA KeepsByPath ==
    ASSUME NEW from, Sent(from), NEW to, IsTree(to), NEW G,
           NEW kept, kept = {p \in DOMAIN to : \A q \in Path(p) \cap DOMAIN from : q \in G}
    PROVE  Keeps(from, to, kept)
<1>1. ASSUME NEW p \in kept, NEW k \in 1..Len(p) PROVE Above(p, k) \in kept
  <2>1. Above(p, k) \in DOMAIN to
      BY TreeFacts
  <2>2. Path(Above(p, k)) \subseteq Path(p)
      BY TreeFacts, NodesAbove
  <2> QED BY <2>1, <2>2
<1>2. ASSUME NEW p \in kept, NEW i \in 1..to[p].cap
      PROVE  Append(p, i) \in kept \cup DOMAIN from
  <2> SUFFICES ASSUME Append(p, i) \notin DOMAIN from PROVE Append(p, i) \in kept
      OBVIOUS
  <2>1. p \in DOMAIN to /\ p \in Positions /\ to[p].cap \in Nat
      BY TreeFacts
  <2>2. Append(p, i) \in DOMAIN to
      BY <2>1, TreeFacts
  <2>3. i \in Nat \ {0}
      BY <2>1
  <2>4. Path(Append(p, i)) = Path(p) \cup {Append(p, i)}
      BY <2>1, <2>3, Child
  <2>5. \A q \in Path(Append(p, i)) \cap DOMAIN from : q \in Path(p) \cap DOMAIN from
      BY <2>4
  <2> QED BY <2>2, <2>5
<1> QED BY <1>1, <1>2 DEF Keeps

(* copyTree, with a slice replaced or grown, and the JSON decoder: whatever "to"  *)
(* was, it shows "from" afterwards.                                               *)
LEMMA CopyTreeWrites ==
    ASSUME NEW from, Sent(from), NEW to, IsTree(to)
    PROVE  Written(from, to, CopyTree(from, to))
<1> DEFINE G == {q \in DOMAIN from : to[q].cap >= from[q].len}
<1>1. KeptIfRoom(from, to) = {p \in DOMAIN to : \A q \in Path(p) \cap DOMAIN from : q \in G}
    BY DEF KeptIfRoom
<1> HIDE DEF G
<1>2. Keeps(from, to, KeptIfRoom(from, to))
    BY <1>1, KeepsByPath
<1> QED BY <1>2, Overwritten DEF CopyTree

LEMMA CopyTreeGrowWrites ==
    ASSUME NEW from, Sent(from), NEW to, IsTree(to)
    PROVE  Written(from, to, CopyTreeGrow(from, to))
<1>1. Keeps(from, to, DOMAIN to)
    BY TreeFacts DEF Keeps
<1> QED BY <1>1, Overwritten DEF CopyTreeGrow

LEMMA DecodeWrites ==
    ASSUME NEW msg, Sent(msg), NEW t, IsTree(t)
    PROVE  Written(msg, t, Decode(msg, t))
<1> DEFINE G == {q \in DOMAIN msg : msg[q].len > 0}
           kept == {p \in DOMAIN t : \A q \in Path(p) \cap DOMAIN msg : q \in G}
<1>1. Decode(msg, t) = Overwrite(msg, t, kept)
  <2>1. kept = {p \in DOMAIN t : \A q \in Path(p) \cap DOMAIN msg : msg[q].len > 0}
      OBVIOUS
  <2> QED BY <2>1 DEF Decode
<1> HIDE DEF kept
<1>2. Keeps(msg, t, kept)
  <2> HIDE DEF G
  <2>1. kept = {p \in DOMAIN t : \A q \in Path(p) \cap DOMAIN msg : q \in G}
      BY DEF kept
  <2> QED BY <2>1, KeepsByPath
<1> QED BY <1>1, <1>2, Overwritten

-----------------------------------------------------------------------------
(* Walks that change values or counts.                                     *)

(* r is t with other values: the same nodes, as many of them visible. *)
Relabelled(t, r) ==
    /\ DOMAIN r = DOMAIN t /\ r = [p \in DOMAIN t |-> r[p]]
    /\ \A p \in DOMAIN t : r[p] \in Nodes /\ r[p].len = t[p].len /\ r[p].cap = t[p].cap

LEMMA RelabelledTree ==
    ASSUME NEW t, IsTree(t), NEW r, Relabelled(t, r)
    PROVE  /\ IsTree(r) /\ Visible(r) = Visible(t)
           /\ Sent(t) => Sent(r)
<1> DEFINE D == DOMAIN t
<1>1. DOMAIN r = D /\ r = [p \in D |-> r[p]]
      /\ \A p \in D : r[p] \in Nodes /\ r[p].len = t[p].len /\ r[p].cap = t[p].cap
    BY DEF Relabelled
<1>2. IsFiniteSet(D) /\ D \subseteq Positions /\ <<>> \in D
    BY TreeFacts
<1>3. \A p \in D : r[p].len <= r[p].cap
    BY <1>1, TreeFacts
<1>4. \A p \in D : \A i \in 1..r[p].cap : Append(p, i) \in D
    BY <1>1, TreeFacts
<1>5. \A p \in D : \A k \in 1..Len(p) : Above(p, k) \in D /\ p[k] <= r[Above(p, k)].cap
    BY <1>1, TreeFacts
<1>6. Visible(r) = Visible(t)
  <2>1. \A p \in D : \A k \in 1..Len(p) : r[Above(p, k)].len = t[Above(p, k)].len
      BY <1>1, <1>5
  <2> QED BY <1>1, <2>1 DEF Visible
<1>7. IsTree(r)
  <2> HIDE DEF D
  <2> QED BY <1>1, <1>2, <1>3, <1>4, <1>5, TreeFrom
<1>8. Sent(t) => Sent(r)
    BY <1>1, <1>7 DEF Sent
<1> QED BY <1>6, <1>7, <1>8

(* A node with another value. *)
LEMMA NewValue ==
    ASSUME NEW node \in Nodes, NEW v \in 0..(Values - 1)
    PROVE  /\ [node EXCEPT !.val = v] \in Nodes
           /\ [node EXCEPT !.val = v].val = v
           /\ [node EXCEPT !.val = v].len = node.len
           /\ [node EXCEPT !.val = v].cap = node.cap
<1> DEFINE I == 0..(Values - 1)
<1>1. v \in I /\ Nodes = [val : I, len : Nat, cap : Nat]
    BY DEF Nodes
<1> HIDE DEF I
<1> QED BY <1>1

(* Reset leaves the nodes where they are, and takes the children of those that are *)
(* visible out of sight.                                                           *)
LEMMA ResetTree ==
    ASSUME NEW t, IsTree(t)
    PROVE  /\ IsTree(Reset(t)) /\ DOMAIN Reset(t) = DOMAIN t
           /\ \A p \in Visible(t) : Reset(t)[p].len = 0
           /\ \A p \in DOMAIN t \ Visible(t) : Reset(t)[p].len = t[p].len
<1> DEFINE D == DOMAIN t
           V == Visible(t)
           r == Reset(t)
<1>1. DOMAIN r = D /\ r = [p \in D |-> r[p]]
      /\ \A p \in D : r[p] = IF p \in V THEN [t[p] EXCEPT !.len = 0] ELSE t[p]
    BY DEF Reset
<1> HIDE DEF r
<1>2. \A p \in D : t[p] \in Nodes /\ t[p].cap \in Nat /\ t[p].len <= t[p].cap
    BY TreeFacts
<1>3. \A p \in D : /\ r[p] \in Nodes /\ r[p].cap = t[p].cap
                   /\ r[p].len = IF p \in V THEN 0 ELSE t[p].len
  <2> TAKE p \in D
  <2> DEFINE I == 0..(Values - 1)
  <2>1. t[p] \in Nodes /\ Nodes = [val : I, len : Nat, cap : Nat]
      BY <1>2 DEF Nodes
  <2>2. r[p] = IF p \in V THEN [t[p] EXCEPT !.len = 0] ELSE t[p]
      BY <1>1
  <2> HIDE DEF I, V
  <2> QED BY <2>1, <2>2
<1>4. IsFiniteSet(D) /\ D \subseteq Positions /\ <<>> \in D
    BY TreeFacts
<1>5. \A p \in D : r[p].len <= r[p].cap
    BY <1>2, <1>3
<1>6. \A p \in D : \A i \in 1..r[p].cap : Append(p, i) \in D
    BY <1>3, TreeFacts
<1>7. \A p \in D : \A k \in 1..Len(p) : Above(p, k) \in D /\ p[k] <= r[Above(p, k)].cap
    BY <1>3, TreeFacts
<1>8. IsTree(r)
  <2> HIDE DEF D
  <2> QED BY <1>1, <1>3, <1>4, <1>5, <1>6, <1>7, TreeFrom
<1>9. V \subseteq D
    BY VisibleNodes
<1>10. /\ IsTree(r) /\ DOMAIN r = D /\ \A p \in V : r[p].len = 0
       /\ \A p \in D \ V : r[p].len = t[p].len
    BY <1>1, <1>3, <1>8, <1>9
<1> QED BY <1>10 DEF r

(* Mult multiplies what is visible. *)
LEMMA MultTree ==
    ASSUME NEW t, IsTree(t), NEW m \in Nat
    PROVE  /\ Relabelled(t, Mult(t, m))
           /\ \A p \in Visible(t) : Mult(t, m)[p].val = Wrap(t[p].val * m)
<1> DEFINE D == DOMAIN t
           V == Visible(t)
           r == Mult(t, m)
<1>1. DOMAIN r = D /\ r = [p \in D |-> r[p]]
      /\ \A p \in D : r[p] = IF p \in V THEN [t[p] EXCEPT !.val = Wrap(t[p].val * m)] ELSE t[p]
    BY DEF Mult
<1> HIDE DEF r
<1>2. \A p \in D : t[p] \in Nodes /\ Wrap(t[p].val * m) \in 0..(Values - 1)
    BY TreeFacts, ProductType
<1>3. V \subseteq D
    BY VisibleNodes
<1>4. \A p \in D : /\ r[p] \in Nodes /\ r[p].len = t[p].len /\ r[p].cap = t[p].cap
                   /\ p \in V => r[p].val = Wrap(t[p].val * m)
  <2> TAKE p \in D
  <2>1. t[p] \in Nodes /\ Wrap(t[p].val * m) \in 0..(Values - 1)
      BY <1>2
  <2>2. CASE p \in V
    <3>1. r[p] = [t[p] EXCEPT !.val = Wrap(t[p].val * m)]
        BY <1>1, <2>2
    <3> QED BY <2>1, <3>1, NewValue
  <2>3. CASE p \notin V
    <3>1. r[p] = t[p]
        BY <1>1, <2>3
    <3> QED BY <2>1, <2>3, <3>1
  <2> QED BY <2>2, <2>3
<1>5. Relabelled(t, r) /\ \A p \in V : r[p].val = Wrap(t[p].val * m)
    BY <1>1, <1>3, <1>4 DEF Relabelled
<1> QED BY <1>5 DEF r

(* mdcapnp's server builds a new tree: that of the request, multiplied. *)
LEMMA MDCapnpMultTreeIsSent ==
    ASSUME NEW in, Sent(in), NEW m \in Nat
    PROVE  /\ Sent(MDCapnpMultTree(m, in)) /\ DOMAIN MDCapnpMultTree(m, in) = DOMAIN in
           /\ \A p \in DOMAIN in : MDCapnpMultTree(m, in)[p].val = Wrap(in[p].val * m)
<1> DEFINE D == DOMAIN in
           r == MDCapnpMultTree(m, in)
<1>0. IsTree(in) /\ \A p \in D : in[p].cap = in[p].len
    BY DEF Sent
<1>1. DOMAIN r = D /\ r = [p \in D |-> r[p]]
      /\ \A p \in D : r[p] = Filled(Node(0), in[p].len, Wrap(in[p].val * m))
    BY DEF MDCapnpMultTree, Filled
<1> HIDE DEF r
<1>2. \A p \in D : in[p].len \in Nat /\ Wrap(in[p].val * m) \in 0..(Values - 1)
    BY <1>0, TreeFacts, ProductType
<1>3. \A p \in D : /\ r[p] \in Nodes /\ r[p].len = in[p].len /\ r[p].cap = in[p].cap
                   /\ r[p].val = Wrap(in[p].val * m)
  <2> TAKE p \in D
  <2>1. in[p].len \in Nat /\ Wrap(in[p].val * m) \in 0..(Values - 1)
      BY <1>2
  <2>2. Node(0) \in Nodes /\ Node(0).cap = 0
      BY NewNode
  <2>3. /\ r[p] \in Nodes /\ r[p].val = Wrap(in[p].val * m) /\ r[p].len = in[p].len
        /\ r[p].cap = IF Node(0).cap >= in[p].len THEN Node(0).cap ELSE in[p].len
      BY <1>1, <2>1, <2>2, InitChildrenNode
  <2>4. r[p].cap = in[p].len
      BY <2>1, <2>2, <2>3
  <2> QED BY <1>0, <2>3, <2>4
<1>4. Relabelled(in, r)
    BY <1>1, <1>3 DEF Relabelled
<1>5. Sent(r) /\ DOMAIN r = D /\ \A p \in D : r[p].val = Wrap(in[p].val * m)
    BY <1>0, <1>1, <1>3, <1>4, RelabelledTree
<1> QED BY <1>5 DEF r

-----------------------------------------------------------------------------
(* The binary form: every node of a walk has a number of its own.          *)

(* The order of a walk is total and strict. *)
LEMMA BeforeIsTotal ==
    ASSUME NEW p \in Positions, NEW q \in Positions, p # q
    PROVE  Before(p, q) \/ Before(q, p)
<1> DEFINE S == {k \in Nat \ {0} : ~ (k <= Len(p) /\ k <= Len(q) /\ p[k] = q[k])}
<1>1. /\ Len(p) \in Nat /\ Len(q) \in Nat
      /\ (\A i \in 1..Len(p) : p[i] \in Nat) /\ (\A i \in 1..Len(q) : q[i] \in Nat)
    BY LenProperties, ElementOfSeq DEF Positions
<1>2. S \in SUBSET Nat /\ Len(p) + 1 \in S
    BY <1>1
<1>3. PICK k \in S : \A j \in S : k <= j
    BY <1>2, LeastElement
<1>4. k \in Nat \ {0} /\ ~ (k <= Len(p) /\ k <= Len(q) /\ p[k] = q[k])
    OBVIOUS
<1>5. \A j \in 1..(k - 1) : j <= Len(p) /\ j <= Len(q) /\ p[j] = q[j]
  <2> TAKE j \in 1..(k - 1)
  <2>1. j \notin S /\ j \in Nat \ {0}
      BY <1>3, <1>4
  <2> QED BY <2>1
<1> HIDE DEF S
<1>6. k <= Len(p) + 1 /\ k <= Len(q) + 1
  <2>1. CASE k = 1
      BY <1>1, <2>1
  <2>2. CASE k # 1
    <3>1. k - 1 \in 1..(k - 1)
        BY <1>4, <2>2
    <3>2. k - 1 <= Len(p) /\ k - 1 <= Len(q)
        BY <1>5, <3>1
    <3> QED BY <1>1, <1>4, <3>2
  <2> QED BY <2>1, <2>2
<1>7. CASE k <= Len(p) /\ k <= Len(q)
  <2>1. k \in 1..Len(p) /\ k \in 1..Len(q) /\ p[k] \in Nat /\ q[k] \in Nat /\ p[k] # q[k]
      BY <1>1, <1>4, <1>7
  <2>2. CASE p[k] < q[k]
      BY <1>5, <1>6, <2>1, <2>2 DEF Before
  <2>3. CASE q[k] < p[k]
      BY <1>5, <1>6, <2>1, <2>3 DEF Before
  <2> QED BY <2>1, <2>2, <2>3
<1>8. CASE ~ (k <= Len(p)) /\ k <= Len(q)
  <2>1. k \in 1..Len(q)
      BY <1>1, <1>4, <1>8
  <2> QED BY <1>5, <1>6, <1>8, <2>1 DEF Before
<1>9. CASE k <= Len(p) /\ ~ (k <= Len(q))
  <2>1. k \in 1..Len(p)
      BY <1>1, <1>4, <1>9
  <2> QED BY <1>5, <1>6, <1>9, <2>1 DEF Before
<1>10. CASE ~ (k <= Len(p)) /\ ~ (k <= Len(q))
  <2>1. Len(p) = Len(q) /\ k = Len(p) + 1
      BY <1>1, <1>4, <1>6, <1>10
  <2>2. \A j \in 1..Len(p) : p[j] = q[j]
      BY <1>1, <1>5, <2>1
  <2>3. p = q
      BY <2>1, <2>2, SeqEqual DEF Positions
  <2> QED BY <2>3
<1> QED BY <1>7, <1>8, <1>9, <1>10

LEMMA BeforeIsIrreflexive ==
    ASSUME NEW p \in Positions
    PROVE  ~ Before(p, p)
<1>1. Len(p) \in Nat /\ \A i \in 1..Len(p) : p[i] \in Nat
    BY LenProperties, ElementOfSeq DEF Positions
<1> QED BY <1>1 DEF Before

LEMMA BeforeIsTransitive ==
    ASSUME NEW p \in Positions, NEW q \in Positions, NEW r \in Positions,
           Before(p, q), Before(q, r)
    PROVE  Before(p, r)
<1>1. /\ Len(p) \in Nat /\ Len(q) \in Nat /\ Len(r) \in Nat
      /\ \A i \in 1..Len(p) : p[i] \in Nat
      /\ \A i \in 1..Len(q) : q[i] \in Nat
      /\ \A i \in 1..Len(r) : r[i] \in Nat
    BY LenProperties, ElementOfSeq DEF Positions
<1>2. PICK k \in 1..Len(q) : /\ k <= Len(p) + 1 /\ (\A j \in 1..(k - 1) : p[j] = q[j])
                             /\ (k <= Len(p) => p[k] < q[k])
    BY DEF Before
<1>3. PICK l \in 1..Len(r) : /\ l <= Len(q) + 1 /\ (\A j \in 1..(l - 1) : q[j] = r[j])
                             /\ (l <= Len(q) => q[l] < r[l])
    BY DEF Before
<1>4. CASE k < l
  <2>1. k \in 1..Len(r) /\ k \in 1..(l - 1)
      BY <1>1, <1>4
  <2>2. q[k] = r[k] /\ (k <= Len(p) => p[k] < r[k])
      BY <1>2, <1>3, <2>1
  <2>3. \A j \in 1..(k - 1) : p[j] = r[j]
      BY <1>2, <1>3, <1>4
  <2> QED BY <1>2, <2>1, <2>2, <2>3 DEF Before
<1>5. CASE k = l
  <2>1. q[k] < r[k] /\ q[k] \in Nat /\ r[k] \in Nat
      BY <1>1, <1>3, <1>5
  <2>2. k <= Len(p) => p[k] < r[k]
      BY <1>1, <1>2, <2>1
  <2>3. \A j \in 1..(k - 1) : p[j] = r[j]
      BY <1>2, <1>3, <1>5
  <2>4. k \in 1..Len(r)
      BY <1>5
  <2> QED BY <1>2, <2>2, <2>3, <2>4 DEF Before
<1>6. CASE l < k
  <2>1. l <= Len(q) /\ l <= Len(p) + 1 /\ l \in 1..(k - 1)
      BY <1>1, <1>2, <1>6
  <2>2. p[l] = q[l] /\ q[l] < r[l]
      BY <1>2, <1>3, <2>1
  <2>3. \A j \in 1..(l - 1) : p[j] = r[j]
      BY <1>2, <1>3, <1>6
  <2> QED BY <2>1, <2>2, <2>3 DEF Before
<1> QED BY <1>4, <1>5, <1>6

(* The numbers of different nodes differ, and none exceeds the number of nodes. *)
LEMMA RankIsOwn ==
    ASSUME NEW P \in SUBSET Positions, IsFiniteSet(P)
    PROVE  /\ \A p \in P : Rank(P, p) \in 1..Cardinality(P)
           /\ \A p, q \in P : Rank(P, p) = Rank(P, q) => p = q
<1> DEFINE Upto(p) == {q \in P : q = p \/ Before(q, p)}
<1>1. \A p \in P : Upto(p) \in SUBSET P /\ p \in Upto(p) /\ Rank(P, p) = Cardinality(Upto(p))
    BY DEF Rank
<1>2. \A p \in P : IsFiniteSet(Upto(p)) /\ Cardinality(Upto(p)) <= Cardinality(P)
    BY <1>1, FS_Subset
<1>3. Cardinality(P) \in Nat
    BY FS_CardinalityType
<1>4. \A p \in P : Cardinality(Upto(p)) \in Nat
    BY <1>2, FS_CardinalityType
<1>5. \A p \in P : Cardinality(Upto(p)) # 0
  <2>1. \A p \in P : Upto(p) # {}
      BY <1>1
  <2> QED BY <1>2, <2>1, FS_EmptySet
<1>6. ASSUME NEW p \in P, NEW q \in P, Before(p, q) PROVE Rank(P, p) # Rank(P, q)
  <2>1. Upto(p) \in SUBSET Upto(q)
    <3>1. \A s \in P : Before(s, p) => Before(s, q)
        BY <1>6, BeforeIsTransitive
    <3> QED BY <1>6, <3>1
  <2>2. q \notin Upto(p)
    <3>1. ~ Before(q, p)
        BY <1>6, BeforeIsTransitive, BeforeIsIrreflexive
    <3>2. q # p
        BY <1>6, BeforeIsIrreflexive
    <3> QED BY <3>1, <3>2
  <2>3. q \in Upto(q)
      BY <1>1
  <2>4. Upto(p) # Upto(q)
      BY <2>2, <2>3
  <2>5. IsFiniteSet(Upto(q))
      BY <1>2
  <2> HIDE DEF Upto
  <2>6. Cardinality(Upto(q)) # Cardinality(Upto(p))
      BY <2>1, <2>4, <2>5, FS_Subset
  <2> QED BY <1>1, <2>6
<1>7. \A p \in P : Rank(P, p) \in 1..Cardinality(P)
  <2> TAKE p \in P
  <2> DEFINE r == Rank(P, p)
  <2>1. r \in Nat /\ r # 0 /\ r <= Cardinality(P)
      BY <1>1, <1>2, <1>4, <1>5
  <2> HIDE DEF r
  <2>2. r \in 1..Cardinality(P)
      BY <1>3, <2>1
  <2> QED BY <2>2 DEF r
<1>8. ASSUME NEW p \in P, NEW q \in P, Rank(P, p) = Rank(P, q) PROVE p = q
    BY <1>6, <1>8, BeforeIsTotal
<1> QED BY <1>7, <1>8

(* Every visible node receives the value that was written at its number. *)
LEMMA ReadTreeReads ==
    ASSUME NEW t, IsTree(t), NEW ints,
           \A p \in Visible(t) : ints[Rank(Visible(t), p)] \in 0..(Values - 1)
    PROVE  /\ Relabelled(t, ReadTree(ints, t))
           /\ \A p \in Visible(t) : ReadTree(ints, t)[p].val = ints[Rank(Visible(t), p)]
<1> DEFINE D == DOMAIN t
           V == Visible(t)
           r == ReadTree(ints, t)
<1>1. DOMAIN r = D /\ r = [p \in D |-> r[p]]
      /\ \A p \in D : r[p] = IF p \in V THEN [t[p] EXCEPT !.val = ints[Rank(V, p)]] ELSE t[p]
    BY DEF ReadTree
<1> HIDE DEF r
<1>2. \A p \in D : t[p] \in Nodes
    BY TreeFacts
<1>3. V \subseteq D
    BY VisibleNodes
<1>4. \A p \in D : /\ r[p] \in Nodes /\ r[p].len = t[p].len /\ r[p].cap = t[p].cap
                   /\ p \in V => r[p].val = ints[Rank(V, p)]
  <2> TAKE p \in D
  <2>1. CASE p \in V
    <3>1. r[p] = [t[p] EXCEPT !.val = ints[Rank(V, p)]]
        BY <1>1, <2>1
    <3>2. t[p] \in Nodes /\ ints[Rank(V, p)] \in 0..(Values - 1)
        BY <1>2, <2>1
    <3> QED BY <3>1, <3>2, NewValue
  <2>2. CASE p \notin V
    <3>1. r[p] = t[p]
        BY <1>1, <2>2
    <3> QED BY <1>2, <2>2, <3>1
  <2> QED BY <2>1, <2>2
<1>5. Relabelled(t, r) /\ \A p \in V : r[p].val = ints[Rank(V, p)]
    BY <1>1, <1>3, <1>4 DEF Relabelled
<1> QED BY <1>5 DEF r

(* The binary request has mult, the number of nodes and then each node's value at *)
(* its number.                                                                     *)
LEMMA RequestWritten ==
    ASSUME NEW t, IsTree(t), NEW m \in Nat
    PROVE  LET ints == WriteMultTreeRequest(m, t) IN
             /\ TotalNodes(t) \in Nat
             /\ ints[1] = m /\ ints[2] = TotalNodes(t)
             /\ \A p \in Visible(t) : /\ Rank(Visible(t), p) \in 1..TotalNodes(t)
                                      /\ ints[Rank(Visible(t), p) + 2] = t[p].val
<1> DEFINE V == Visible(t)
           N == TotalNodes(t)
           w == WriteTree(t)
           place(n) == CHOOSE p \in V : Rank(V, p) = n
<1>1. V \in SUBSET Positions /\ IsFiniteSet(V)
    BY VisibleNodes
<1>2. N = Cardinality(V) /\ N \in Nat
    BY <1>1, FS_CardinalityType DEF TotalNodes
<1>3. w = [n \in 1..N |-> t[place(n)].val]
    BY DEF WriteTree
<1> HIDE DEF N, V
<1>4. \A p \in V : Rank(V, p) \in 1..N
    BY <1>1, <1>2, RankIsOwn
<1>5. \A p \in V : place(Rank(V, p)) = p
    BY <1>1, RankIsOwn
<1> HIDE DEF place
<1>6. \A p \in V : w[Rank(V, p)] = t[p].val
  <2> TAKE p \in V
  <2>1. Rank(V, p) \in 1..N /\ place(Rank(V, p)) = p
      BY <1>4, <1>5
  <2> QED BY <1>3, <2>1
<1> DEFINE S == {w[n] : n \in 1..N} \cup {m, N}
<1>7. DOMAIN w = 1..N /\ w = [n \in 1..N |-> w[n]]
    BY <1>3
<1> HIDE DEF w
<1>8. w \in [1..N -> S]
    BY <1>7
<1>9. w \in Seq(S) /\ Len(w) = N
    BY <1>2, <1>7, <1>8
<1>10. <<m, N>> \in Seq(S) /\ Len(<<m, N>>) = 2 /\ <<m, N>>[1] = m /\ <<m, N>>[2] = N
  <2>1. m \in S /\ N \in S
      OBVIOUS
  <2> HIDE DEF S
  <2> QED BY <2>1
<1> DEFINE ints == <<m, N>> \o w
<1> HIDE DEF S
<1>11. \A i \in 1..(2 + N) : ints[i] = IF i <= 2 THEN <<m, N>>[i] ELSE w[i - 2]
    BY <1>9, <1>10, ConcatProperties
<1> HIDE DEF ints
<1>12. ints[1] = m /\ ints[2] = N
    BY <1>2, <1>10, <1>11
<1>13. \A n \in 1..N : ints[n + 2] = w[n]
  <2> TAKE n \in 1..N
  <2>1. n + 2 \in 1..(2 + N) /\ ~ (n + 2 <= 2) /\ (n + 2) - 2 = n
      BY <1>2
  <2> QED BY <1>11, <2>1
<1>14. \A p \in V : Rank(V, p) \in 1..N /\ ints[Rank(V, p) + 2] = t[p].val
    BY <1>4, <1>6, <1>13
<1>15. WriteMultTreeRequest(m, t) = ints
    BY DEF WriteMultTreeRequest, ints, N, w
<1> QED BY <1>2, <1>12, <1>14, <1>15 DEF N, V

(* The binary reply, read over the request, multiplies its visible values. *)
LEMMA BinaryReply ==
    ASSUME NEW t, IsTree(t), NEW m \in Nat, NEW r,
           r = ReadTree(DoMultTreeRequest(WriteMultTreeRequest(m, t)), t)
    PROVE  Relabelled(t, r) /\ \A p \in Visible(t) : r[p].val = Wrap(t[p].val * m)
<1> DEFINE V == Visible(t)
           N == TotalNodes(t)
           ints == WriteMultTreeRequest(m, t)
           res == DoMultTreeRequest(ints)
<1>1. /\ N \in Nat /\ ints[1] = m /\ ints[2] = N
      /\ \A p \in V : Rank(V, p) \in 1..N /\ ints[Rank(V, p) + 2] = t[p].val
    BY RequestWritten
<1> HIDE DEF ints, N
<1>2. res = [i \in 1..N |-> Wrap(ints[i + 2] * m)]
    BY <1>1 DEF DoMultTreeRequest
<1> HIDE DEF res
<1>3. \A p \in V : res[Rank(V, p)] = Wrap(t[p].val * m)
  <2> TAKE p \in V
  <2>1. Rank(V, p) \in 1..N /\ ints[Rank(V, p) + 2] = t[p].val
      BY <1>1
  <2>2. res[Rank(V, p)] = Wrap(ints[Rank(V, p) + 2] * m)
      BY <1>2, <2>1
  <2> QED BY <2>1, <2>2
<1>4. \A p \in V : Wrap(t[p].val * m) \in 0..(Values - 1)
    BY TreeFacts, VisibleNodes, ProductType
<1>5. r = ReadTree(res, t)
    BY DEF res, ints
<1>6. \A p \in V : res[Rank(V, p)] \in 0..(Values - 1)
    BY <1>3, <1>4
<1> HIDE DEF V
<1>7. Relabelled(t, r) /\ \A p \in V : r[p].val = res[Rank(V, p)]
    BY <1>5, <1>6, ReadTreeReads DEF V
<1>8. \A p \in V : r[p].val = Wrap(t[p].val * m)
    BY <1>3, <1>7
<1> QED BY <1>7, <1>8 DEF V

(* Random values leave the shape of a tree alone. *)
LEMMA Populated ==
    ASSUME NEW t, Sent(t), NEW seed \in Nat
    PROVE  Sent(PopulateWithRand(t, seed))
<1> DEFINE V == Visible(t)
           N == TotalNodes(t)
           ints == [i \in 1..N |-> Wrap(seed + i)]
<1>1. IsTree(t)
    BY DEF Sent
<1>2. V \in SUBSET Positions /\ IsFiniteSet(V)
    BY <1>1, VisibleNodes
<1>3. N = Cardinality(V) /\ N \in Nat
    BY <1>2, FS_CardinalityType DEF TotalNodes
<1>4. \A p \in V : Rank(V, p) \in 1..N
    BY <1>2, <1>3, RankIsOwn
<1>5. \A i \in 1..N : Wrap(seed + i) \in 0..(Values - 1)
    BY <1>3, WrapType
<1>6. \A p \in V : ints[Rank(V, p)] \in 0..(Values - 1)
    BY <1>4, <1>5
<1>7. PopulateWithRand(t, seed) = ReadTree(ints, t)
    BY DEF PopulateWithRand
<1> HIDE DEF ints
<1>8. Relabelled(t, PopulateWithRand(t, seed))
    BY <1>1, <1>6, <1>7, ReadTreeReads
<1> QED BY <1>1, <1>8, RelabelledTree

-----------------------------------------------------------------------------
(* The trees of the harness.                                               *)

(* Nodes with as many children as D has below them make a tree. *)
LEMMA ShapeIsSent ==
    ASSUME NEW D \in SUBSET Positions, IsFiniteSet(D), <<>> \in D,
           NEW count \in [D -> Nat],
           \A p \in D : \A i \in 1..count[p] : Append(p, i) \in D,
           \A p \in D : \A k \in 1..Len(p) : Above(p, k) \in D /\ p[k] <= count[Above(p, k)],
           NEW t, t = [p \in D |-> Node(count[p])]
    PROVE  Sent(t)
<1>1. DOMAIN t = D /\ \A p \in D : t[p] = Node(count[p]) /\ count[p] \in Nat
    OBVIOUS
<1>2. \A p \in D : t[p] \in Nodes /\ t[p].len = count[p] /\ t[p].cap = count[p]
    BY <1>1, NewNode
<1>3. t = [p \in D |-> t[p]] /\ \A p \in D : t[p].len <= t[p].cap
    BY <1>1, <1>2
<1>4. \A p \in D : \A i \in 1..t[p].cap : Append(p, i) \in D
    BY <1>2
<1>5. \A p \in D : \A k \in 1..Len(p) : Above(p, k) \in D /\ p[k] <= t[Above(p, k)].cap
    BY <1>2
<1>6. IsTree(t)
    BY <1>1, <1>2, <1>3, <1>4, <1>5, TreeFrom
<1> QED BY <1>1, <1>2, <1>6 DEF Sent

(* k elements of S are a sequence over S. *)
LEMMA Steps ==
    ASSUME NEW S, NEW k \in Nat, NEW p \in [1..k -> S]
    PROVE  p \in Seq(S) /\ Len(p) = k
OBVIOUS

(* What is in a box, and that it is finite: a position is the set of its numbered *)
(* steps, of which there are finitely many.                                       *)
LEMMA BoxPositions ==
    ASSUME NEW c \in Nat, NEW n \in Nat
    PROVE  /\ Box(c, n) = {p \in Positions : Len(p) <= n /\ \A k \in 1..Len(p) : p[k] <= c}
           /\ IsFiniteSet(Box(c, n)) /\ <<>> \in Box(c, n)
<1>1. ASSUME NEW p \in Box(c, n)
      PROVE  p \in Positions /\ Len(p) <= n /\ \A k \in 1..Len(p) : p[k] \in 1..c
  <2>1. PICK k \in 0..n : p \in [1..k -> 1..c]
      BY DEF Box
  <2>2. k \in Nat /\ p \in [1..k -> Nat \ {0}]
    <3>1. k \in Nat /\ 1..c \subseteq Nat \ {0}
        OBVIOUS
    <3>2. \A S, T : 1..c \subseteq T /\ p \in [S -> 1..c] => p \in [S -> T]
        OBVIOUS
    <3> QED BY <2>1, <3>1, <3>2, Zenon
  <2>3. p \in Seq(Nat \ {0}) /\ Len(p) = k
      BY <2>2, Steps, Zenon
  <2> QED BY <2>1, <2>3 DEF Positions
<1>2. ASSUME NEW p \in Positions, Len(p) <= n, \A k \in 1..Len(p) : p[k] <= c
      PROVE  p \in Box(c, n)
  <2>1. Len(p) \in Nat /\ p \in [1..Len(p) -> Nat \ {0}]
      BY LenProperties DEF Positions
  <2>2. \A k \in 1..Len(p) : p[k] \in 1..c
      BY <1>2, <2>1
  <2>3. p \in [1..Len(p) -> 1..c] /\ Len(p) \in 0..n
      BY <1>2, <2>1, <2>2
  <2> QED BY <2>3 DEF Box
<1>3. Box(c, n) = {p \in Positions : Len(p) <= n /\ \A k \in 1..Len(p) : p[k] <= c}
    BY <1>1, <1>2
<1>4. <<>> \in Box(c, n)
  <2>1. <<>> \in Positions /\ Len(<<>>) = 0
      BY EmptySeq DEF Positions
  <2> QED BY <1>2, <2>1
<1>5. IsFiniteSet(Box(c, n))
  <2> DEFINE T == SUBSET ((1..n) \X (1..c))
             steps(p) == {<<k, p[k]>> : k \in 1..Len(p)}
             f == [p \in Box(c, n) |-> steps(p)]
  <2>1. IsFiniteSet((1..n) \X (1..c))
    <3>1. IsFiniteSet(1..n) /\ IsFiniteSet(1..c)
        BY FS_Interval
    <3> QED BY <3>1, FS_Product
  <2>2. IsFiniteSet(T)
      BY <2>1, FS_SUBSET
  <2>3. ASSUME NEW p \in Box(c, n) PROVE steps(p) \in T
    <3>1. Len(p) \in Nat /\ Len(p) <= n /\ \A k \in 1..Len(p) : p[k] \in 1..c
        BY <1>1, LenProperties DEF Positions
    <3>2. \A k \in 1..Len(p) : k \in 1..n
        BY <3>1
    <3> QED BY <3>1, <3>2
  <2>4. ASSUME NEW p \in Box(c, n), NEW q \in Box(c, n), steps(p) = steps(q) PROVE p = q
    <3>1. p \in Positions /\ q \in Positions /\ Len(p) \in Nat /\ Len(q) \in Nat
        BY <1>1, LenProperties DEF Positions
    <3>2. \A k \in 1..Len(p) : k \in 1..Len(q) /\ q[k] = p[k]
      <4> TAKE k \in 1..Len(p)
      <4>1. <<k, p[k]>> \in steps(q)
          BY <2>4
      <4> QED BY <4>1
    <3>3. \A k \in 1..Len(q) : k \in 1..Len(p)
      <4> TAKE k \in 1..Len(q)
      <4>1. <<k, q[k]>> \in steps(p)
          BY <2>4
      <4> QED BY <4>1
    <3>4. Len(p) = Len(q)
      <4>1. Len(p) <= Len(q)
        <5>1. CASE Len(p) = 0
            BY <3>1, <5>1
        <5>2. CASE Len(p) # 0
          <6>1. Len(p) \in 1..Len(p)
              BY <3>1, <5>2
          <6> QED BY <3>2, <6>1
        <5> QED BY <5>1, <5>2
      <4>2. Len(q) <= Len(p)
        <5>1. CASE Len(q) = 0
            BY <3>1, <5>1
        <5>2. CASE Len(q) # 0
          <6>1. Len(q) \in 1..Len(q)
              BY <3>1, <5>2
          <6> QED BY <3>3, <6>1
        <5> QED BY <5>1, <5>2
      <4> QED BY <3>1, <4>1, <4>2
    <3> QED BY <3>1, <3>2, <3>4, SeqEqual DEF Positions
  <2> HIDE DEF steps, T
  <2>5. f \in [Box(c, n) -> T] /\ \A p, q \in Box(c, n) : f[p] = f[q] => p = q
      BY <2>3, <2>4
  <2>6. f \in Injection(Box(c, n), T)
      BY <2>5 DEF Injection, IsInjective
  <2> QED BY <2>2, <2>6, FS_Injection
<1> QED BY <1>3, <1>4, <1>5

LEMMA ZeroIsSent == Sent(Zero)
<1> DEFINE D == {<<>>}
           count == [p \in D |-> 0]
<1>1. <<>> \in Positions /\ Len(<<>>) = 0
    BY EmptySeq DEF Positions
<1>2. D \in SUBSET Positions /\ <<>> \in D /\ count \in [D -> Nat]
    BY <1>1
<1>3. IsFiniteSet(D)
    BY FS_Singleton
<1>4. \A p \in D : Len(p) = 0 /\ count[p] = 0
    BY <1>1
<1>5. Zero = [p \in D |-> Node(count[p])]
    BY DEF Zero
<1> HIDE DEF D, count
<1> QED BY <1>2, <1>3, <1>4, <1>5, ShapeIsSent

LEMMA DenseIsSent ==
    ASSUME NEW d \in Nat, NEW l \in Nat
    PROVE  Sent(MakeDenseTreeNode(d, l))
<1> DEFINE D == Box(d, l)
           count == [p \in D |-> IF Len(p) < l THEN d ELSE 0]
<1>1. /\ D = {p \in Positions : Len(p) <= l /\ \A k \in 1..Len(p) : p[k] <= d}
      /\ IsFiniteSet(D) /\ <<>> \in D
    BY BoxPositions
<1>2. D \in SUBSET Positions /\ count \in [D -> Nat]
    BY <1>1
<1>3. \A p \in D : count[p] = IF Len(p) < l THEN d ELSE 0
    OBVIOUS
<1>4. MakeDenseTreeNode(d, l) = [p \in D |-> Node(count[p])]
    BY DEF MakeDenseTreeNode
<1> HIDE DEF D, count
<1>5. ASSUME NEW p \in D, NEW i \in 1..count[p] PROVE Append(p, i) \in D
  <2>1. Len(p) < l /\ count[p] = d /\ p \in Positions /\ Len(p) \in Nat
        /\ \A k \in 1..Len(p) : p[k] <= d
      BY <1>1, <1>3, LenProperties DEF Positions
  <2>2. i \in Nat \ {0} /\ i <= d
      BY <2>1
  <2> DEFINE q == Append(p, i)
  <2>3. q \in Positions /\ Len(q) = Len(p) + 1 /\ q[Len(p) + 1] = i
        /\ \A k \in 1..Len(p) : q[k] = p[k]
      BY <2>1, <2>2, Child
  <2> HIDE DEF q
  <2>4. \A k \in 1..Len(q) : q[k] <= d
      BY <2>1, <2>2, <2>3
  <2>5. Len(q) <= l
      BY <2>1, <2>3
  <2>6. q \in D
      BY <1>1, <2>3, <2>4, <2>5
  <2> QED BY <2>6 DEF q
<1>6. ASSUME NEW p \in D, NEW k \in 1..Len(p)
      PROVE  Above(p, k) \in D /\ p[k] <= count[Above(p, k)]
  <2>1. p \in Positions /\ Len(p) \in Nat /\ Len(p) <= l /\ \A j \in 1..Len(p) : p[j] <= d
      BY <1>1, LenProperties DEF Positions
  <2> DEFINE u == Above(p, k)
  <2>2. u \in Positions /\ Len(u) = k - 1 /\ \A j \in 1..(k - 1) : u[j] = p[j]
      BY <2>1, NodesAbove
  <2> HIDE DEF u
  <2>3. Len(u) < l /\ Len(u) <= l /\ \A j \in 1..Len(u) : u[j] <= d
      BY <2>1, <2>2
  <2>4. u \in D
      BY <1>1, <2>2, <2>3
  <2>5. p[k] <= count[u]
      BY <1>3, <2>1, <2>3, <2>4
  <2> QED BY <2>4, <2>5 DEF u
<1> QED BY <1>1, <1>2, <1>4, <1>5, <1>6, ShapeIsSent

LEMMA RandomIsSent ==
    ASSUME NEW l \in Nat, NEW b \in Nat, NEW r \in MakeRandomTree(l, b)
    PROVE  Sent(r)
<1>1. CASE l = 0 \/ b = 0
    BY <1>1, ZeroIsSent DEF MakeRandomTree
<1>2. CASE ~ (l = 0 \/ b = 0)
  <2> DEFINE inner == Box(b - 1, l - 1)
             box == Box(b - 1, l)
             shape(c) == {p \in box : \A k \in 1..Len(p) : p[k] <= c[Above(p, k)]}
  <2>1. PICK c \in [inner -> IntN(b)] :
          r = [p \in shape(c) |-> Node(IF p \in inner THEN c[p] ELSE 0)]
      BY <1>2 DEF MakeRandomTree
  <2>2. b - 1 \in Nat /\ l - 1 \in Nat /\ IntN(b) \subseteq Nat
        /\ \A n \in IntN(b) : n <= b - 1
      BY <1>2 DEF IntN
  <2>3. /\ inner = {p \in Positions : Len(p) <= l - 1 /\ \A k \in 1..Len(p) : p[k] <= b - 1}
        /\ box = {p \in Positions : Len(p) <= l /\ \A k \in 1..Len(p) : p[k] <= b - 1}
        /\ IsFiniteSet(box) /\ <<>> \in box
      BY <2>2, BoxPositions
  <2> DEFINE D == shape(c)
             count == [p \in D |-> IF p \in inner THEN c[p] ELSE 0]
  <2>4. D \in SUBSET box /\ <<>> \in D
      BY <2>3, EmptySeq
  <2>5. IsFiniteSet(D) /\ D \in SUBSET Positions
      BY <2>3, <2>4, FS_Subset
  <2>6. \A p \in D : \A k \in 1..Len(p) : p[k] <= c[Above(p, k)]
      OBVIOUS
  <2>7. \A p \in box : (\A k \in 1..Len(p) : p[k] <= c[Above(p, k)]) => p \in D
      OBVIOUS
  <2> HIDE DEF inner, box
  <2>8. \A p \in inner : c[p] \in Nat /\ c[p] <= b - 1
      BY <2>2
  <2>9. \A p \in D : count[p] = IF p \in inner THEN c[p] ELSE 0
      OBVIOUS
  <2>10. count \in [D -> Nat]
      BY <2>8
  <2>11. r = [p \in D |-> Node(count[p])]
      BY <2>1, <2>9
  <2> HIDE DEF D, count
  <2>12. ASSUME NEW p \in D, NEW i \in 1..count[p] PROVE Append(p, i) \in D
    <3>1. p \in inner /\ count[p] = c[p] /\ c[p] \in Nat /\ c[p] <= b - 1
        BY <2>8, <2>9
    <3>2. p \in Positions /\ Len(p) \in Nat /\ Len(p) <= l - 1
          /\ \A k \in 1..Len(p) : p[k] <= b - 1
        BY <2>3, <3>1, LenProperties DEF Positions
    <3>3. i \in Nat \ {0} /\ i <= c[p] /\ i <= b - 1
        BY <2>2, <3>1
    <3> DEFINE q == Append(p, i)
    <3>4. q \in Positions /\ Len(q) = Len(p) + 1 /\ q[Len(p) + 1] = i
          /\ Above(q, Len(p) + 1) = p
          /\ \A k \in 1..Len(p) : q[k] = p[k] /\ Above(q, k) = Above(p, k)
        BY <3>2, <3>3, Child
    <3> HIDE DEF q
    <3>5. \A k \in 1..Len(q) : q[k] <= b - 1
        BY <3>2, <3>3, <3>4
    <3>6. Len(q) <= l
        BY <2>2, <3>2, <3>4
    <3>7. q \in box
        BY <2>3, <3>4, <3>5, <3>6
    <3>8. \A k \in 1..Len(q) : q[k] <= c[Above(q, k)]
      <4> TAKE k \in 1..Len(q)
      <4>1. CASE k = Len(p) + 1
          BY <3>3, <3>4, <4>1
      <4>2. CASE k \in 1..Len(p)
          BY <2>6, <3>4, <4>2
      <4> QED BY <3>2, <3>4, <4>1, <4>2
    <3>9. q \in D
        BY <2>7, <3>7, <3>8
    <3> QED BY <3>9 DEF q
  <2>13. ASSUME NEW p \in D, NEW k \in 1..Len(p)
         PROVE  Above(p, k) \in D /\ p[k] <= count[Above(p, k)]
    <3>1. p \in box
        BY <2>4
    <3>2. p \in Positions /\ Len(p) \in Nat /\ Len(p) <= l
          /\ \A j \in 1..Len(p) : p[j] <= b - 1
        BY <2>3, <3>1, LenProperties DEF Positions
    <3> DEFINE u == Above(p, k)
    <3>3. u \in Positions /\ Len(u) = k - 1
          /\ \A j \in 1..(k - 1) : u[j] = p[j] /\ Above(u, j) = Above(p, j)
        BY <3>2, NodesAbove
    <3>4. p[k] <= c[u]
        BY <2>6
    <3> HIDE DEF u
    <3>5. Len(u) <= l - 1 /\ Len(u) <= l /\ \A j \in 1..Len(u) : u[j] <= b - 1
        BY <2>2, <3>2, <3>3
    <3>6. u \in inner /\ u \in box
        BY <2>3, <3>3, <3>5
    <3>7. \A j \in 1..Len(u) : u[j] <= c[Above(u, j)]
        BY <2>6, <3>2, <3>3
    <3>8. u \in D
        BY <2>7, <3>6, <3>7
    <3>9. p[k] <= count[u]
        BY <2>9, <3>4, <3>6, <3>8
    <3> QED BY <3>8, <3>9 DEF u
  <2> QED BY <2>4, <2>5, <2>10, <2>11, <2>12, <2>13, ShapeIsSent
<1> QED BY <1>1, <1>2

-----------------------------------------------------------------------------
(* Products, and what the harness's check says of them.                    *)

LEMMA LabelsOf ==
    ASSUME NEW t, NEW m
    PROVE  /\ \A p, v : <<p, v>> \in Labels(t) <=> p \in Visible(t) /\ v = t[p].val
           /\ \A p, v : <<p, v>> \in Product(t, m) <=>
                          p \in Visible(t) /\ v = Wrap(t[p].val * m)
           /\ Product(t, m) = {<<p, Wrap(t[p].val * m)>> : p \in Visible(t)}
<1>1. Labels(t) = {<<p, t[p].val>> : p \in Visible(t)}
    BY DEF Labels
<1>2. Product(t, m) = {<<p, Wrap(t[p].val * m)>> : p \in Visible(t)}
  <2>1. \A p \in Visible(t) : <<p, t[p].val>>[1] = p /\ <<p, t[p].val>>[2] = t[p].val
      OBVIOUS
  <2>2. Product(t, m) = {<<x[1], Wrap(x[2] * m)>> : x \in Labels(t)}
      BY DEF Product
  <2>3. ASSUME NEW x \in Labels(t)
        PROVE  \E p \in Visible(t) : <<x[1], Wrap(x[2] * m)>> = <<p, Wrap(t[p].val * m)>>
    <3>1. PICK p \in Visible(t) : x = <<p, t[p].val>>
        BY <1>1
    <3> QED BY <2>1, <3>1
  <2>4. ASSUME NEW p \in Visible(t)
        PROVE  \E x \in Labels(t) : <<p, Wrap(t[p].val * m)>> = <<x[1], Wrap(x[2] * m)>>
    <3>1. <<p, t[p].val>> \in Labels(t)
        BY <1>1
    <3> QED BY <2>1, <3>1
  <2> QED BY <2>2, <2>3, <2>4
<1> QED BY <1>1, <1>2

(* The same nodes with multiplied values are the product, and nothing else is. *)
LEMMA ProductIff ==
    ASSUME NEW r, NEW t, NEW m
    PROVE  Labels(r) = Product(t, m) <=>
             /\ Visible(r) = Visible(t)
             /\ \A p \in Visible(t) : r[p].val = Wrap(t[p].val * m)
<1>1. ASSUME Labels(r) = Product(t, m)
      PROVE  /\ Visible(r) = Visible(t)
             /\ \A p \in Visible(t) : r[p].val = Wrap(t[p].val * m)
  <2>1. ASSUME NEW p \in Visible(r) PROVE p \in Visible(t)
    <3>1. <<p, r[p].val>> \in Labels(r)
        BY LabelsOf
    <3> QED BY <1>1, <3>1, LabelsOf
  <2>2. ASSUME NEW p \in Visible(t)
        PROVE  p \in Visible(r) /\ r[p].val = Wrap(t[p].val * m)
    <3>1. <<p, Wrap(t[p].val * m)>> \in Product(t, m)
        BY LabelsOf
    <3>2. <<p, Wrap(t[p].val * m)>> \in Labels(r)
        BY <1>1, <3>1
    <3> QED BY <3>2, LabelsOf
  <2> QED BY <2>1, <2>2
<1>2. ASSUME Visible(r) = Visible(t), \A p \in Visible(t) : r[p].val = Wrap(t[p].val * m)
      PROVE  Labels(r) = Product(t, m)
  <2>1. Labels(r) = {<<p, r[p].val>> : p \in Visible(t)}
      BY <1>2 DEF Labels
  <2>2. Product(t, m) = {<<p, Wrap(t[p].val * m)>> : p \in Visible(t)}
      BY LabelsOf
  <2> QED BY <1>2, <2>1, <2>2
<1> QED BY <1>1, <1>2

(* Trees with the same visible nodes have the same numbers of children. *)
LEMMA SameNodesSameCounts ==
    ASSUME NEW a, IsTree(a), NEW b, IsTree(b), Visible(a) = Visible(b), NEW p \in Visible(a)
    PROVE  a[p].len <= b[p].len
<1>1. p \in DOMAIN a /\ p \in DOMAIN b /\ p \in Positions /\ Len(p) \in Nat
    BY VisibleNodes, LenProperties DEF Positions
<1>2. a[p].len \in Nat /\ b[p].len \in Nat
    BY <1>1, TreeFacts
<1>3. CASE a[p].len = 0
    BY <1>2, <1>3
<1>4. CASE a[p].len # 0
  <2> DEFINE i == a[p].len
             c == Append(p, i)
  <2>1. i \in 1..a[p].len /\ i \in Nat \ {0}
      BY <1>2, <1>4
  <2>2. c \in Visible(a)
      BY <2>1, VisibleNodes
  <2>3. c \in Visible(b)
      BY <2>2
  <2>4. Len(c) = Len(p) + 1 /\ c[Len(p) + 1] = i /\ Above(c, Len(p) + 1) = p
      BY <1>1, <2>1, Child
  <2> HIDE DEF c, i
  <2>5. Len(p) + 1 \in 1..Len(c)
      BY <1>1, <2>4
  <2>6. c[Len(p) + 1] <= b[Above(c, Len(p) + 1)].len
      BY <2>3, <2>5, VisibleNodes
  <2>7. i <= b[p].len
      BY <2>4, <2>6
  <2> QED BY <2>7 DEF i
<1> QED BY <1>3, <1>4

(* Where two trees agree on the number of children of every node both show, a     *)
(* node one shows is shown by the other.                                          *)
LEMMA SameCountsSameNodes ==
    ASSUME NEW a, IsTree(a), NEW b, IsTree(b),
           \A p \in Visible(a) \cap Visible(b) : a[p].len = b[p].len
    PROVE  Visible(a) \subseteq Visible(b)
<1> SUFFICES ASSUME NEW p \in Visible(a) PROVE p \in Visible(b)
    OBVIOUS
<1> DEFINE D == Visible(b)
<1>1. p \in Positions /\ <<>> \in D
    BY VisibleNodes
<1>2. ASSUME NEW k \in 1..Len(p), Above(p, k) \in D PROVE Append(Above(p, k), p[k]) \in D
  <2> DEFINE u == Above(p, k)
  <2>1. u \in Visible(a) /\ p[k] <= a[u].len
      BY VisibleNodes
  <2>2. p[k] \in Nat \ {0}
      BY <1>1, Step
  <2> HIDE DEF u
  <2>3. u \in D
      BY <1>2 DEF u
  <2>4. a[u].len = b[u].len /\ b[u].len \in Nat
      BY <2>1, <2>3, VisibleNodes, TreeFacts
  <2>5. p[k] \in 1..b[u].len
      BY <2>1, <2>2, <2>4
  <2>6. Append(u, p[k]) \in D
      BY <2>3, <2>5, VisibleNodes
  <2> QED BY <2>6 DEF u
<1> HIDE DEF D
<1>3. p \in D
    BY <1>1, <1>2, WalkDown
<1> QED BY <1>3 DEF D

(* treeMatchesForMult accepts exactly the product. *)
LEMMA MatchesIffProduct ==
    ASSUME NEW src, IsTree(src), NEW tgt, IsTree(tgt), NEW m
    PROVE  TreeMatchesForMult(src, tgt, m) <=> Labels(src) = Product(tgt, m)
<1>1. ASSUME TreeMatchesForMult(src, tgt, m) PROVE Labels(src) = Product(tgt, m)
  <2>1. \A p \in Visible(src) \cap Visible(tgt) :
          Wrap(tgt[p].val * m) = src[p].val /\ tgt[p].len = src[p].len
      BY <1>1 DEF TreeMatchesForMult
  <2>2. Visible(src) \subseteq Visible(tgt)
      BY <2>1, SameCountsSameNodes
  <2>3. Visible(tgt) \subseteq Visible(src)
      BY <2>1, SameCountsSameNodes
  <2>4. Visible(src) = Visible(tgt)
      BY <2>2, <2>3
  <2> QED BY <2>1, <2>4, ProductIff
<1>2. ASSUME Labels(src) = Product(tgt, m) PROVE TreeMatchesForMult(src, tgt, m)
  <2>1. Visible(src) = Visible(tgt) /\ \A p \in Visible(tgt) : src[p].val = Wrap(tgt[p].val * m)
      BY <1>2, ProductIff
  <2>2. \A p \in Visible(tgt) : src[p].len \in Nat /\ tgt[p].len \in Nat
      BY <2>1, VisibleNodes, TreeFacts
  <2>3. \A p \in Visible(tgt) : src[p].len <= tgt[p].len /\ tgt[p].len <= src[p].len
      BY <2>1, SameNodesSameCounts
  <2> QED BY <2>1, <2>2, <2>3 DEF TreeMatchesForMult
<1> QED BY <1>1, <1>2

-----------------------------------------------------------------------------
(* The calls.                                                              *)

(* What another process sees of a tree has the tree's labels. *)
LEMMA ViewLabels ==
    ASSUME NEW t, IsTree(t)
    PROVE  Sent(View(t)) /\ Visible(View(t)) = Visible(t)
           /\ \A p \in Visible(t) : View(t)[p].val = t[p].val
<1>1. Sent(View(t)) /\ DOMAIN View(t) = Visible(t)
      /\ \A p \in Visible(t) : View(t)[p].val = t[p].val
    BY ViewIsSent
<1> QED BY <1>1, AllVisible

(* A reply: it shows the nodes of "arg", with their values multiplied. *)
Answers(r, arg, m) ==
    /\ IsTree(r) /\ Visible(r) = Visible(arg)
    /\ \A p \in Visible(arg) : r[p].val = Wrap(arg[p].val * m)

LEMMA AnswersSeen ==
    ASSUME NEW arg, NEW m, NEW r, Answers(r, arg, m)
    PROVE  Answers(View(r), arg, m) /\ Sent(View(r))
<1>1. IsTree(r) /\ Visible(r) = Visible(arg)
      /\ \A p \in Visible(arg) : r[p].val = Wrap(arg[p].val * m)
    BY DEF Answers
<1>2. Sent(View(r)) /\ Visible(View(r)) = Visible(r)
      /\ \A p \in Visible(r) : View(r)[p].val = r[p].val
    BY <1>1, ViewLabels
<1> QED BY <1>1, <1>2 DEF Answers, Sent

(* A copy of a reply is one, and what multiplies a copy of the arguments is one. *)
LEMMA AnswersWritten ==
    ASSUME NEW arg, NEW m, NEW msg, Sent(msg), Answers(msg, arg, m), NEW to, NEW r,
           Written(msg, to, r)
    PROVE  Answers(r, arg, m)
<1>1. Visible(msg) = DOMAIN msg
    BY AllVisible
<1> QED BY <1>1 DEF Answers, Written

LEMMA AnswersMult ==
    ASSUME NEW arg, Sent(arg), NEW to, NEW t, Written(arg, to, t), NEW m \in Nat
    PROVE  Answers(Mult(t, m), arg, m)
<1>1. Visible(arg) = DOMAIN arg /\ IsTree(t) /\ Visible(t) = DOMAIN arg
      /\ \A p \in DOMAIN arg : t[p].val = arg[p].val
    BY AllVisible DEF Written
<1>2. /\ Relabelled(t, Mult(t, m))
      /\ \A p \in Visible(t) : Mult(t, m)[p].val = Wrap(t[p].val * m)
    BY <1>1, MultTree
<1>3. IsTree(Mult(t, m)) /\ Visible(Mult(t, m)) = Visible(t)
    BY <1>1, <1>2, RelabelledTree
<1> QED BY <1>1, <1>2, <1>3 DEF Answers

(* What arrives of the arguments is the arguments. *)
LEMMA ViewWritten ==
    ASSUME NEW arg, Sent(arg), NEW to, NEW t, Written(arg, to, t)
    PROVE  Sent(View(t)) /\ Written(arg, View(t), View(t)) /\ DOMAIN View(t) = DOMAIN arg
<1>1. IsTree(t) /\ Visible(t) = DOMAIN arg
      /\ \A p \in DOMAIN arg : t[p].val = arg[p].val /\ t[p].len = arg[p].len
    BY DEF Written
<1>2. /\ Sent(View(t)) /\ DOMAIN View(t) = Visible(t)
      /\ \A p \in Visible(t) : View(t)[p].val = t[p].val /\ View(t)[p].len = t[p].len
    BY <1>1, ViewIsSent
<1>3. Visible(View(t)) = DOMAIN View(t)
    BY <1>2, AllVisible
<1> QED BY <1>1, <1>2, <1>3 DEF Written, Sent

(* The client and the server after a call. *)
Answered(m, arg) ==
    /\ IsTree(tree) /\ IsTree(readTree) /\ IsTree(served)
    /\ Answers(reply, arg, m)

Storages == IsTree(tree) /\ IsTree(readTree) /\ IsTree(served)

LEMMA BinaryCallAnswers ==
    ASSUME NEW arg, Sent(arg), NEW m \in Nat, Storages, BinaryCall(m, arg)
    PROVE  Answered(m, arg)'
<1> DEFINE filled == CopyTree(arg, Reset(tree))
           r == ReadTree(DoMultTreeRequest(WriteMultTreeRequest(m, filled)), filled)
<1>1. Written(arg, Reset(tree), filled)
    BY ResetTree, CopyTreeWrites DEF Storages
<1>2. tree' = r /\ reply' = View(tree') /\ readTree' = readTree /\ served' = served
    BY DEF BinaryCall
<1> HIDE DEF filled
<1>3. IsTree(filled) /\ Visible(filled) = DOMAIN arg /\ Visible(arg) = DOMAIN arg
      /\ \A p \in DOMAIN arg : filled[p].val = arg[p].val
    BY <1>1, AllVisible DEF Written
<1>4. Relabelled(filled, r) /\ \A p \in Visible(filled) : r[p].val = Wrap(filled[p].val * m)
    BY <1>3, BinaryReply
<1> HIDE DEF r
<1>5. Answers(r, arg, m)
    BY <1>3, <1>4, RelabelledTree DEF Answers
<1>6. Answers(View(r), arg, m)
    BY <1>5, AnswersSeen
<1> QED BY <1>2, <1>5, <1>6 DEF Answered, Answers, Storages

LEMMA JSONCallAnswers ==
    ASSUME NEW arg, Sent(arg), NEW m \in Nat, Storages, JSONCall(m, arg)
    PROVE  Answered(m, arg)'
<1> DEFINE filled == CopyTree(arg, Reset(tree))
           msg == View(filled)
           s == Mult(Decode(msg, served), m)
           r == Decode(View(s), Reset(filled))
<1>1. Written(arg, Reset(tree), filled)
    BY ResetTree, CopyTreeWrites DEF Storages
<1>2. served' = s /\ tree' = Decode(View(served'), Reset(filled)) /\ reply' = View(tree')
      /\ readTree' = readTree
    BY DEF JSONCall
<1>3. tree' = r
    BY <1>2
<1> HIDE DEF filled
<1>4. Sent(msg) /\ Written(arg, msg, msg) /\ DOMAIN msg = DOMAIN arg /\ IsTree(filled)
    BY <1>1, ViewWritten DEF Written
<1> HIDE DEF msg
<1>5. Written(msg, served, Decode(msg, served))
    BY <1>4, DecodeWrites DEF Storages
<1>6. Written(arg, served, Decode(msg, served))
    BY <1>4, <1>5 DEF Written
<1>7. Answers(s, arg, m)
    BY <1>6, AnswersMult
<1> HIDE DEF s
<1>8. Sent(View(s)) /\ Answers(View(s), arg, m)
    BY <1>7, AnswersSeen
<1>9. Written(View(s), Reset(filled), r)
    BY <1>4, <1>8, ResetTree, DecodeWrites
<1> HIDE DEF r
<1>10. Answers(r, arg, m)
    BY <1>8, <1>9, AnswersWritten
<1>11. Answers(View(r), arg, m)
    BY <1>10, AnswersSeen
<1> QED BY <1>2, <1>3, <1>7, <1>10, <1>11 DEF Answered, Answers, Storages

LEMMA GRPCCallAnswers ==
    ASSUME NEW arg, Sent(arg), NEW m \in Nat, Storages, GRPCCall(m, arg)
    PROVE  Answered(m, arg)'
<1> DEFINE t == CopyTreeGrow(arg, tree)
<1>1. Written(arg, tree, t)
    BY CopyTreeGrowWrites DEF Storages
<1>2. tree' = t /\ reply' = Mult(View(t), m) /\ readTree' = readTree /\ served' = served
    BY DEF GRPCCall, GRPCMultTree
<1> HIDE DEF t
<1>3. Written(arg, View(t), View(t)) /\ IsTree(t)
    BY <1>1, ViewWritten DEF Written
<1>4. Answers(Mult(View(t), m), arg, m)
    BY <1>3, AnswersMult
<1> QED BY <1>2, <1>3, <1>4 DEF Answered, Storages

LEMMA GoCapnpCallAnswers ==
    ASSUME NEW arg, Sent(arg), NEW m \in Nat, Storages, GoCapnpCall(m, arg)
    PROVE  Answered(m, arg)'
<1> DEFINE t == CopyTree(arg, Zero)
           s == Mult(View(t), m)
           r == CopyTree(s, Zero)
<1>1. reply' = View(r) /\ tree' = tree /\ readTree' = readTree /\ served' = served
    BY DEF GoCapnpCall, GoCapnpMultTree
<1>2. IsTree(Zero)
    BY ZeroIsSent DEF Sent
<1>3. Written(arg, Zero, t)
    BY <1>2, CopyTreeWrites
<1> HIDE DEF t
<1>4. Sent(View(t)) /\ Written(arg, View(t), View(t))
    BY <1>3, ViewWritten
<1>5. Answers(s, arg, m)
    BY <1>4, AnswersMult
<1>6. Sent(s)
    BY <1>4, MultTree, RelabelledTree DEF Sent
<1> HIDE DEF s
<1>7. Written(s, Zero, r)
    BY <1>2, <1>6, CopyTreeWrites
<1> HIDE DEF r
<1>8. Answers(r, arg, m)
    BY <1>5, <1>6, <1>7, AnswersWritten
<1>9. Answers(View(r), arg, m)
    BY <1>8, AnswersSeen
<1> QED BY <1>1, <1>9 DEF Answered, Storages

(* mdcapnp's server answers what it received. *)
LEMMA AnswersMDCapnp ==
    ASSUME NEW arg, Sent(arg), NEW to, NEW t, Written(arg, to, t), NEW m \in Nat, NEW res,
           res = MDCapnpMultTree(m, View(t))
    PROVE  Sent(res) /\ Answers(res, arg, m)
<1> DEFINE in == View(t)
<1>1. Sent(in) /\ Written(arg, in, in) /\ DOMAIN in = DOMAIN arg
    BY ViewWritten
<1>2. res = MDCapnpMultTree(m, in)
    OBVIOUS
<1> HIDE DEF in
<1>3. /\ Sent(res) /\ DOMAIN res = DOMAIN in
      /\ \A p \in DOMAIN in : res[p].val = Wrap(in[p].val * m)
    BY <1>1, <1>2, MDCapnpMultTreeIsSent
<1>4. \A p \in DOMAIN arg : in[p].val = arg[p].val
    BY <1>1 DEF Written
<1>5. Visible(res) = DOMAIN res /\ Visible(arg) = DOMAIN arg /\ IsTree(res)
    BY <1>3, AllVisible DEF Sent
<1> QED BY <1>1, <1>3, <1>4, <1>5 DEF Answers

LEMMA MDCapnpCallAnswers ==
    ASSUME NEW arg, Sent(arg), NEW m \in Nat, Storages, MDCapnpCall(m, arg)
    PROVE  Answered(m, arg)'
<1> DEFINE t == CopyTree(arg, Zero)
           res == MDCapnpMultTree(m, View(t))
           r == CopyTree(res, Zero)
<1>1. reply' = View(r) /\ tree' = tree /\ readTree' = readTree /\ served' = served
    BY DEF MDCapnpCall, ResetReader
<1>2. IsTree(Zero)
    BY ZeroIsSent DEF Sent
<1>3. Written(arg, Zero, t)
    BY <1>2, CopyTreeWrites
<1> HIDE DEF t
<1>4. Sent(res) /\ Answers(res, arg, m)
    BY <1>3, AnswersMDCapnp
<1> HIDE DEF res
<1>5. Written(res, Zero, r)
    BY <1>2, <1>4, CopyTreeWrites
<1> HIDE DEF r
<1>6. Answers(r, arg, m)
    BY <1>4, <1>5, AnswersWritten
<1>7. Answers(View(r), arg, m)
    BY <1>6, AnswersSeen
<1> QED BY <1>1, <1>7 DEF Answered, Storages

LEMMA Level0CallAnswers ==
    ASSUME NEW arg, Sent(arg), NEW m \in Nat, Storages, Level0Call(m, arg)
    PROVE  Answered(m, arg)'
<1> DEFINE t == CopyTree(arg, tree)
           res == MDCapnpMultTree(m, View(t))
           r == CopyTree(res, readTree)
<1>1. tree' = t /\ readTree' = r /\ reply' = View(r) /\ served' = served
    BY DEF Level0Call, ResetReader
<1>2. Written(arg, tree, t)
    BY CopyTreeWrites DEF Storages
<1> HIDE DEF t
<1>3. Sent(res) /\ Answers(res, arg, m)
    BY <1>2, AnswersMDCapnp
<1> HIDE DEF res
<1>4. Written(res, readTree, r)
    BY <1>3, CopyTreeWrites DEF Storages
<1> HIDE DEF r
<1>5. Answers(r, arg, m)
    BY <1>3, <1>4, AnswersWritten
<1>6. Answers(View(r), arg, m)
    BY <1>5, AnswersSeen
<1>7. IsTree(t)
    BY <1>2 DEF Written
<1> QED BY <1>1, <1>5, <1>6, <1>7 DEF Answered, Answers, Storages

(* A tree that is reset has no children anywhere if its hidden nodes had none; so  *)
(* what is written over it shows all the children there are.                       *)
LEMMA WrittenOverReset ==
    ASSUME NEW t, IsTree(t), NothingHidden(t), NEW from, Sent(from), NEW r,
           Written(from, Reset(t), r)
    PROVE  NothingHidden(r)
<1>1. /\ DOMAIN Reset(t) = DOMAIN t
      /\ \A p \in Visible(t) : Reset(t)[p].len = 0
      /\ \A p \in DOMAIN t \ Visible(t) : Reset(t)[p].len = t[p].len
    BY ResetTree
<1>2. \A p \in DOMAIN t : Reset(t)[p].len = 0
    BY <1>1 DEF NothingHidden
<1>3. Visible(r) = DOMAIN from
      /\ \A p \in DOMAIN r \ DOMAIN from : p \in DOMAIN Reset(t) /\ r[p].len = Reset(t)[p].len
    BY DEF Written
<1> QED BY <1>1, <1>2, <1>3 DEF NothingHidden

LEMMA BinaryCallHides ==
    ASSUME NEW arg, Sent(arg), NEW m \in Nat, Storages, BinaryCall(m, arg), NothingHidden(tree)
    PROVE  NothingHidden(tree')
<1> DEFINE filled == CopyTree(arg, Reset(tree))
           r == ReadTree(DoMultTreeRequest(WriteMultTreeRequest(m, filled)), filled)
<1>1. Written(arg, Reset(tree), filled)
    BY ResetTree, CopyTreeWrites DEF Storages
<1>2. tree' = r
    BY DEF BinaryCall
<1> HIDE DEF filled
<1>3. NothingHidden(filled) /\ IsTree(filled)
    BY <1>1, WrittenOverReset DEF Storages, Written
<1>4. Relabelled(filled, r)
    BY <1>3, BinaryReply
<1> HIDE DEF r
<1>5. Visible(r) = Visible(filled)
    BY <1>3, <1>4, RelabelledTree
<1>6. NothingHidden(r)
    BY <1>3, <1>4, <1>5 DEF NothingHidden, Relabelled
<1> QED BY <1>2, <1>6

LEMMA JSONCallHides ==
    ASSUME NEW arg, Sent(arg), NEW m \in Nat, Storages, JSONCall(m, arg), NothingHidden(tree)
    PROVE  NothingHidden(tree')
<1> DEFINE filled == CopyTree(arg, Reset(tree))
<1>1. Written(arg, Reset(tree), filled)
    BY ResetTree, CopyTreeWrites DEF Storages
<1>2. tree' = Decode(View(served'), Reset(filled))
    BY DEF JSONCall
<1> HIDE DEF filled
<1>3. NothingHidden(filled) /\ IsTree(filled)
    BY <1>1, WrittenOverReset DEF Storages, Written
<1>4. IsTree(served')
    BY JSONCallAnswers DEF Answered
<1>5. Sent(View(served'))
    BY <1>4, ViewIsSent
<1>6. Written(View(served'), Reset(filled), tree')
    BY <1>2, <1>3, <1>5, ResetTree, DecodeWrites
<1> QED BY <1>3, <1>5, <1>6, WrittenOverReset

-----------------------------------------------------------------------------
(* The inductive invariant: besides what the runs check, the harness's five trees *)
(* never hide a node, so that a walk over one meets all there is of it.           *)

HarnessTrees ==
    /\ DOMAIN testTrees = 1..5 /\ testTrees = [i \in 1..5 |-> testTrees[i]]
    /\ \A i \in 1..5 : Sent(testTrees[i])

IInv == TypeOK /\ HarnessTrees /\ ReplyIsProduct /\ HiddenNodesAreLeaves

LEMMA FiveTrees ==
    ASSUME NEW T, DOMAIN T = 1..5, T = [i \in 1..5 |-> T[i]]
    PROVE  Len(T) = 5
<1> DEFINE S == {T[i] : i \in 1..5}
<1>1. \A i \in 1..5 : T[i] \in S
    OBVIOUS
<1> HIDE DEF S
<1>2. T \in [1..5 -> S]
    BY <1>1
<1> QED BY <1>2

LEMMA InitIInv == ASSUME Init PROVE IInv
<1>1. PICK r \in MakeRandomTree(RandomLevels, Branching) :
        testTrees = <<Zero, Chain(Depth), MakeDenseTreeNode(Broad, 1),
                      MakeDenseTreeNode(Density, DenseLevels), r>>
    BY DEF Init
<1>2. /\ Depth \in Nat /\ Broad \in Nat /\ Density \in Nat /\ DenseLevels \in Nat
      /\ RandomLevels \in Nat /\ Branching \in Nat
    BY TreesAssumption
<1>3. Sent(Zero)
    BY ZeroIsSent
<1>4. Sent(Chain(Depth)) /\ Sent(MakeDenseTreeNode(Broad, 1))
      /\ Sent(MakeDenseTreeNode(Density, DenseLevels))
    BY <1>2, DenseIsSent DEF Chain
<1>5. Sent(r)
    BY <1>2, RandomIsSent
<1>6. DOMAIN testTrees = 1..5 /\ testTrees = [i \in 1..5 |-> testTrees[i]]
    BY <1>1
<1>7. /\ testTrees[1] = Zero /\ testTrees[2] = Chain(Depth)
      /\ testTrees[3] = MakeDenseTreeNode(Broad, 1)
      /\ testTrees[4] = MakeDenseTreeNode(Density, DenseLevels) /\ testTrees[5] = r
    BY <1>1
<1>8. HarnessTrees
  <2>1. \A i \in 1..5 : i = 1 \/ i = 2 \/ i = 3 \/ i = 4 \/ i = 5
      OBVIOUS
  <2>2. \A i \in 1..5 : Sent(testTrees[i])
      BY <1>3, <1>4, <1>5, <1>7, <2>1
  <2> QED BY <1>6, <2>2 DEF HarnessTrees
<1>9. kind \in Kinds /\ chosen = 0 /\ mult = 0
      /\ tree = Zero /\ readTree = Zero /\ served = Zero /\ reply = Zero
    BY DEF Init
<1>10. IsTree(Zero)
    BY <1>3 DEF Sent
<1>11. \A i \in DOMAIN testTrees : IsTree(testTrees[i])
    BY <1>8 DEF HarnessTrees, Sent
<1>12. chosen \in 0..Len(testTrees)
    BY <1>6, <1>9, FiveTrees
<1>13. TypeOK
    BY <1>9, <1>10, <1>11, <1>12 DEF TypeOK
<1>14. NothingHidden(Zero)
    BY <1>3, AllVisible DEF NothingHidden
<1> QED BY <1>8, <1>9, <1>13, <1>14 DEF IInv, ReplyIsProduct, HiddenNodesAreLeaves

(* The harness's part of a call. *)
LEMMA ChoosesTree ==
    ASSUME HarnessTrees, NEW i \in DOMAIN testTrees, NEW m, NEW arg, Sent(arg),
           Choose(i, m, arg)
    PROVE  /\ HarnessTrees' /\ testTrees'[i] = arg /\ chosen' = i /\ i \in 1..5
           /\ mult' = m /\ kind' = kind /\ Len(testTrees') = 5
<1>1. /\ DOMAIN testTrees = 1..5 /\ testTrees = [j \in 1..5 |-> testTrees[j]]
      /\ \A j \in 1..5 : Sent(testTrees[j])
    BY DEF HarnessTrees
<1>2. chosen' = i /\ mult' = m /\ kind' = kind /\ testTrees' = [testTrees EXCEPT ![i] = arg]
    BY DEF Choose
<1> DEFINE T == testTrees'
<1>3. DOMAIN T = 1..5 /\ T = [j \in 1..5 |-> T[j]]
      /\ \A j \in 1..5 : T[j] = IF j = i THEN arg ELSE testTrees[j]
    BY <1>1, <1>2
<1>4. \A j \in 1..5 : Sent(T[j])
    BY <1>1, <1>3
<1>5. HarnessTrees'
    BY <1>3, <1>4 DEF HarnessTrees
<1>6. Len(T) = 5
  <2> HIDE DEF T
  <2> QED BY <1>3, FiveTrees
<1> QED BY <1>1, <1>2, <1>3, <1>5, <1>6

LEMMA NextIInv == ASSUME IInv, Next PROVE IInv'
<1>1. TypeOK /\ HarnessTrees /\ HiddenNodesAreLeaves
    BY DEF IInv
<1>2. PICK i \in DOMAIN testTrees, seed \in Seeds, m \in Mults :
        LET arg == PopulateWithRand(testTrees[i], seed)
        IN  /\ Choose(i, m, arg)
            /\ \/ BinaryCall(m, arg)
               \/ JSONCall(m, arg)
               \/ GRPCCall(m, arg)
               \/ GoCapnpCall(m, arg)
               \/ MDCapnpCall(m, arg)
               \/ Level0Call(m, arg)
    BY DEF Next
<1>3. m \in Nat /\ seed \in Nat
    BY TreesAssumption
<1>4. PICK arg : arg = PopulateWithRand(testTrees[i], seed)
    OBVIOUS
<1>5. Sent(arg)
    BY <1>1, <1>3, <1>4, Populated DEF HarnessTrees
<1>6. Choose(i, m, arg)
    BY <1>2, <1>4
<1>7. \/ BinaryCall(m, arg) \/ JSONCall(m, arg) \/ GRPCCall(m, arg)
      \/ GoCapnpCall(m, arg) \/ MDCapnpCall(m, arg) \/ Level0Call(m, arg)
    BY <1>2, <1>4
<1>8. Storages
    BY <1>1 DEF TypeOK, Storages
<1>9. Answered(m, arg)'
  <2>1. CASE BinaryCall(m, arg)
      BY <1>3, <1>5, <1>8, <2>1, BinaryCallAnswers
  <2>2. CASE JSONCall(m, arg)
      BY <1>3, <1>5, <1>8, <2>2, JSONCallAnswers
  <2>3. CASE GRPCCall(m, arg)
      BY <1>3, <1>5, <1>8, <2>3, GRPCCallAnswers
  <2>4. CASE GoCapnpCall(m, arg)
      BY <1>3, <1>5, <1>8, <2>4, GoCapnpCallAnswers
  <2>5. CASE MDCapnpCall(m, arg)
      BY <1>3, <1>5, <1>8, <2>5, MDCapnpCallAnswers
  <2>6. CASE Level0Call(m, arg)
      BY <1>3, <1>5, <1>8, <2>6, Level0CallAnswers
  <2> QED BY <1>7, <2>1, <2>2, <2>3, <2>4, <2>5, <2>6
<1>10. /\ IsTree(tree') /\ IsTree(readTree') /\ IsTree(served')
      /\ Answers(reply', arg, m) /\ IsTree(reply')
    BY <1>9 DEF Answered, Answers
<1>11. /\ HarnessTrees' /\ testTrees'[i] = arg /\ chosen' = i /\ i \in 1..5
       /\ mult' = m /\ kind' = kind /\ Len(testTrees') = 5
    BY <1>1, <1>5, <1>6, ChoosesTree
<1>12. TypeOK'
  <2>1. kind' \in Kinds /\ mult' \in Mults \cup {0} /\ chosen' \in 0..Len(testTrees')
      BY <1>1, <1>11 DEF TypeOK
  <2>2. \A j \in DOMAIN testTrees' : IsTree(testTrees'[j])
      BY <1>11 DEF HarnessTrees, Sent
  <2> QED BY <1>10, <2>1, <2>2 DEF TypeOK
<1>13. ReplyIsProduct'
  <2>1. Labels(reply') = Product(arg, m)
      BY <1>10, ProductIff DEF Answers
  <2> QED BY <1>11, <2>1 DEF ReplyIsProduct
<1>14. HiddenNodesAreLeaves'
  <2> SUFFICES ASSUME kind \in {"tcp, http1, ws", "wsjson"} PROVE NothingHidden(tree')
      BY <1>11 DEF HiddenNodesAreLeaves
  <2>1. NothingHidden(tree)
      BY <1>1 DEF HiddenNodesAreLeaves
  <2>2. BinaryCall(m, arg) \/ JSONCall(m, arg)
      BY <1>7 DEF GRPCCall, GoCapnpCall, MDCapnpCall, Level0Call
  <2> QED BY <1>3, <1>5, <1>8, <2>1, <2>2, BinaryCallHides, JSONCallHides
<1> QED BY <1>11, <1>12, <1>13, <1>14 DEF IInv

LEMMA StutterIInv == ASSUME IInv, UNCHANGED vars PROVE IInv'
BY DEF IInv, TypeOK, HarnessTrees, ReplyIsProduct, HiddenNodesAreLeaves, vars

(* Every reachable state of a client satisfies the inductive invariant, whatever  *)
(* system it talks to (the MultTreeValues of the clients, treenode.go:22-45, 83). *)
THEOREM Invariance == Spec => []IInv
<1>1. Init => IInv
    BY InitIInv
<1>2. IInv /\ [Next]_vars => IInv'
    BY NextIInv, StutterIInv
<1> QED BY <1>1, <1>2, PTL DEF Spec

(* Slices are no longer than their storage at any depth and no node is lost below *)
(* a capacity, in every tree of client, server and harness (treenode.go:22-28).   *)
THEOREM TypeCorrect == Spec => []TypeOK
<1>1. IInv => TypeOK
    BY DEF IInv
<1> QED BY <1>1, Invariance, PTL

(* Whatever earlier calls left in the storages, MultTreeValues returns the tree of *)
(* this call with every value multiplied (interface.go:62-64).                     *)
THEOREM RepliesAreProducts == Spec => []ReplyIsProduct
<1>1. IInv => ReplyIsProduct
    BY DEF IInv
<1> QED BY <1>1, Invariance, PTL

(* The harness's check accepts a reply exactly if it is the product of the tree it *)
(* is compared with (treenode.go:113-129).                                         *)
THEOREM ChecksAreExact == Spec => []CheckIsExact
<1>1. ASSUME IInv PROVE CheckIsExact
  <2>1. IsTree(reply) /\ \A i \in DOMAIN testTrees : IsTree(testTrees[i])
      BY <1>1 DEF IInv, TypeOK
  <2> QED BY <2>1, MatchesIffProduct DEF CheckIsExact
<1> QED BY <1>1, Invariance, PTL

(* In a client that resets its tree, nodes out of sight have no children, at any   *)
(* depth (treenode.go:39-45).                                                      *)
THEOREM HiddenAreLeaves == Spec => []HiddenNodesAreLeaves
<1>1. IInv => HiddenNodesAreLeaves
    BY DEF IInv
<1> QED BY <1>1, Invariance, PTL
=============================================================================
