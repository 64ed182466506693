--------------------------- MODULE LocalGateProofs ---------------------------
(***************************************************************************)
(* Theorems about modules AttackPaths, Verdict and LocalGate, for every    *)
(* graph, order of nodes, budget, policy and landscape.  In this order:    *)
(*                                                                         *)
(* - Search.  analyze() reports simple paths of the graph that lead from   *)
(*   the Internet to a target, and a result that is not marked truncated   *)
(*   has all of them.  That the paths are real follows from the tree of    *)
(*   predecessors and the stack (SearchInv).  That none is missing takes   *)
(*   two more arguments (HonestInv): what the enumeration has not reported *)
(*   yet lies ahead of its stack, and the breadth-first pass goes by       *)
(*   levels, so that a target it has no witness for is out of the depth.   *)
(*   The predecessors and what the Internet reaches are recursive          *)
(*   functions; what they compute is proved in the form of a least         *)
(*   counterexample (LeastOf).                                             *)
(* - Decisions.  The searches of the gate are searches of AttackPaths, one *)
(*   after the other; a result of a finished search is an Outcome: what    *)
(*   can be said of it without the search.  The soundness of decisions and *)
(*   the agreement of the verdict, the alerts and the decision are lemmas  *)
(*   about two outcomes.                                                   *)
(* - Reports.  The files of a run say what its exit code says.             *)
(* - Runs.  What is compared was pinned, in the root and under the rules   *)
(*   of the trusted side (RunInv).  With module LandscapeProofs: a         *)
(*   complete analysis is exact, a pass is earned, and the values of a run *)
(*   have their types.                                                     *)
(* - Repairs.  An edited text is exact as well, and advice of high         *)
(*   severity names what was repaired or stays open.                       *)
(***************************************************************************)
EXTENDS LocalGate, LandscapeProofs, SequenceTheorems, FiniteSetTheorems,
        WellFoundedInduction, TLAPS

-----------------------------------------------------------------------------
(* Induction.                                                              *)

LEMMA LeastOf ==
    ASSUME NEW S \in SUBSET Nat, S # {}
    PROVE  \E n \in S : \A m \in S : n <= m
  <1> DEFINE Less == {ss \in Nat \X Nat : ss[1] < ss[2]}
  <1>1. Less = OpToRel(<, Nat)
    BY DEF OpToRel
  <1>2. IsWellFoundedOn(Less, Nat)
    BY <1>1, NatLessThanWellFounded
  <1> HIDE DEF Less
  <1>3. PICK x \in S : \A y \in S : ~ (<<y, x>> \in Less)
    BY <1>2, WFMin
  <1>4. \A y \in S : ~ (y < x)
    BY <1>3 DEF Less
  <1> QED BY <1>4

(* A set with 0 that goes on from every number to the next has all.        *)
LEMMA Upwards ==
    ASSUME NEW N \in Nat, NEW T,
           0 \in T,
           \A k \in 0..N : k \in T /\ k < N => k + 1 \in T
    PROVE  0..N \subseteq T
  <1> DEFINE S == (0..N) \ T
  <1>1. SUFFICES ASSUME S # {} PROVE FALSE
    OBVIOUS
  <1>2. S \in SUBSET Nat
    OBVIOUS
  <1>3. PICK x \in S : \A y \in S : x <= y
    <2> HIDE DEF S
    <2> QED BY <1>1, <1>2, LeastOf
  <1>4. x - 1 \in 0..N /\ x - 1 \notin S
    BY <1>3
  <1> QED BY <1>3, <1>4

(* Iterating a function, as recursive definitions do.                      *)
Iterated(N, a, g, f) == [k \in 0..N |-> IF k = 0 THEN a ELSE g[f[k - 1]]]

LEMMA Iterates ==
    ASSUME NEW N \in Nat, NEW a, NEW g
    PROVE  \E f : f = Iterated(N, a, g, f)
  <1> DEFINE Is(f, n) == f = [k \in 0..n |-> IF k = 0 THEN a ELSE g[f[k - 1]]]
             T == {n \in 0..N : \E f : Is(f, n)}
  <1>1. 0 \in T
    <2> DEFINE f == [k \in 0..0 |-> a]
    <2>1. Is(f, 0)
      OBVIOUS
    <2> HIDE DEF f, Is
    <2> QED BY <2>1
  <1>2. ASSUME NEW n \in 0..N, n \in T, n < N
        PROVE  n + 1 \in T
    <2>1. PICK f : Is(f, n)
      BY <1>2
    <2> DEFINE h == [k \in 0..(n + 1) |-> IF k = 0 THEN a ELSE g[f[k - 1]]]
    <2>2. ASSUME NEW k \in 0..n PROVE h[k] = f[k]
      BY <2>1
    <2>3. ASSUME NEW k \in 0..(n + 1)
          PROVE  (IF k = 0 THEN a ELSE g[f[k - 1]])
                   = (IF k = 0 THEN a ELSE g[h[k - 1]])
      <3> HIDE DEF h
      <3>1. CASE k = 0
        BY <3>1
      <3>2. CASE k # 0
        <4>1. k - 1 \in 0..n
          BY <3>2
        <4> QED BY <4>1, <2>2
      <3> QED BY <3>1, <3>2
    <2>4. Is(h, n + 1)
      <3>1. h = [k \in 0..(n + 1) |-> IF k = 0 THEN a ELSE g[f[k - 1]]]
        OBVIOUS
      <3> HIDE DEF h
      <3> QED BY <3>1, <2>3
    <2> HIDE DEF h, Is
    <2>5. n + 1 \in 0..N
      BY <1>2
    <2> QED BY <2>4, <2>5
  <1>3. \E f : Is(f, N)
    <2> HIDE DEF Is
    <2>1. \A k \in 0..N : k \in T /\ k < N => k + 1 \in T
      <3> HIDE DEF T
      <3> QED BY <1>2
    <2>2. 0..N \subseteq T
      <3> HIDE DEF T
      <3> QED BY <1>1, <2>1, Upwards
    <2> QED BY <2>2
  <1> QED BY <1>3 DEF Iterated

-----------------------------------------------------------------------------
(* The order of the nodes.                                                 *)

LEMMA PositionOf ==
    ASSUME NEW n \in Node
    PROVE  Position(n) \in Nat /\ NodeOrder[Position(n)] = n
  BY GraphAssumption DEF Position, Node, Range

LEMMA NodesAreFinite == IsFiniteSet(Node)
  <1> DEFINE I == 1..Len(NodeOrder)
  <1>1. IsFiniteSet(I) /\ NodeOrder \in [I -> Node]
    BY GraphAssumption, FS_Interval, LenProperties
  <1>2. NodeOrder \in Surjection(I, Node)
    BY <1>1 DEF Surjection, Node, Range
  <1> QED BY <1>1, <1>2, FS_Surjection

(* sorted() has the nodes of the set and no others.                        *)
LEMMA SortedHas ==
    ASSUME NEW set \in SUBSET Node
    PROVE  /\ Sorted(set) \in Seq(set)
           /\ set \subseteq Range(Sorted(set))
  <1> DEFINE rank(n) == Cardinality(Before(n, set))
             card == Cardinality(set)
  <1>1. IsFiniteSet(set) /\ card \in Nat
    BY NodesAreFinite, FS_Subset, FS_CardinalityType
  <1>2. ASSUME NEW n \in set
        PROVE  rank(n) \in Nat /\ rank(n) < card
    <2>1. Before(n, set) \subseteq set \ {n}
      BY PositionOf DEF Before
    <2>2. IsFiniteSet(set \ {n}) /\ Cardinality(set \ {n}) = card - 1
      BY <1>1, FS_RemoveElement
    <2>3. rank(n) \in Nat /\ rank(n) <= Cardinality(set \ {n})
      BY <2>1, <2>2, FS_Subset, FS_CardinalityType
    <2> QED BY <1>1, <2>2, <2>3
  <1>3. ASSUME NEW n \in set, NEW m \in set, Position(n) < Position(m)
        PROVE  rank(n) < rank(m)
    <2>1. Before(n, set) \subseteq Before(m, set) \ {n} /\ n \in Before(m, set)
      BY <1>3, PositionOf DEF Before
    <2>2. IsFiniteSet(Before(m, set))
      BY <1>1, FS_Subset DEF Before
    <2>3. /\ IsFiniteSet(Before(m, set) \ {n})
          /\ Cardinality(Before(m, set) \ {n}) = rank(m) - 1
      BY <2>1, <2>2, FS_RemoveElement
    <2>4. rank(n) <= Cardinality(Before(m, set) \ {n})
      BY <2>1, <2>3, FS_Subset
    <2> QED BY <1>2, <2>3, <2>4
  <1> HIDE DEF rank, card
  <1>4. ASSUME NEW n \in set, NEW m \in set, rank(n) = rank(m) PROVE n = m
    <2>1. ~(Position(n) < Position(m)) /\ ~(Position(m) < Position(n))
      BY <1>2, <1>3, <1>4
    <2> QED BY <2>1, PositionOf
  <1>5. ASSUME NEW i \in 1..card
        PROVE  \E n \in set : rank(n) = i - 1
    <2> DEFINE r == [n \in set |-> rank(n)]
               T == 0..(card - 1)
    <2>1. r \in Injection(set, T)
      BY <1>1, <1>2, <1>4 DEF Injection, IsInjective
    <2>2. IsFiniteSet(T) /\ Cardinality(T) = card
      BY <1>1, FS_Interval
    <2>3. r \in Surjection(set, T)
      <3> HIDE DEF r, T
      <3> QED BY <2>1, <2>2, FS_Injection DEF card
    <2>4. \A t \in T : \E n \in set : r[n] = t
      BY <2>3 DEF Surjection
    <2>5. i - 1 \in T
      BY <1>1
    <2> QED BY <2>4, <2>5
  <1>6. Sorted(set) = [i \in 1..card |-> CHOOSE n \in set : rank(n) = i - 1]
    BY DEF Sorted, rank, card
  <1>7. ASSUME NEW i \in 1..card
        PROVE  /\ Sorted(set)[i] \in set
               /\ rank(Sorted(set)[i]) = i - 1
    BY <1>5, <1>6
  <1>8. Sorted(set) \in Seq(set)
    BY <1>1, <1>6, <1>7
  <1>9. ASSUME NEW n \in set PROVE n \in Range(Sorted(set))
    <2>1. rank(n) + 1 \in 1..card
      BY <1>1, <1>2
    <2>2. Sorted(set)[rank(n) + 1] = n
      BY <2>1, <1>2, <1>4, <1>7
    <2> QED BY <2>1, <2>2, <1>6 DEF Range
  <1> QED BY <1>8, <1>9

-----------------------------------------------------------------------------
(* What the Internet reaches.                                              *)

(* nx.descendants() starts from the Internet, and adds the successors of   *)
(* all it has, as often as there are nodes.                                *)
Widened(g, set) == set \cup UNION {Successors(g, n) : n \in set}

LEMMA WithinIs ==
    ASSUME NEW g
    PROVE  \E f : /\ Reachable(g) = f[Cardinality(Node)] \ {Internet}
                  /\ f[0] = {Internet}
                  /\ \A k \in 0..Cardinality(Node) :
                        k < Cardinality(Node) => f[k + 1] = Widened(g, f[k])
  <1> DEFINE N == Cardinality(Node)
             Is(f, m) == f = [k \in 0..m |-> IF k = 0 THEN {Internet}
                                             ELSE Widened(g, f[k - 1])]
             within == CHOOSE f : Is(f, N)
             T == {m \in 0..N : \E f : Is(f, m)}
  <1>1. N \in Nat
    BY NodesAreFinite, FS_CardinalityType
  <1>2. 0 \in T
    <2> DEFINE f == [k \in 0..0 |-> {Internet}]
    <2>1. Is(f, 0)
      OBVIOUS
    <2> HIDE DEF f, Is
    <2> QED BY <2>1, <1>1
  <1>3. ASSUME NEW m \in 0..N, m \in T, m < N
        PROVE  m + 1 \in T
    <2>1. PICK f : Is(f, m)
      BY <1>3
    <2> DEFINE h == [k \in 0..(m + 1) |-> IF k = 0 THEN {Internet}
                                          ELSE Widened(g, f[k - 1])]
    <2>2. ASSUME NEW k \in 0..m PROVE h[k] = f[k]
      <3>1. f[k] = IF k = 0 THEN {Internet} ELSE Widened(g, f[k - 1])
        BY <2>1
      <3>2. k \in 0..(m + 1)
        OBVIOUS
      <3>3. h[k] = IF k = 0 THEN {Internet} ELSE Widened(g, f[k - 1])
        BY <3>2
      <3> HIDE DEF h
      <3> QED BY <3>1, <3>3
    <2>3. ASSUME NEW k \in 0..(m + 1)
          PROVE  (IF k = 0 THEN {Internet} ELSE Widened(g, f[k - 1]))
                   = (IF k = 0 THEN {Internet} ELSE Widened(g, h[k - 1]))
      <3> HIDE DEF h
      <3>1. CASE k = 0
        BY <3>1
      <3>2. CASE k # 0
        <4>1. k - 1 \in 0..m
          BY <3>2
        <4>2. h[k - 1] = f[k - 1]
          BY <4>1, <2>2
        <4> QED BY <4>2
      <3> QED BY <3>1, <3>2
    <2>4. Is(h, m + 1)
      <3>1. h = [k \in 0..(m + 1) |-> IF k = 0 THEN {Internet}
                                      ELSE Widened(g, f[k - 1])]
        OBVIOUS
      <3> HIDE DEF h
      <3> QED BY <3>1, <2>3
    <2> HIDE DEF h, Is
    <2>5. m + 1 \in 0..N
      BY <1>1, <1>3
    <2> QED BY <2>4, <2>5
  <1>4. Is(within, N)
    <2> HIDE DEF Is
    <2>1. \A m \in 0..N : m \in T /\ m < N => m + 1 \in T
      <3> HIDE DEF T
      <3> QED BY <1>3
    <2>2. 0..N \subseteq T
      <3> HIDE DEF T, N
      <3> QED BY <1>1, <1>2, <2>1, Upwards
    <2> QED BY <2>2, <1>1
  <1>5. Reachable(g) = within[N] \ {Internet}
    BY DEF Reachable, Widened
  <1>6. /\ within[0] = {Internet}
        /\ \A k \in 0..N : k < N => within[k + 1] = Widened(g, within[k])
    <2> HIDE DEF within, N
    <2>1. \A k \in 0..N : within[k] = IF k = 0 THEN {Internet}
                                      ELSE Widened(g, within[k - 1])
      BY <1>4
    <2>2. 0 \in 0..N
      BY <1>1
    <2>3. ASSUME NEW k \in 0..N, k < N
          PROVE  within[k + 1] = Widened(g, within[k])
      <3>1. k + 1 \in 0..N /\ k + 1 # 0 /\ (k + 1) - 1 = k
        BY <2>3, <1>1
      <3> QED BY <3>1, <2>1
    <2> QED BY <2>1, <2>2, <2>3
  <1> HIDE DEF within, N, Is, T
  <1> QED BY <1>5, <1>6 DEF N

(* It stays within every set that has the Internet and all the successors *)
(* of its nodes.                                                           *)
LEMMA ReachableWithin ==
    ASSUME NEW g, NEW C, Internet \in C,
           \A n \in C : Successors(g, n) \subseteq C
    PROVE  Reachable(g) \subseteq C
  <1> DEFINE N == Cardinality(Node)
  <1>1. N \in Nat
    BY NodesAreFinite, FS_CardinalityType
  <1>2. PICK f : /\ Reachable(g) = f[N] \ {Internet}
                 /\ f[0] = {Internet}
                 /\ \A k \in 0..N : k < N => f[k + 1] = Widened(g, f[k])
    BY WithinIs
  <1> HIDE DEF N
  <1> DEFINE In == {k \in 0..N : f[k] \subseteq C}
  <1>3. ASSUME NEW k \in 0..N, k \in In, k < N PROVE k + 1 \in In
    <2>1. k + 1 \in 0..N
      BY <1>1, <1>3
    <2> QED BY <2>1, <1>2, <1>3 DEF Widened
  <1>4. 0 \in In
    BY <1>1, <1>2
  <1>5. 0..N \subseteq In
    <2> HIDE DEF In
    <2> QED BY <1>1, <1>3, <1>4, Upwards
  <1>6. N \in In
    BY <1>1, <1>5
  <1> QED BY <1>2, <1>6

LEMMA TargetsWithin ==
    ASSUME NEW g PROVE Targets(g) \subseteq Reachable(g)
  BY DEF Targets, ExposedResources

-----------------------------------------------------------------------------
(* The breadth-first pass.  Every node seen has an edge from its           *)
(* predecessor; a node seen is still in the queue, or its successors have  *)
(* been seen.                                                              *)

IsEdge(a, b) == <<a, b>> \in DOMAIN graph.edges

TreeInv ==
    /\ Internet \in DOMAIN parent /\ DOMAIN parent \subseteq Node
    /\ parent[Internet] = Internet
    /\ \A n \in DOMAIN parent \ {Internet} :
          parent[n] \in DOMAIN parent /\ IsEdge(parent[n], n)

QueueInv ==
    /\ queue \in Seq(DOMAIN parent)
    /\ \A n \in DOMAIN parent :
          n \in Range(queue) \/ Successors(graph, n) \subseteq DOMAIN parent
    /\ step # "breadth" => queue = <<>>

(* A path or a route: simple, along edges, from the Internet.              *)
Simple(E, p) ==
    /\ p \in Seq(Node) /\ p # <<>>
    /\ p[1] = Internet
    /\ IsInjective(p)
    /\ \A i \in 1..(Len(p) - 1) : <<p[i], p[i + 1]>> \in E

Real(p) == Simple(DOMAIN graph.edges, p)

LEMMA FrontOf ==
    ASSUME NEW S, NEW s \in Seq(S), s # <<>>
    PROVE  /\ Front(s) \in Seq(S) /\ Len(Front(s)) = Len(s) - 1
           /\ \A i \in 1..(Len(s) - 1) : Front(s)[i] = s[i]
           /\ Len(s) \in Nat \ {0}
  <1>1. Len(s) \in Nat \ {0} /\ \A i \in 1..(Len(s) - 1) : s[i] \in S
    BY EmptySeq, ElementOfSeq
  <1>2. 1 \in Int /\ Len(s) - 1 \in Int
    BY <1>1
  <1>3. /\ Front(s) \in Seq(S)
        /\ Len(Front(s)) = IF 1 <= Len(s) - 1 THEN (Len(s) - 1) - 1 + 1 ELSE 0
        /\ \A i \in 1..((Len(s) - 1) - 1 + 1) : Front(s)[i] = s[1 + i - 1]
    BY <1>1, <1>2, SubSeqProperties DEF Front
  <1> DEFINE n == Len(s)
             f == Front(s)
  <1>4. /\ n \in Nat \ {0} /\ f \in Seq(S)
        /\ Len(f) = IF 1 <= n - 1 THEN (n - 1) - 1 + 1 ELSE 0
        /\ \A i \in 1..((n - 1) - 1 + 1) : f[i] = s[1 + i - 1]
    BY <1>1, <1>3
  <1> HIDE DEF n, f
  <1>5. Len(f) = n - 1
    BY <1>4
  <1>6. \A i \in 1..(n - 1) : f[i] = s[i]
    <2> TAKE i \in 1..(n - 1)
    <2>1. i \in 1..((n - 1) - 1 + 1) /\ 1 + i - 1 = i
      BY <1>4
    <2> QED BY <2>1, <1>4
  <1> QED BY <1>4, <1>5, <1>6 DEF n, f

LEMMA UpToLast ==
    ASSUME NEW l \in Nat \ {0}
    PROVE  /\ l \in 1..l
           /\ \A i \in 1..l : i \in 1..(l - 1) \/ i = l
           /\ \A i \in 1..(l - 1) : i \in 1..l /\ i # l
  OBVIOUS

(* A simple path that goes on along an edge to a new node is one.          *)
LEMMA SimpleAppend ==
    ASSUME NEW E, NEW r, Simple(E, r), NEW n \in Node, n \notin Range(r),
           <<Last(r), n>> \in E
    PROVE  Simple(E, Append(r, n)) /\ Last(Append(r, n)) = n
  <1> DEFINE q == Append(r, n)
  <1>1. r \in Seq(Node) /\ Len(r) \in Nat \ {0} /\ DOMAIN r = 1..Len(r)
    BY EmptySeq, LenProperties DEF Simple
  <1>2. /\ q \in Seq(Node) /\ Len(q) = Len(r) + 1 /\ q # <<>>
        /\ \A i \in 1..Len(r) : q[i] = r[i]
        /\ q[Len(r) + 1] = n
        /\ DOMAIN q = 1..(Len(r) + 1)
    BY <1>1
  <1> HIDE DEF q
  <1>3. q[1] = Internet
    BY <1>1, <1>2 DEF Simple
  <1>4. IsInjective(q)
    <2>1. \A i \in 1..Len(r) : q[i] # n
      BY <1>1, <1>2 DEF Range
    <2>2. \A i, j \in 1..Len(r) : q[i] = q[j] => i = j
      BY <1>1, <1>2 DEF Simple, IsInjective
    <2>3. \A i \in 1..(Len(r) + 1) : i \in 1..Len(r) \/ i = Len(r) + 1
      BY <1>1
    <2> QED BY <1>2, <2>1, <2>2, <2>3 DEF IsInjective
  <1>5. ASSUME NEW i \in 1..(Len(q) - 1) PROVE <<q[i], q[i + 1]>> \in E
    <2>1. CASE i < Len(r)
      <3>1. i \in 1..(Len(r) - 1) /\ i \in 1..Len(r) /\ i + 1 \in 1..Len(r)
        BY <1>1, <1>2, <2>1
      <3> QED BY <3>1, <1>2 DEF Simple
    <2>2. CASE i = Len(r)
      <3>1. q[i] = Last(r) /\ q[i + 1] = n
        BY <1>1, <1>2, <2>2 DEF Last
      <3> QED BY <3>1 
    <2>3. i < Len(r) \/ i = Len(r)
      <3>1. Len(q) - 1 = Len(r)
        BY <1>1, <1>2
      <3>2. i \in 1..Len(r)
        BY <3>1
      <3>3. \A l \in Nat : \A j \in 1..l : j < l \/ j = l
        OBVIOUS
      <3>4. Len(r) \in Nat
        BY <1>1
      <3> QED BY ONLY <3>2, <3>3, <3>4
    <2> QED BY <2>1, <2>2, <2>3
  <1>6. Last(q) = n
    BY <1>1, <1>2 DEF Last
  <1> QED BY <1>2, <1>3, <1>4, <1>5, <1>6 DEF Simple, q

LEMMA SimpleFront ==
    ASSUME NEW E, NEW r, Simple(E, r), Len(r) > 1
    PROVE  Simple(E, Front(r))
  <1>1. /\ r \in Seq(Node) /\ r # <<>> /\ Len(r) \in Nat \ {0}
        /\ DOMAIN r = 1..Len(r)
    BY EmptySeq, LenProperties DEF Simple
  <1>2. /\ Front(r) \in Seq(Node) /\ Len(Front(r)) = Len(r) - 1
        /\ \A i \in 1..(Len(r) - 1) : Front(r)[i] = r[i]
    BY <1>1, FrontOf
  <1> DEFINE f == Front(r)
  <1> HIDE DEF f
  <1>3. /\ f \in Seq(Node) /\ Len(f) = Len(r) - 1
        /\ \A i \in 1..(Len(r) - 1) : f[i] = r[i]
    BY <1>2 DEF f
  <1>4. f # <<>> /\ f[1] = Internet /\ DOMAIN f = 1..(Len(r) - 1)
    BY <1>1, <1>3, LenProperties, EmptySeq DEF Simple
  <1>5. IsInjective(f)
    <2>1. \A i \in 1..(Len(r) - 1) : i \in 1..Len(r)
      BY <1>1
    <2> QED BY <1>1, <1>3, <1>4, <2>1 DEF Simple, IsInjective
  <1>6. ASSUME NEW i \in 1..(Len(f) - 1) PROVE <<f[i], f[i + 1]>> \in E
    <2>1. /\ i \in 1..(Len(r) - 1) /\ i + 1 \in 1..(Len(r) - 1)
      BY <1>1, <1>3
    <2> QED BY <2>1, <1>3 DEF Simple
  <1> QED BY <1>3, <1>4, <1>5, <1>6 DEF Simple, f

LEMMA RealAppend ==
    ASSUME NEW r, Real(r), NEW n \in Node, n \notin Range(r),
           n \in Successors(graph, Last(r))
    PROVE  Real(Append(r, n)) /\ Last(Append(r, n)) = n
  BY SimpleAppend DEF Real, Successors

-----------------------------------------------------------------------------
(* SimplePaths(E) has the simple paths over E and no others.  It grows the *)
(* paths of k nodes from those of k - 1, as often as there are nodes.      *)

LEMMA LengthOfSimple ==
    ASSUME NEW E, NEW p, Simple(E, p)
    PROVE  Len(p) \in 1..Cardinality(Node)
  <1> DEFINE I == 1..Len(p)
  <1>1. Len(p) \in Nat \ {0} /\ p \in [I -> Node]
    BY EmptySeq, LenProperties DEF Simple
  <1>2. p \in Injection(I, Node)
    BY <1>1 DEF Simple, Injection
  <1>3. Cardinality(I) = Len(p) /\ IsFiniteSet(I)
    BY <1>1, FS_Interval
  <1>4. Cardinality(I) <= Cardinality(Node)
    <2> HIDE DEF I
    <2> QED BY <1>2, NodesAreFinite, FS_Injection
  <1>5. Cardinality(Node) \in Nat
    BY NodesAreFinite, FS_CardinalityType
  <1> QED BY <1>1, <1>3, <1>4, <1>5

Grown(E, p) == {Append(p, n) : n \in {m \in Node :
                    <<Last(p), m>> \in E /\ m \notin Range(p)}}
Extended(E, ps) == ps \cup UNION {Grown(E, p) : p \in ps}

LEMMA UpToIs ==
    ASSUME NEW E
    PROVE  \E f : /\ SimplePaths(E) = f[Cardinality(Node)]
                  /\ f[1] = {<<Internet>>}
                  /\ \A k \in 1..Cardinality(Node) :
                        k < Cardinality(Node) => f[k + 1] = Extended(E, f[k])
  <1> DEFINE N == Cardinality(Node)
             Is(f, m) == f = [k \in 1..m |-> IF k = 1 THEN {<<Internet>>}
                                             ELSE Extended(E, f[k - 1])]
             upTo == CHOOSE f : Is(f, N)
             T == {m \in 0..N : \E f : Is(f, m)}
  <1>1. N \in Nat \ {0}
    BY NodesAreFinite, FS_CardinalityType, FS_EmptySet, GraphAssumption
  <1>2. 0 \in T
    <2> DEFINE f == [k \in 1..0 |-> {}]
    <2>1. Is(f, 0)
      OBVIOUS
    <2> HIDE DEF f, Is
    <2> QED BY <2>1, <1>1
  <1>3. ASSUME NEW m \in 0..N, m \in T, m < N
        PROVE  m + 1 \in T
    <2>1. PICK f : Is(f, m)
      BY <1>3
    <2> DEFINE h == [k \in 1..(m + 1) |-> IF k = 1 THEN {<<Internet>>}
                                          ELSE Extended(E, f[k - 1])]
    <2>2. ASSUME NEW k \in 1..m PROVE h[k] = f[k]
      <3>1. f[k] = IF k = 1 THEN {<<Internet>>} ELSE Extended(E, f[k - 1])
        BY <2>1
      <3>2. k \in 1..(m + 1)
        OBVIOUS
      <3>3. h[k] = IF k = 1 THEN {<<Internet>>} ELSE Extended(E, f[k - 1])
        BY <3>2
      <3> HIDE DEF h
      <3> QED BY <3>1, <3>3
    <2>3. ASSUME NEW k \in 1..(m + 1)
          PROVE  (IF k = 1 THEN {<<Internet>>} ELSE Extended(E, f[k - 1]))
                   = (IF k = 1 THEN {<<Internet>>} ELSE Extended(E, h[k - 1]))
      <3> HIDE DEF h
      <3>1. CASE k = 1
        BY <3>1
      <3>2. CASE k # 1
        <4>1. k - 1 \in 1..m
          BY <3>2
        <4>2. h[k - 1] = f[k - 1]
          BY <4>1, <2>2
        <4> QED BY <4>2
      <3> QED BY <3>1, <3>2
    <2>4. Is(h, m + 1)
      <3>1. h = [k \in 1..(m + 1) |-> IF k = 1 THEN {<<Internet>>}
                                      ELSE Extended(E, f[k - 1])]
        OBVIOUS
      <3> HIDE DEF h
      <3> QED BY <3>1, <2>3
    <2> HIDE DEF h, Is
    <2>5. m + 1 \in 0..N
      BY <1>1, <1>3
    <2> QED BY <2>4, <2>5
  <1>4. Is(upTo, N)
    <2> HIDE DEF Is
    <2>1. \A m \in 0..N : m \in T /\ m < N => m + 1 \in T
      <3> HIDE DEF T
      <3> QED BY <1>3
    <2>2. 0..N \subseteq T
      <3> HIDE DEF T, N
      <3> QED BY <1>1, <1>2, <2>1, Upwards
    <2> QED BY <2>2, <1>1
  <1>5. SimplePaths(E) = upTo[N]
    BY DEF SimplePaths, Extended, Grown
  <1>6. /\ upTo[1] = {<<Internet>>}
        /\ \A k \in 1..N : k < N => upTo[k + 1] = Extended(E, upTo[k])
    <2> HIDE DEF upTo, N
    <2>1. \A k \in 1..N : upTo[k] = IF k = 1 THEN {<<Internet>>}
                                    ELSE Extended(E, upTo[k - 1])
      BY <1>4
    <2>2. 1 \in 1..N
      BY <1>1
    <2>3. ASSUME NEW k \in 1..N, k < N
          PROVE  upTo[k + 1] = Extended(E, upTo[k])
      <3>1. k + 1 \in 1..N /\ k + 1 # 1 /\ (k + 1) - 1 = k
        BY <2>3, <1>1
      <3> QED BY <3>1, <2>1
    <2> QED BY <2>1, <2>2, <2>3
  <1> HIDE DEF upTo, N, Is, T
  <1> QED BY <1>5, <1>6 DEF N

LEMMA SimplePathsAre ==
    ASSUME NEW E
    PROVE  \A p : p \in SimplePaths(E) <=> Simple(E, p)
  <1> DEFINE N == Cardinality(Node)
  <1>1. N \in Nat \ {0}
    BY NodesAreFinite, FS_CardinalityType, FS_EmptySet, GraphAssumption
  <1>2. PICK f : /\ SimplePaths(E) = f[N]
                 /\ f[1] = {<<Internet>>}
                 /\ \A k \in 1..N : k < N => f[k + 1] = Extended(E, f[k])
    BY UpToIs
  <1> HIDE DEF N
  <1> DEFINE T == {k \in 0..(N - 1) :
                     /\ \A p \in f[k + 1] : Simple(E, p)
                     /\ \A p : Simple(E, p) /\ Len(p) <= k + 1 => p \in f[k + 1]}
  <1>3. 0 \in T
    <2>1. Simple(E, <<Internet>>)
      BY GraphAssumption DEF Simple, IsInjective
    <2>2. ASSUME NEW p, Simple(E, p), Len(p) <= 1
          PROVE  p = <<Internet>>
      <3>1. p \in Seq(Node) /\ p[1] = Internet
        BY <2>2 DEF Simple
      <3>2. Len(p) \in 1..Cardinality(Node)
        BY <2>2, LengthOfSimple
      <3>3. Len(p) = 1
        <4>1. \A c \in Nat : \A l \in 1..c : l <= 1 => l = 1
          OBVIOUS
        <4>2. Cardinality(Node) \in Nat
          BY <1>1 DEF N
        <4> QED BY <2>2, <3>2, <4>1, <4>2
      <3> QED BY <3>1, <3>3
    <2> QED BY <1>1, <1>2, <2>1, <2>2
  <1>4. ASSUME NEW k \in 0..(N - 1), k \in T, k < N - 1
        PROVE  k + 1 \in T
    <2>1. /\ k + 1 \in 1..N /\ k + 1 < N /\ k + 1 \in 0..(N - 1)
          /\ f[(k + 1) + 1] = Extended(E, f[k + 1])
      BY <1>1, <1>2, <1>4
    <2>2. ASSUME NEW p \in Extended(E, f[k + 1]) PROVE Simple(E, p)
      <3>1. CASE p \in f[k + 1]
        BY <3>1, <1>4
      <3>2. CASE \E r \in f[k + 1] : p \in Grown(E, r)
        <4>1. PICK r \in f[k + 1] : p \in Grown(E, r)
          BY <3>2
        <4>2. PICK n \in Node : /\ p = Append(r, n)
                                /\ <<Last(r), n>> \in E /\ n \notin Range(r)
          BY <4>1 DEF Grown
        <4>3. Simple(E, r)
          BY <1>4
        <4> QED BY <4>2, <4>3, SimpleAppend
      <3> QED BY <3>1, <3>2 DEF Extended
    <2>3. ASSUME NEW p, Simple(E, p), Len(p) <= (k + 1) + 1
          PROVE  p \in Extended(E, f[k + 1])
      <3>1. CASE Len(p) <= k + 1
        BY <3>1, <2>3, <1>4 DEF Extended
      <3>2. CASE Len(p) = (k + 1) + 1
        <4> DEFINE r == Front(p)
                   n == p[Len(p)]
        <4>1. p \in Seq(Node) /\ p # <<>> /\ Len(p) \in Nat \ {0} /\ Len(p) > 1
          BY <2>3, <3>2, EmptySeq DEF Simple
        <4>2. /\ r \in Seq(Node) /\ Len(r) = Len(p) - 1
              /\ \A i \in 1..(Len(p) - 1) : r[i] = p[i]
          BY <4>1, FrontOf
        <4>3. Simple(E, r)
          BY <2>3, <4>1, SimpleFront
        <4>4. n \in Node
          BY <4>1, ElementOfSeq
        <4>5. p = Append(r, n)
          <5> HIDE DEF r, n
          <5>1. /\ Append(r, n) \in Seq(Node)
                /\ Len(Append(r, n)) = Len(p)
            BY <4>1, <4>2, <4>4, AppendProperties
          <5>2. ASSUME NEW i \in 1..Len(p) PROVE p[i] = Append(r, n)[i]
            <6>1. CASE i \in 1..(Len(p) - 1)
              BY <6>1, <4>1, <4>2, <4>4, AppendProperties
            <6>2. CASE i = Len(p)
              BY <6>2, <4>1, <4>2, <4>4, AppendProperties DEF n
            <6>3. i \in 1..(Len(p) - 1) \/ i = Len(p)
              BY <4>1, UpToLast
            <6> QED BY <6>1, <6>2, <6>3
          <5> QED BY <4>1, <5>1, <5>2, SeqEqual
        <4>6. r \in f[k + 1]
          <5>1. Len(r) <= k + 1
            BY <3>2, <4>2
          <5> HIDE DEF r
          <5> QED BY <4>3, <5>1, <1>4
        <4>7. <<Last(r), n>> \in E
          <5>1. /\ Len(p) - 1 \in 1..(Len(p) - 1)
                /\ (Len(p) - 1) + 1 = Len(p)
            BY <4>1
          <5>2. Last(r) = p[Len(p) - 1]
            <6> HIDE DEF r
            <6> QED BY <4>2, <5>1 DEF Last
          <5>3. <<p[Len(p) - 1], p[(Len(p) - 1) + 1]>> \in E
            BY <2>3, <5>1 DEF Simple
          <5> HIDE DEF r
          <5> QED BY <5>1, <5>2, <5>3
        <4>8. n \notin Range(r)
          <5>1. DOMAIN r = 1..(Len(p) - 1) /\ DOMAIN p = 1..Len(p)
            <6> HIDE DEF r
            <6> QED BY <4>1, <4>2, LenProperties
          <5> HIDE DEF r
          <5>2. ASSUME NEW i \in 1..(Len(p) - 1) PROVE r[i] # n
            <6>1. i \in DOMAIN p /\ Len(p) \in DOMAIN p /\ i # Len(p)
              BY <4>1, <5>1, UpToLast
            <6> QED BY <6>1, <4>2, <2>3 DEF Simple, IsInjective
          <5> QED BY <5>1, <5>2 DEF Range
        <4> HIDE DEF r, n
        <4>9. p \in Grown(E, r)
          BY <4>4, <4>5, <4>7, <4>8 DEF Grown
        <4> QED BY <4>6, <4>9 DEF Extended
      <3>3. Len(p) \in Nat
        BY <2>3, LengthOfSimple, <1>1 DEF N
      <3> QED BY <2>3, <3>1, <3>2, <3>3
    <2> QED BY <2>1, <2>2, <2>3
  <1>5. N - 1 \in T
    <2>1. \A k \in 0..(N - 1) : k \in T /\ k < N - 1 => k + 1 \in T
      <3> HIDE DEF T
      <3> QED BY <1>4
    <2>2. N - 1 \in Nat /\ N - 1 \in 0..(N - 1)
      BY <1>1
    <2>3. 0..(N - 1) \subseteq T
      <3> DEFINE M == N - 1
      <3> HIDE DEF T, M
      <3>1. 0..M \subseteq T
        BY <2>1, <2>2, <1>3, Upwards DEF M
      <3> QED BY <3>1 DEF M
    <2> QED BY <2>2, <2>3
  <1>6. (N - 1) + 1 = N
    BY <1>1
  <1>7. \A p : Simple(E, p) => Len(p) <= N
    BY LengthOfSimple, <1>1 DEF N
  <1> QED BY <1>2, <1>5, <1>6, <1>7

-----------------------------------------------------------------------------
(* Witnesses.                                                              *)

LEMMA BackIs ==
    ASSUME NEW node
    PROVE  /\ Back(node)[0] = node
           /\ \A k \in 0..MaxPathDepth :
                 k < MaxPathDepth => Back(node)[k + 1] = parent[Back(node)[k]]
  <1> DEFINE up == CHOOSE f : f = Iterated(MaxPathDepth, node, parent, f)
  <1>1. MaxPathDepth \in Nat
    BY BudgetAssumption
  <1>2. Back(node) = up
    BY DEF Back, Iterated
  <1>0. up = Iterated(MaxPathDepth, node, parent, up)
    BY <1>1, Iterates
  <1> HIDE DEF up
  <1>3. up = [k \in 0..MaxPathDepth |->
                IF k = 0 THEN node ELSE parent[up[k - 1]]]
    BY <1>0 DEF Iterated
  <1>4. \A k \in 0..MaxPathDepth :
           up[k] = IF k = 0 THEN node ELSE parent[up[k - 1]]
    BY <1>3
  <1>5. ASSUME NEW k \in 0..MaxPathDepth, k < MaxPathDepth
        PROVE  up[k + 1] = parent[up[k]]
    <2>1. k + 1 \in 0..MaxPathDepth /\ k + 1 # 0 /\ (k + 1) - 1 = k
      BY <1>1, <1>5
    <2> QED BY <2>1, <1>4
  <1>6. 0 \in 0..MaxPathDepth
    BY <1>1
  <1> QED BY <1>2, <1>4, <1>5, <1>6

(* The witness of a node that was seen is a simple path to it.             *)
LEMMA WitnessIsReal ==
    ASSUME TreeInv, NEW t \in DOMAIN parent, DepthsOf(t) # {}
    PROVE  Real(Witness(t)) /\ Last(Witness(t)) = t
  <1> DEFINE up == Back(t)
             D == DepthsOf(t)
             d == CHOOSE k \in D : \A l \in D : k <= l
             p == Witness(t)
  <1>1. MaxPathDepth \in Nat
    BY BudgetAssumption
  <1>2. D \in SUBSET Nat /\ D \subseteq 0..MaxPathDepth
    BY <1>1 DEF DepthsOf
  <1>3. d \in D /\ \A l \in D : d <= l
    <2> HIDE DEF D
    <2>1. \E k \in D : \A l \in D : k <= l
      BY <1>2, LeastOf DEF D
    <2> QED BY <2>1
  <1>4. p = [i \in 1..(d + 1) |-> up[d + 1 - i]]
    BY DEF Witness
  <1>5. /\ up[0] = t
        /\ \A k \in 0..MaxPathDepth : k < MaxPathDepth => up[k + 1] = parent[up[k]]
    BY BackIs
  <1> HIDE DEF up, p, d
  <1>6. /\ d \in 0..MaxPathDepth
        /\ up[d] = Internet
        /\ \A l \in 0..MaxPathDepth : l < d => up[l] # Internet
    BY <1>2, <1>3 DEF DepthsOf, up
  <1> HIDE DEF D
  <1>7. \A k \in 0..MaxPathDepth : up[k] \in DOMAIN parent
    <2> DEFINE T == {k \in 0..MaxPathDepth : up[k] \in DOMAIN parent}
    <2>1. 0 \in T
      BY <1>1, <1>5
    <2>2. \A k \in 0..MaxPathDepth : k \in T /\ k < MaxPathDepth => k + 1 \in T
      BY <1>1, <1>5 DEF TreeInv
    <2>3. 0..MaxPathDepth \subseteq T
      <3> HIDE DEF T
      <3> QED BY <1>1, <2>1, <2>2, Upwards
    <2> QED BY <2>3
  <1>8. ASSUME NEW i \in 0..d, NEW j \in 0..d, i < j, up[i] = up[j]
        PROVE  FALSE
    <2> DEFINE T == {m \in 0..(d - j) : up[i + m] = up[j + m]}
    <2>1. 0 \in T
      BY <1>6, <1>8
    <2>2. \A m \in 0..(d - j) : m \in T /\ m < d - j => m + 1 \in T
      <3> TAKE m \in 0..(d - j)
      <3> HAVE m \in T /\ m < d - j
      <3>1. /\ i + m \in 0..MaxPathDepth /\ i + m < MaxPathDepth
            /\ j + m \in 0..MaxPathDepth /\ j + m < MaxPathDepth
            /\ m + 1 \in 0..(d - j)
        BY <1>1, <1>6, <1>8
      <3>2. up[(i + m) + 1] = up[(j + m) + 1]
        BY <1>5, <3>1
      <3>3. (i + m) + 1 = i + (m + 1) /\ (j + m) + 1 = j + (m + 1)
        BY <1>6
      <3> QED BY <3>1, <3>2, <3>3
    <2>3. 0..(d - j) \subseteq T
      <3> HIDE DEF T
      <3>1. d - j \in Nat
        BY <1>6
      <3> QED BY <3>1, <2>1, <2>2, Upwards
    <2>4. up[i + (d - j)] = up[j + (d - j)]
      BY <2>3, <1>6
    <2>5. j + (d - j) = d /\ i + (d - j) \in 0..MaxPathDepth /\ i + (d - j) < d
      BY <1>1, <1>6, <1>8
    <2> QED BY <1>6, <2>4, <2>5
  <1>9. p \in Seq(Node) /\ Len(p) = d + 1
    <2>1. \A i \in 1..(d + 1) : up[d + 1 - i] \in Node
      <3> TAKE i \in 1..(d + 1)
      <3>1. d + 1 - i \in 0..MaxPathDepth
        BY <1>1, <1>6
      <3> QED BY <3>1, <1>7 DEF TreeInv
    <2>2. d + 1 \in Nat
      BY <1>6
    <2> QED BY <1>4, <2>1, <2>2
  <1>10. p # <<>> /\ p[1] = Internet /\ Last(p) = t
    <2>1. /\ 1 \in 1..(d + 1) /\ (d + 1) - 1 = d
          /\ d + 1 \in 1..(d + 1) /\ (d + 1) - (d + 1) = 0
      BY <1>6
    <2> QED BY <1>4, <1>5, <1>6, <1>9, <2>1 DEF Last
  <1>11. IsInjective(p)
    <2>1. SUFFICES ASSUME NEW a \in 1..(d + 1), NEW b \in 1..(d + 1), p[a] = p[b]
                   PROVE  a = b
      BY <1>4 DEF IsInjective
    <2>2. /\ d + 1 - a \in 0..d /\ d + 1 - b \in 0..d
          /\ up[d + 1 - a] = up[d + 1 - b]
      BY <1>4, <1>6, <2>1
    <2>3. ~ (d + 1 - a < d + 1 - b) /\ ~ (d + 1 - b < d + 1 - a)
      BY <1>8, <2>2
    <2> QED BY <1>6, <2>3
  <1>12. ASSUME NEW i \in 1..(Len(p) - 1) PROVE IsEdge(p[i], p[i + 1])
    <2>1. /\ i \in 1..(d + 1) /\ i + 1 \in 1..(d + 1)
          /\ d + 1 - (i + 1) = d - i /\ d + 1 - i = (d - i) + 1
          /\ d - i \in 0..MaxPathDepth /\ d - i < MaxPathDepth /\ d - i < d
      BY <1>1, <1>6, <1>9
    <2>2. p[i] = parent[up[d - i]] /\ p[i + 1] = up[d - i]
      BY <2>1, <1>4, <1>5
    <2>3. up[d - i] \in DOMAIN parent \ {Internet}
      BY <2>1, <1>6, <1>7
    <2> QED BY <2>2, <2>3 DEF TreeInv
  <1> QED BY <1>9, <1>10, <1>11, <1>12 DEF Real, Simple, IsEdge, p

-----------------------------------------------------------------------------
(* The inductive invariant of a search.                                    *)

TodoInv == todo \subseteq Targets(graph)

(* A route being tried is real, and its iterators hold successors.         *)
StackInv ==
    /\ route \in Seq(Node) /\ untried \in Seq(SUBSET Node)
    /\ Len(untried) = Len(route)
    /\ step = "depth" =>
          /\ Real(route) /\ target \in Targets(graph)
          /\ \A i \in 1..Len(route) :
                untried[i] \subseteq Successors(graph, route[i])

PathInv == \A p \in paths : Real(p) /\ Last(p) \in Targets(graph)

BudgetInv ==
    /\ IsFiniteSet(paths) /\ Cardinality(paths) <= MaxPaths
    /\ emitted \subseteq paths
    /\ work \in 0..MaxPathWork
    /\ truncated \in BOOLEAN /\ step \in Step /\ target \in Node

SearchInv == TreeInv /\ QueueInv /\ TodoInv /\ StackInv /\ PathInv /\ BudgetInv

LEMMA TargetsAreNodes ==
    ASSUME NEW g PROVE Targets(g) \subseteq Node
  <1>1. Reachable(g) \subseteq Node
    BY ReachableWithin, GraphAssumption DEF Successors
  <1> QED BY <1>1, TargetsWithin

(* A target that has been seen: every one, once the queue is empty.        *)
LEMMA TargetsAreSeen ==
    ASSUME TreeInv, QueueInv, TodoInv, step # "breadth"
    PROVE  todo \subseteq DOMAIN parent
  <1>1. \A n \in DOMAIN parent : Successors(graph, n) \subseteq DOMAIN parent
    BY DEF QueueInv, Range
  <1>2. Reachable(graph) \subseteq DOMAIN parent
    BY <1>1, ReachableWithin DEF TreeInv
  <1> QED BY <1>2, TargetsWithin DEF TodoInv

-----------------------------------------------------------------------------
(* The invariant holds when a search starts, and when the second one does. *)

LEMMA StartOK ==
    ASSUME NEW g, StartWith(g)
    PROVE  SearchInv
  <1> USE DEF StartWith
  <1>1. TreeInv
    BY GraphAssumption DEF TreeInv
  <1>2. QueueInv
    <2>1. queue \in Seq(DOMAIN parent) /\ Internet \in Range(queue)
      BY DEF Range
    <2> QED BY <2>1 DEF QueueInv
  <1>3. TodoInv
    BY DEF TodoInv
  <1>4. StackInv /\ PathInv
    BY DEF StackInv, PathInv
  <1>5. BudgetInv
    <2>1. IsFiniteSet(paths) /\ Cardinality(paths) = 0
      BY FS_EmptySet
    <2>2. emitted \subseteq paths /\ target \in Node
      BY GraphAssumption
    <2>3. 0 <= MaxPaths /\ 0 \in 0..MaxPathWork
      BY BudgetAssumption
    <2> QED BY <2>1, <2>2, <2>3 DEF BudgetInv, Step
  <1> QED BY <1>1, <1>2, <1>3, <1>4, <1>5 DEF SearchInv

LEMMA RestartOK ==
    ASSUME NEW g, Restart(g)
    PROVE  SearchInv'
  <1> USE DEF Restart
  <1>1. TreeInv'
    BY GraphAssumption DEF TreeInv
  <1>2. QueueInv'
    <2>1. queue' \in Seq(DOMAIN parent') /\ Internet \in Range(queue')
      BY DEF Range
    <2> QED BY <2>1 DEF QueueInv
  <1>3. TodoInv'
    BY DEF TodoInv
  <1>4. StackInv' /\ PathInv'
    BY DEF StackInv, PathInv
  <1>5. BudgetInv'
    <2>1. IsFiniteSet(paths') /\ Cardinality(paths') = 0
      BY FS_EmptySet
    <2>2. emitted' \subseteq paths' /\ target' \in Node
      BY GraphAssumption
    <2>3. 0 <= MaxPaths /\ 0 \in 0..MaxPathWork
      BY BudgetAssumption
    <2> QED BY <2>1, <2>2, <2>3 DEF BudgetInv, Step
  <1> QED BY <1>1, <1>2, <1>3, <1>4, <1>5 DEF SearchInv

-----------------------------------------------------------------------------
(* Every step preserves it.  No step touches the graph.                    *)

LEMMA SameGraph ==
    ASSUME graph' = graph
    PROVE  /\ \A p : Real(p)' <=> Real(p)
           /\ Targets(graph)' = Targets(graph)
           /\ \A n : Successors(graph, n)' = Successors(graph, n)
  BY DEF Real, Simple, IsEdge

LEMMA VisitBreadthOK ==
    ASSUME SearchInv, VisitBreadth
    PROVE  SearchInv'
  <1> DEFINE h == Head(queue)
             unseen == Successors(graph, h) \ DOMAIN parent
             seen == DOMAIN parent \cup unseen
  <1>1. /\ queue \in Seq(DOMAIN parent) /\ queue # <<>>
        /\ parent' = [n \in seen |-> IF n \in unseen THEN h ELSE parent[n]]
        /\ queue' = Tail(queue) \o Sorted(unseen)
        /\ UNCHANGED <<graph, step, todo, target, route, untried, emitted,
                       paths, truncated, work>>
        /\ step = "breadth"
    BY DEF VisitBreadth, SearchInv, QueueInv, stackVars, resultVars
  <1>2. /\ h \in DOMAIN parent /\ Tail(queue) \in Seq(DOMAIN parent)
        /\ Len(Tail(queue)) = Len(queue) - 1 /\ Len(queue) \in Nat \ {0}
        /\ \A i \in 1..Len(Tail(queue)) : Tail(queue)[i] = queue[i + 1]
        /\ h = queue[1]
    BY <1>1, HeadTailProperties, EmptySeq
  <1>3. /\ unseen \subseteq Node /\ seen \subseteq Node
        /\ \A n \in unseen : IsEdge(h, n)
    BY DEF Successors, IsEdge, SearchInv, TreeInv
  <1>4. Sorted(unseen) \in Seq(unseen) /\ unseen \subseteq Range(Sorted(unseen))
    BY <1>3, SortedHas
  <1>5. Range(queue) \subseteq {h} \cup Range(Tail(queue))
    <2> SUFFICES ASSUME NEW i \in DOMAIN queue
                 PROVE  queue[i] \in {h} \cup Range(Tail(queue))
      BY DEF Range
    <2>1. i \in 1..Len(queue) /\ DOMAIN Tail(queue) = 1..Len(Tail(queue))
      BY <1>1, <1>2, LenProperties
    <2>2. CASE i = 1
      BY <2>2, <1>2
    <2>3. CASE i # 1
      <3>1. i - 1 \in 1..Len(Tail(queue)) /\ (i - 1) + 1 = i
        BY <1>2, <2>1, <2>3
      <3>2. queue[i] = Tail(queue)[i - 1]
        BY <1>2, <3>1
      <3> QED BY <2>1, <3>1, <3>2 DEF Range
    <2> QED BY <2>2, <2>3
  <1>6. /\ queue' \in Seq(seen)
        /\ Range(queue') = Range(Tail(queue)) \cup Range(Sorted(unseen))
    <2>1. Tail(queue) \in Seq(seen) /\ Sorted(unseen) \in Seq(seen)
      BY <1>2, <1>4, SeqMonotonic
    <2> DEFINE tail == Tail(queue)
               more == Sorted(unseen)
    <2>2. tail \in Seq(seen) /\ more \in Seq(seen) /\ queue' = tail \o more
      BY <1>1, <2>1
    <2> HIDE DEF tail, more, seen
    <2>3. tail \o more \in Seq(seen)
      BY <2>2, ConcatProperties
    <2>4. Range(tail \o more) = Range(tail) \cup Range(more)
      BY <2>2, RangeConcatenation
    <2> QED BY <2>2, <2>3, <2>4 DEF tail, more
  <1> HIDE DEF h, unseen
  <1>7. TreeInv'
    <2>1. DOMAIN parent' = seen /\ Internet \in DOMAIN parent
      BY <1>1 DEF SearchInv, TreeInv
    <2>2. parent'[Internet] = Internet
      BY <1>1, <2>1 DEF unseen, SearchInv, TreeInv
    <2>3. ASSUME NEW n \in seen \ {Internet}
          PROVE  parent'[n] \in seen /\ IsEdge(parent'[n], n)
      <3>1. CASE n \in unseen
        <4>1. parent'[n] = h
          BY <1>1, <3>1
        <4> QED BY <4>1, <3>1, <1>2, <1>3
      <3>2. CASE n \notin unseen
        <4>1. parent'[n] = parent[n] /\ n \in DOMAIN parent \ {Internet}
          BY <1>1, <3>2
        <4>2. parent[n] \in DOMAIN parent /\ IsEdge(parent[n], n)
          BY <4>1 DEF SearchInv, TreeInv
        <4> QED BY <4>1, <4>2
      <3> QED BY <3>1, <3>2
    <2>4. \A a, b : IsEdge(a, b)' <=> IsEdge(a, b)
      BY <1>1 DEF IsEdge
    <2> QED BY <1>3, <2>1, <2>2, <2>3, <2>4 DEF TreeInv
  <1>8. QueueInv'
    <2>1. ASSUME NEW n \in seen
          PROVE  n \in Range(queue') \/ Successors(graph, n) \subseteq seen
      <3>1. CASE n \in unseen
        BY <3>1, <1>4, <1>6
      <3>2. CASE n = h
        BY <3>2 DEF unseen
      <3>3. CASE n \in DOMAIN parent /\ n # h
        BY <3>3, <1>5, <1>6 DEF SearchInv, QueueInv
      <3> QED BY <3>1, <3>2, <3>3
    <2> QED BY <2>1, <1>1, <1>6 DEF QueueInv
  <1>9. TodoInv' /\ StackInv' /\ PathInv' /\ BudgetInv'
    BY <1>1, SameGraph
    DEF SearchInv, TodoInv, StackInv, PathInv, BudgetInv
  <1> QED BY <1>7, <1>8, <1>9 DEF SearchInv

(* Steps that leave the predecessors alone.                                *)
LEMMA TreeStays ==
    ASSUME TreeInv, UNCHANGED <<graph, parent>>
    PROVE  TreeInv'
  BY DEF TreeInv, IsEdge

LEMMA QueueStays ==
    ASSUME QueueInv, UNCHANGED <<graph, parent, queue>>,
           step = "breadth" => queue = <<>> \/ step' = "breadth"
    PROVE  QueueInv'
  BY DEF QueueInv

LEMMA EndBreadthOK ==
    ASSUME SearchInv, EndBreadth
    PROVE  SearchInv'
  <1> USE DEF SearchInv, EndBreadth, breadthVars, stackVars, resultVars
  <1>1. TreeInv' /\ QueueInv'
    BY TreeStays, QueueStays
  <1>2. TodoInv' /\ StackInv' /\ PathInv' /\ BudgetInv'
    BY SameGraph DEF TodoInv, StackInv, PathInv, BudgetInv, Step
  <1> QED BY <1>1, <1>2

LEMMA EndTargetsOK ==
    ASSUME SearchInv, EndTargets
    PROVE  SearchInv'
  <1> USE DEF SearchInv, EndTargets, breadthVars, stackVars, resultVars
  <1>1. TreeInv' /\ QueueInv'
    BY TreeStays, QueueStays
  <1>2. TodoInv' /\ StackInv' /\ PathInv' /\ BudgetInv'
    BY SameGraph DEF TodoInv, StackInv, PathInv, BudgetInv, Step
  <1> QED BY <1>1, <1>2

(* A budget that is not spent has room for one path and one step.          *)
LEMMA RoomForOne ==
    ASSUME BudgetInv, ~BudgetSpent, NEW p
    PROVE  /\ IsFiniteSet(paths \cup {p})
           /\ Cardinality(paths \cup {p}) <= MaxPaths
           /\ work + 1 \in 0..MaxPathWork
  <1>1. Cardinality(paths) \in Nat
    BY FS_CardinalityType DEF BudgetInv
  <1>2. Cardinality(paths) < MaxPaths /\ work < MaxPathWork
    BY <1>1, BudgetAssumption DEF BudgetSpent, BudgetInv
  <1>3. /\ IsFiniteSet(paths \cup {p})
        /\ Cardinality(paths \cup {p}) <= Cardinality(paths) + 1
    <2>1. /\ IsFiniteSet(paths \cup {p})
          /\ \/ Cardinality(paths \cup {p}) = Cardinality(paths)
             \/ Cardinality(paths \cup {p}) = Cardinality(paths) + 1
      BY FS_AddElement DEF BudgetInv
    <2> QED BY <1>1, <2>1
  <1>4. Cardinality(paths \cup {p}) \in Nat
    BY <1>3, FS_CardinalityType
  <1> QED BY <1>1, <1>2, <1>3, <1>4, BudgetAssumption DEF BudgetInv

LEMMA TakeTargetOK ==
    ASSUME SearchInv, TakeTarget
    PROVE  SearchInv'
  <1> USE DEF SearchInv
  <1>1. PICK t \in todo :
          /\ todo' = todo \ {t}
          /\ \/ /\ DepthsOf(t) = {}
                /\ truncated' = TRUE
                /\ UNCHANGED <<step, target, route, untried, emitted, paths>>
             \/ /\ truncated' = TRUE
                /\ step' = "done"
                /\ UNCHANGED <<target, route, untried, emitted, paths>>
             \/ /\ DepthsOf(t) # {} /\ ~BudgetSpent
                /\ paths' = paths \cup {Witness(t)}
                /\ emitted' = {Witness(t)}
                /\ target' = t
                /\ route' = <<Internet>>
                /\ untried' = <<Successors(graph, Internet)>>
                /\ step' = "depth"
                /\ UNCHANGED truncated
    BY DEF TakeTarget, stackVars
  <1>2. step = "target" /\ UNCHANGED <<graph, parent, queue, work>>
    BY DEF TakeTarget, breadthVars
  <1>3. TreeInv' /\ QueueInv'
    BY <1>1, <1>2, TreeStays, QueueStays
  <1>4. TodoInv'
    BY <1>1, <1>2, SameGraph DEF TodoInv
  <1>5. CASE UNCHANGED <<target, route, untried, emitted, paths>>
             /\ truncated' = TRUE /\ step' \in {"target", "done"}
    BY <1>2, <1>3, <1>4, <1>5, SameGraph DEF StackInv, PathInv, BudgetInv, Step
  <1>6. CASE /\ DepthsOf(t) # {} /\ ~BudgetSpent
             /\ paths' = paths \cup {Witness(t)}
             /\ emitted' = {Witness(t)}
             /\ target' = t
             /\ route' = <<Internet>>
             /\ untried' = <<Successors(graph, Internet)>>
             /\ step' = "depth"
             /\ UNCHANGED truncated
    <2>1. t \in DOMAIN parent /\ t \in Targets(graph) /\ t \in Node
      BY <1>2, TargetsAreSeen, TargetsAreNodes DEF TodoInv
    <2>2. Real(Witness(t)) /\ Last(Witness(t)) = t
      BY <2>1, <1>6, WitnessIsReal
    <2>3. PathInv'
      BY <1>2, <1>6, <2>1, <2>2, SameGraph DEF PathInv
    <2>4. Real(<<Internet>>)
      BY GraphAssumption DEF Real, Simple, IsInjective
    <2>5. Successors(graph, Internet) \in SUBSET Node
      BY DEF Successors
    <2>6. StackInv'
      <3>1. /\ route' \in Seq(Node) /\ untried' \in Seq(SUBSET Node)
            /\ Len(untried') = 1 /\ Len(route') = 1
        BY <1>6, <2>5, GraphAssumption
      <3>2. Real(route)' /\ (target \in Targets(graph))'
        BY <1>2, <1>6, <2>1, <2>4, SameGraph
      <3>3. \A i \in 1..1 : untried'[i] \subseteq Successors(graph, route'[i])
        BY <1>6
      <3> QED BY <1>2, <3>1, <3>2, <3>3 DEF StackInv
    <2>7. BudgetInv'
      BY <1>2, <1>6, <2>1, RoomForOne DEF BudgetInv, Step
    <2> QED BY <1>3, <1>4, <2>3, <2>6, <2>7
  <1> QED BY <1>1, <1>2, <1>5, <1>6

(* The stack while it is searched: its top, and what is left when the top  *)
(* has yielded a node.                                                     *)
LEMMA TopOf ==
    ASSUME StackInv, step = "depth"
    PROVE  /\ Len(route) \in Nat \ {0} /\ Len(untried) = Len(route)
           /\ route # <<>> /\ untried # <<>>
           /\ DOMAIN route = 1..Len(route)
           /\ DOMAIN untried = 1..Len(route)
           /\ Last(route) \in Node
           /\ Last(untried) \subseteq Successors(graph, Last(route))
  <1>1. route \in Seq(Node) /\ route # <<>> /\ untried \in Seq(SUBSET Node)
    BY DEF StackInv, Real, Simple
  <1>2. /\ Len(route) \in Nat \ {0} /\ Len(untried) = Len(route)
        /\ DOMAIN route = 1..Len(route) /\ DOMAIN untried = 1..Len(untried)
    BY <1>1, LenProperties, EmptySeq DEF StackInv
  <1>3. Len(route) \in 1..Len(route) /\ untried # <<>>
    BY <1>1, <1>2, EmptySeq
  <1>4. Last(route) \in Node
    BY <1>1, <1>3, ElementOfSeq DEF Last
  <1> QED BY <1>1, <1>2, <1>3, <1>4 DEF StackInv, Last

LEMMA RestOf ==
    ASSUME StackInv, step = "depth", NEW node
    PROVE  /\ Rest(node) \in Seq(SUBSET Node) /\ Len(Rest(node)) = Len(route)
           /\ \A i \in 1..Len(route) : Rest(node)[i] \subseteq untried[i]
  <1> DEFINE l == Len(untried)
             e == untried[l] \ {node}
  <1>1. /\ l \in 1..Len(untried) /\ untried \in Seq(SUBSET Node)
        /\ Len(untried) = Len(route)
    BY TopOf DEF StackInv
  <1>2. e \in SUBSET Node
    BY <1>1, ElementOfSeq
  <1>3. Rest(node) = [untried EXCEPT ![l] = e]
    BY DEF Rest
  <1> HIDE DEF l, e
  <1>4. /\ Rest(node) \in Seq(SUBSET Node) /\ Len(Rest(node)) = Len(untried)
        /\ \A i \in 1..Len(untried) :
              Rest(node)[i] = IF i = l THEN e ELSE untried[i]
    BY <1>1, <1>2, <1>3, ExceptSeq
  <1> QED BY <1>1, <1>4 DEF e

LEMMA RunOutOK ==
    ASSUME SearchInv, RunOut
    PROVE  SearchInv'
  <1> USE DEF SearchInv, RunOut, breadthVars, stackVars
  <1>1. TreeInv' /\ QueueInv'
    BY TreeStays, QueueStays
  <1>2. TodoInv' /\ StackInv' /\ PathInv' /\ BudgetInv'
    BY SameGraph DEF TodoInv, StackInv, PathInv, BudgetInv, Step
  <1> QED BY <1>1, <1>2

LEMMA BacktrackOK ==
    ASSUME SearchInv, Backtrack
    PROVE  SearchInv'
  <1> USE DEF SearchInv
  <1>1. /\ step = "depth" /\ ~BudgetSpent
        /\ work' = work + 1
        /\ untried' = Front(untried) /\ route' = Front(route)
        /\ step' = IF Len(untried) = 1 THEN "target" ELSE "depth"
        /\ UNCHANGED <<graph, parent, queue, todo, target, emitted, paths,
                       truncated>>
    BY DEF Backtrack, breadthVars
  <1>2. TreeInv' /\ QueueInv'
    BY <1>1, TreeStays, QueueStays
  <1>3. TodoInv' /\ PathInv'
    BY <1>1, SameGraph DEF TodoInv, PathInv
  <1>4. BudgetInv'
    BY <1>1, RoomForOne DEF BudgetInv, Step
  <1>5. StackInv'
    <2>1. /\ Len(route) \in Nat \ {0} /\ Len(untried) = Len(route)
          /\ route \in Seq(Node) /\ route # <<>>
          /\ untried \in Seq(SUBSET Node) /\ untried # <<>>
      BY <1>1, TopOf DEF StackInv
    <2>2. /\ route' \in Seq(Node) /\ Len(route') = Len(route) - 1
          /\ \A i \in 1..(Len(route) - 1) : route'[i] = route[i]
      BY <1>1, <2>1, FrontOf
    <2>3. /\ untried' \in Seq(SUBSET Node) /\ Len(untried') = Len(route) - 1
          /\ \A i \in 1..(Len(route) - 1) : untried'[i] = untried[i]
      BY <1>1, <2>1, FrontOf
    <2>4. ASSUME step' = "depth"
          PROVE  /\ Real(route)' /\ target \in Targets(graph)
                 /\ \A i \in 1..(Len(route) - 1) :
                       untried'[i] \subseteq Successors(graph, route'[i])
      <3>1. Len(route) > 1
        BY <1>1, <2>1, <2>4
      <3>2. Real(Front(route))
        BY <1>1, <3>1, SimpleFront DEF StackInv, Real
      <3>3. Real(route)'
        BY <1>1, <3>2, SameGraph
      <3>4. \A i \in 1..(Len(route) - 1) : i \in 1..Len(route)
        BY <2>1
      <3> QED BY <1>1, <2>2, <2>3, <3>3, <3>4 DEF StackInv
    <2> QED BY <1>1, <2>2, <2>3, <2>4, SameGraph DEF StackInv
  <1> QED BY <1>2, <1>3, <1>4, <1>5

(* What Yield(node) gives, whatever is done with the node.                 *)
LEMMA YieldGives ==
    ASSUME SearchInv, NEW node, Yield(node), untried' = Rest(node),
           route' = route, step' \in {"depth", "target"}
    PROVE  TreeInv' /\ QueueInv' /\ TodoInv' /\ StackInv'
  <1> USE DEF SearchInv
  <1>1. /\ step = "depth"
        /\ UNCHANGED <<graph, parent, queue, todo, target>>
    BY DEF Yield, breadthVars
  <1>2. TreeInv' /\ QueueInv'
    BY <1>1, TreeStays, QueueStays
  <1>3. TodoInv'
    BY <1>1, SameGraph DEF TodoInv
  <1>4. StackInv'
    BY <1>1, RestOf, SameGraph DEF StackInv
  <1> QED BY <1>2, <1>3, <1>4

LEMMA SkipOK ==
    ASSUME SearchInv, SkipVisited \/ SkipDeep
    PROVE  SearchInv'
  <1> USE DEF SearchInv
  <1>1. PICK node \in Node :
          /\ Yield(node) /\ untried' = Rest(node)
          /\ UNCHANGED <<step, route, emitted, paths>>
          /\ truncated' \in BOOLEAN
    BY DEF SkipVisited, SkipDeep, BudgetInv
  <1>2. /\ step = "depth" /\ ~BudgetSpent /\ work' = work + 1
        /\ UNCHANGED <<graph, target>>
    BY <1>1 DEF Yield
  <1>3. TreeInv' /\ QueueInv' /\ TodoInv' /\ StackInv'
    BY <1>1, <1>2, YieldGives
  <1>4. PathInv'
    BY <1>1, <1>2, SameGraph DEF PathInv
  <1>5. BudgetInv'
    BY <1>1, <1>2, RoomForOne DEF BudgetInv
  <1> QED BY <1>3, <1>4, <1>5

LEMMA EmitPathOK ==
    ASSUME SearchInv, EmitPath
    PROVE  SearchInv'
  <1> USE DEF SearchInv
  <1>1. PICK node \in Node :
          /\ Yield(node) /\ node \notin Range(route) /\ node = target
          /\ untried' = Rest(node) /\ route' = route
          /\ emitted' = emitted \cup {Append(route, node)}
          /\ paths' = paths \cup {Append(route, node)}
          /\ truncated' \in BOOLEAN
          /\ step' \in {"target", "depth"}
    BY DEF EmitPath, BudgetInv
  <1>2. /\ step = "depth" /\ ~BudgetSpent /\ work' = work + 1
        /\ UNCHANGED <<graph, target>> /\ node \in Last(untried)
    BY <1>1 DEF Yield, IsFirst
  <1>3. TreeInv' /\ QueueInv' /\ TodoInv' /\ StackInv'
    BY <1>1, YieldGives
  <1>4. PathInv'
    <2>1. node \in Successors(graph, Last(route)) /\ Real(route)
      BY <1>2, TopOf DEF StackInv
    <2>2. Real(Append(route, node)) /\ Last(Append(route, node)) = node
      BY <1>1, <2>1, RealAppend
    <2>3. node \in Targets(graph)
      BY <1>1, <1>2 DEF StackInv
    <2> QED BY <1>1, <1>2, <2>2, <2>3, SameGraph DEF PathInv
  <1>5. BudgetInv'
    BY <1>1, <1>2, RoomForOne DEF BudgetInv, Step
  <1> QED BY <1>3, <1>4, <1>5

LEMMA DescendOK ==
    ASSUME SearchInv, Descend
    PROVE  SearchInv'
  <1> USE DEF SearchInv
  <1>1. PICK node \in Node :
          /\ Yield(node) /\ node \notin Range(route)
          /\ untried' = Append(Rest(node), Successors(graph, node))
          /\ route' = Append(route, node)
          /\ UNCHANGED <<step, emitted, paths, truncated>>
    BY DEF Descend
  <1>2. /\ step = "depth" /\ ~BudgetSpent /\ work' = work + 1
        /\ UNCHANGED <<graph, parent, queue, todo, target>>
        /\ node \in Last(untried)
    BY <1>1 DEF Yield, IsFirst, breadthVars
  <1>3. TreeInv' /\ QueueInv'
    BY <1>1, <1>2, TreeStays, QueueStays
  <1>4. TodoInv' /\ PathInv'
    BY <1>1, <1>2, SameGraph DEF TodoInv, PathInv
  <1>5. BudgetInv'
    BY <1>1, <1>2, RoomForOne DEF BudgetInv
  <1>6. StackInv'
    <2> DEFINE l == Len(route)
               rest == Rest(node)
               next == Successors(graph, node)
    <2>1. /\ l \in Nat \ {0} /\ node \in Successors(graph, Last(route))
          /\ route \in Seq(Node) /\ Real(route)
          /\ \A i \in 1..l : untried[i] \subseteq Successors(graph, route[i])
      BY <1>2, TopOf DEF StackInv
    <2>2. /\ rest \in Seq(SUBSET Node) /\ Len(rest) = l
          /\ \A i \in 1..l : rest[i] \subseteq untried[i]
      BY <1>2, RestOf
    <2>3. next \in SUBSET Node
      BY DEF Successors
    <2>4. /\ route' \in Seq(Node) /\ Len(route') = l + 1
          /\ \A i \in 1..l : route'[i] = route[i]
          /\ route'[l + 1] = node
      BY <1>1, <2>1, AppendProperties
    <2>5. /\ untried' \in Seq(SUBSET Node) /\ Len(untried') = l + 1
          /\ \A i \in 1..l : untried'[i] = rest[i]
          /\ untried'[l + 1] = next
      <3> HIDE DEF rest, next, l
      <3>1. untried' = Append(rest, next)
        BY <1>1 DEF rest, next
      <3> QED BY <2>2, <2>3, <3>1, AppendProperties
    <2>6. Real(route)'
      BY <1>1, <1>2, <2>1, RealAppend, SameGraph
    <2> HIDE DEF rest, l
    <2>7. \A i \in 1..(l + 1) : untried'[i] \subseteq Successors(graph, route'[i])
      <3> TAKE i \in 1..(l + 1)
      <3>1. CASE i \in 1..l
        BY <3>1, <2>1, <2>2, <2>4, <2>5
      <3>2. CASE i = l + 1
        BY <3>2, <2>4, <2>5
      <3> QED BY <2>1, <3>1, <3>2
    <2> QED BY <1>1, <1>2, <2>1, <2>4, <2>5, <2>6, <2>7, SameGraph DEF StackInv
  <1> QED BY <1>3, <1>4, <1>5, <1>6

LEMMA SearchStepOK ==
    ASSUME SearchInv, [SearchStep]_searchVars
    PROVE  SearchInv'
  <1>1. CASE SearchStep
    BY <1>1, VisitBreadthOK, EndBreadthOK, TakeTargetOK, EndTargetsOK,
       RunOutOK, BacktrackOK, SkipOK, EmitPathOK, DescendOK
    DEF SearchStep, DepthStep
  <1>2. CASE UNCHANGED searchVars
    <2> USE <1>2
        DEF SearchInv, searchVars, breadthVars, stackVars, resultVars
    <2>1. TreeInv' /\ QueueInv'
      BY TreeStays, QueueStays
    <2>2. TodoInv' /\ StackInv' /\ PathInv' /\ BudgetInv'
      BY SameGraph DEF TodoInv, StackInv, PathInv, BudgetInv
    <2> QED BY <2>1, <2>2
  <1> QED BY <1>1, <1>2

LEMMA RealPaths ==
    ASSUME SearchInv PROVE PathsAreReal
  <1>1. \A p \in paths :
           /\ p \in Seq(Node) /\ p # <<>>
           /\ p[1] = Internet /\ Last(p) \in Targets(graph)
           /\ IsInjective(p)
           /\ \A i \in 1..(Len(p) - 1) : <<p[i], p[i + 1]>> \in DOMAIN graph.edges
    BY DEF SearchInv, PathInv, Real, Simple, IsEdge
  <1> QED BY <1>1 DEF PathsAreReal

-----------------------------------------------------------------------------
(* Honest budgets.  What the enumeration still owes of a target it is busy *)
(* with is a path that leaves the route where an iterator holds its next   *)
(* node; the other targets whose turn is over are owed nothing, as long as *)
(* the result is not marked truncated.                                     *)

Pending(p) ==
    \E k \in 1..Len(route) :
       /\ k < Len(p)
       /\ \A i \in 1..k : p[i] = route[i]
       /\ p[k + 1] \in untried[k]

Settled(t) == \A p : Real(p) /\ Last(p) = t => p \in paths

EnumInv ==
    ~truncated =>
       /\ \A t \in Targets(graph) \ todo :
             (step = "depth" /\ t = target) \/ Settled(t)
       /\ step = "depth" =>
             \A p : Real(p) /\ Last(p) = target => p \in paths \/ Pending(p)
       /\ step = "done" => todo = {}

(* A target whose turn came has a path, or no witness within the depth.    *)
WitnessInv ==
    /\ step = "breadth" => todo = Targets(graph)
    /\ step \in {"target", "depth"} =>
          \A t \in Targets(graph) \ todo :
             \/ \E p \in paths : Last(p) = t
             \/ truncated /\ DepthsOf(t) = {}

(* The breadth-first pass goes by levels: a level is one more than that of *)
(* the predecessor, the queue is in their order and at most one level      *)
(* deep, and an edge from a node that has been visited climbs at most one. *)
Levels(lv) ==
    /\ lv \in [DOMAIN parent -> Nat]
    /\ lv[Internet] = 0
    /\ \A n \in DOMAIN parent \ {Internet} : lv[n] = lv[parent[n]] + 1
    /\ \A i, j \in 1..Len(queue) : i <= j => lv[queue[i]] <= lv[queue[j]]
    /\ queue # <<>> => \A n \in DOMAIN parent : lv[n] <= lv[Head(queue)] + 1
    /\ \A n \in DOMAIN parent :
          \/ n \in Range(queue)
          \/ \A m \in Successors(graph, n) : lv[m] <= lv[n] + 1

LevelInv == \E lv : Levels(lv)

HonestInv == EnumInv /\ WitnessInv /\ LevelInv

LEMMA TargetIsNotInternet ==
    ASSUME NEW g PROVE Internet \notin Targets(g)
  BY DEF Targets, ExposedResources, Reachable

LEMMA StartHonest ==
    ASSUME NEW g, StartWith(g)
    PROVE  HonestInv
  <1> USE DEF StartWith
  <1>1. EnumInv /\ WitnessInv
    BY DEF EnumInv, WitnessInv
  <1>2. Levels([n \in {Internet} |-> 0])
    BY DEF Levels, Range
  <1> QED BY <1>1, <1>2 DEF HonestInv, LevelInv

LEMMA RestartHonest ==
    ASSUME NEW g, Restart(g)
    PROVE  HonestInv'
  <1> USE DEF Restart
  <1>1. EnumInv' /\ WitnessInv'
    BY DEF EnumInv, WitnessInv
  <1>2. Levels([n \in {Internet} |-> 0])'
    BY DEF Levels, Range
  <1> QED BY <1>1, <1>2 DEF HonestInv, LevelInv

LEMMA LevelStays ==
    ASSUME LevelInv, UNCHANGED <<graph, parent, queue>>
    PROVE  LevelInv'
  BY SameGraph DEF LevelInv, Levels

LEMMA DepthsStay ==
    ASSUME UNCHANGED parent
    PROVE  \A t : DepthsOf(t)' = DepthsOf(t)
  BY DEF DepthsOf, Back

LEMMA VisitBreadthLevels ==
    ASSUME SearchInv, LevelInv, VisitBreadth
    PROVE  LevelInv'
  <1> DEFINE h == Head(queue)
             unseen == Successors(graph, h) \ DOMAIN parent
             seen == DOMAIN parent \cup unseen
             tail == Tail(queue)
             more == Sorted(unseen)
  <1>1. /\ queue \in Seq(DOMAIN parent) /\ queue # <<>>
        /\ parent' = [n \in seen |-> IF n \in unseen THEN h ELSE parent[n]]
        /\ queue' = tail \o more
        /\ graph' = graph
    BY DEF VisitBreadth, SearchInv, QueueInv
  <1>2. PICK lv : Levels(lv)
    BY DEF LevelInv
  <1>3. /\ h \in DOMAIN parent /\ tail \in Seq(DOMAIN parent)
        /\ Len(tail) = Len(queue) - 1 /\ Len(queue) \in Nat \ {0}
        /\ \A i \in 1..Len(tail) : tail[i] = queue[i + 1]
        /\ h = queue[1]
    BY <1>1, HeadTailProperties, EmptySeq
  <1>4. unseen \subseteq Node
    BY DEF Successors
  <1>5. more \in Seq(unseen) /\ unseen \subseteq Range(more)
    BY <1>4, SortedHas
  <1>6. /\ Internet \in DOMAIN parent
        /\ \A n \in DOMAIN parent \ {Internet} : parent[n] \in DOMAIN parent
        /\ \A n \in DOMAIN parent :
              n \in Range(queue) \/ Successors(graph, n) \subseteq DOMAIN parent
    BY DEF SearchInv, TreeInv, QueueInv
  <1>7. \A n \in unseen : n \notin DOMAIN parent
    OBVIOUS
  <1>8. \A m \in Successors(graph, h) : m \in seen
    OBVIOUS
  <1> HIDE DEF h, unseen, tail, more
  <1>0. PICK lw : lw = [n \in seen |-> IF n \in unseen THEN lv[h] + 1 ELSE lv[n]]
    OBVIOUS
  <1>9. /\ \A n \in DOMAIN parent : lv[n] \in Nat /\ lw[n] = lv[n]
        /\ \A n \in unseen : lw[n] = lv[h] + 1
        /\ lv[h] \in Nat /\ lw[h] = lv[h]
        /\ \A n \in DOMAIN parent : lv[n] <= lv[h] + 1
        /\ lw \in [seen -> Nat]
        /\ DOMAIN parent' = seen
    BY <1>0, <1>1, <1>2, <1>3, <1>7 DEF Levels, h
  <1>10. \A n \in seen : lw[n] \in Nat /\ lw[n] <= lv[h] + 1
    BY <1>9
  <1>11. /\ DOMAIN tail = 1..Len(tail) /\ Len(tail) \in Nat
         /\ DOMAIN more = 1..Len(more) /\ Len(more) \in Nat
         /\ DOMAIN queue = 1..Len(queue)
         /\ Len(queue') = Len(tail) + Len(more)
         /\ DOMAIN queue' = 1..(Len(tail) + Len(more))
         /\ \A i \in 1..(Len(tail) + Len(more)) :
               queue'[i] = IF i <= Len(tail) THEN tail[i]
                           ELSE more[i - Len(tail)]
    <2>1. tail \in Seq(seen) /\ more \in Seq(seen)
      BY <1>3, <1>5, SeqMonotonic
    <2> HIDE DEF seen
    <2>2. tail \o more \in Seq(seen)
      BY <2>1, ConcatProperties
    <2> QED BY <1>1, <2>1, <2>2, ConcatProperties, LenProperties
  <1>12. \A i \in 1..Len(tail) :
            /\ i + 1 \in 1..Len(queue) /\ queue'[i] = queue[i + 1]
            /\ queue'[i] \in DOMAIN parent
    BY <1>1, <1>3, <1>11, ElementOfSeq
  <1>13. \A i \in 1..(Len(tail) + Len(more)) :
            i \in 1..Len(tail) \/ queue'[i] \in unseen
    <2> TAKE i \in 1..(Len(tail) + Len(more))
    <2>1. CASE i <= Len(tail)
      BY <2>1, <1>11
    <2>2. CASE ~(i <= Len(tail))
      <3>1. i - Len(tail) \in 1..Len(more)
        BY <2>2, <1>11
      <3> QED BY <2>2, <3>1, <1>5, <1>11, ElementOfSeq
    <2> QED BY <2>1, <2>2
  <1>14. ASSUME NEW i \in 1..Len(queue'), NEW j \in 1..Len(queue'), i <= j
         PROVE  lw[queue'[i]] <= lw[queue'[j]]
    <2>1. CASE j \in 1..Len(tail)
      <3>1. /\ i \in 1..Len(tail) /\ i + 1 <= j + 1
            /\ i + 1 \in 1..Len(queue) /\ j + 1 \in 1..Len(queue)
        BY <1>12, <1>14, <2>1
      <3>2. lv[queue[i + 1]] <= lv[queue[j + 1]]
        BY <1>2, <3>1 DEF Levels
      <3> QED BY <1>9, <1>12, <2>1, <3>1, <3>2
    <2>2. CASE queue'[j] \in unseen
      <3>1. queue'[i] \in seen
        BY <1>11, <1>12, <1>13
      <3> QED BY <1>9, <1>10, <2>2, <3>1
    <2> QED BY <1>11, <1>13, <2>1, <2>2
  <1>15. ASSUME queue' # <<>>, NEW n \in seen
         PROVE  lw[n] <= lw[Head(queue')] + 1
    <2>1. 1 \in 1..(Len(tail) + Len(more)) /\ Head(queue') = queue'[1]
      <3>1. tail \in Seq(seen) /\ more \in Seq(seen)
        BY <1>3, <1>5, SeqMonotonic
      <3>2. queue' \in Seq(seen)
        BY <3>1, <1>1, ConcatProperties
      <3> QED BY <1>11, <1>15, <3>2, EmptySeq
    <2>2. CASE 1 \in 1..Len(tail)
      <3>1. lv[queue[1]] <= lv[queue[1 + 1]]
        <4>1. 1 \in 1..Len(queue) /\ 1 + 1 \in 1..Len(queue) /\ 1 <= 1 + 1
          BY <1>3, <1>12, <2>2
        <4> QED BY <1>2, <4>1 DEF Levels
      <3>2. lw[queue'[1]] = lv[queue[1 + 1]] /\ lv[queue[1 + 1]] \in Nat
        BY <1>9, <1>12, <2>2
      <3>3. lv[h] <= lw[queue'[1]] /\ lw[queue'[1]] \in Nat
        BY <1>3, <3>1, <3>2
      <3> QED BY <1>9, <1>10, <2>1, <3>3
    <2>3. CASE queue'[1] \in unseen
      BY <1>9, <1>10, <2>1, <2>3
    <2> QED BY <1>13, <2>1, <2>2, <2>3
  <1>16. Range(queue) \subseteq {h} \cup Range(queue')
    <2> SUFFICES ASSUME NEW i \in 1..Len(queue)
                 PROVE  queue[i] \in {h} \cup Range(queue')
      BY <1>11 DEF Range
    <2>1. CASE i = 1
      BY <2>1, <1>3
    <2>2. CASE i # 1
      <3>1. i - 1 \in 1..Len(tail) /\ (i - 1) + 1 = i
        BY <1>3, <2>2
      <3>2. queue'[i - 1] = queue[i]
        BY <3>1, <1>12
      <3>3. i - 1 \in DOMAIN queue'
        BY <3>1, <1>11
      <3> QED BY <3>2, <3>3 DEF Range
    <2> QED BY <2>1, <2>2
  <1>17. unseen \subseteq Range(queue')
    <2> SUFFICES ASSUME NEW i \in 1..Len(more)
                 PROVE  more[i] \in Range(queue')
      BY <1>5, <1>11 DEF Range
    <2>1. /\ Len(tail) + i \in 1..(Len(tail) + Len(more))
          /\ ~(Len(tail) + i <= Len(tail)) /\ (Len(tail) + i) - Len(tail) = i
      BY <1>11
    <2>2. queue'[Len(tail) + i] = more[i]
      BY <2>1, <1>11
    <2> QED BY <2>1, <2>2, <1>11 DEF Range
  <1>18. ASSUME NEW n \in seen, n \notin Range(queue'),
                NEW m \in Successors(graph, n)
         PROVE  lw[m] <= lw[n] + 1
    <2>1. n \in DOMAIN parent
      BY <1>17, <1>18
    <2>2. CASE n = h
      <3>1. m \in seen
        BY <1>8, <1>18, <2>2
      <3> QED BY <1>9, <1>10, <2>2, <3>1
    <2>3. CASE n # h
      <3>1. n \notin Range(queue)
        BY <1>16, <1>18, <2>3
      <3>2. m \in DOMAIN parent /\ lv[m] <= lv[n] + 1
        BY <1>2, <1>6, <1>18, <2>1, <3>1 DEF Levels
      <3> QED BY <1>9, <2>1, <3>2
    <2> QED BY <2>2, <2>3
  <1>19. ASSUME NEW n \in seen \ {Internet}
         PROVE  lw[n] = lw[parent'[n]] + 1
    <2>1. CASE n \in unseen
      <3>1. parent'[n] = h
        BY <1>1, <2>1
      <3> QED BY <3>1, <2>1, <1>9
    <2>2. CASE n \notin unseen
      <3>1. parent'[n] = parent[n] /\ n \in DOMAIN parent \ {Internet}
        BY <1>1, <2>2
      <3>2. parent[n] \in DOMAIN parent /\ lv[n] = lv[parent[n]] + 1
        BY <1>2, <1>6, <3>1 DEF Levels
      <3> QED BY <1>9, <3>1, <3>2
    <2> QED BY <2>1, <2>2
  <1>20. lw[Internet] = 0
    BY <1>2, <1>6, <1>9 DEF Levels
  <1>21. \A n : Successors(graph, n)' = Successors(graph, n)
    BY <1>1 DEF Successors
  <1>22. Levels(lw)'
    BY <1>9, <1>14, <1>15, <1>18, <1>19, <1>20, <1>21 DEF Levels
  <1> QED BY <1>22 DEF LevelInv

(* A simple path within the depth leaves its last node no farther from the *)
(* Internet than it is long, so that a witness exists.                     *)
LEMMA ShortPathsWitness ==
    ASSUME SearchInv, LevelInv, step # "breadth",
           NEW p, Real(p), Len(p) <= MaxPathDepth + 1
    PROVE  DepthsOf(Last(p)) # {}
  <1>1. PICK lv : Levels(lv)
    BY DEF LevelInv
  <1>2. queue = <<>>
    BY DEF SearchInv, QueueInv
  <1>3. \A n \in DOMAIN parent : \A m \in Successors(graph, n) :
           m \in DOMAIN parent /\ lv[m] <= lv[n] + 1
    BY <1>1, <1>2 DEF Levels, SearchInv, QueueInv, Range
  <1>4. /\ Internet \in DOMAIN parent /\ lv[Internet] = 0
        /\ \A n \in DOMAIN parent : lv[n] \in Nat
        /\ \A n \in DOMAIN parent \ {Internet} :
              parent[n] \in DOMAIN parent /\ lv[n] = lv[parent[n]] + 1
    BY <1>1 DEF Levels, SearchInv, TreeInv
  <1> DEFINE l == Len(p)
             T == {i \in 0..(l - 1) : p[i + 1] \in DOMAIN parent /\ lv[p[i + 1]] <= i}
  <1>5. /\ p \in Seq(Node) /\ l \in Nat \ {0} /\ p[1] = Internet
        /\ \A i \in 1..(l - 1) : p[i + 1] \in Successors(graph, p[i])
    <2>1. p \in Seq(Node) /\ l \in Nat \ {0} /\ p[1] = Internet
      BY EmptySeq DEF Real, Simple
    <2>2. ASSUME NEW i \in 1..(l - 1)
          PROVE  p[i + 1] \in Successors(graph, p[i])
      <3>1. i + 1 \in 1..l
        BY <2>1
      <3>2. p[i + 1] \in Node
        BY <2>1, <3>1, ElementOfSeq
      <3> QED BY <3>2 DEF Real, Simple, Successors
    <2> QED BY <2>1, <2>2
  <1>6. Last(p) = p[l]
    BY DEF Last
  <1>7. MaxPathDepth \in Nat /\ l <= MaxPathDepth + 1
    BY BudgetAssumption
  <1> HIDE DEF l
  <1>8. l - 1 \in T
    <2>1. 0 \in T
      BY <1>4, <1>5
    <2>2. ASSUME NEW i \in 0..(l - 1), i \in T, i < l - 1
          PROVE  i + 1 \in T
      <3>1. /\ i + 1 \in 1..(l - 1) /\ i + 1 \in 0..(l - 1)
            /\ p[i + 1] \in DOMAIN parent /\ lv[p[i + 1]] <= i
        BY <1>5, <2>2
      <3>2. p[(i + 1) + 1] \in Successors(graph, p[i + 1])
        BY <1>5, <3>1
      <3>3. /\ p[(i + 1) + 1] \in DOMAIN parent
            /\ lv[p[(i + 1) + 1]] <= lv[p[i + 1]] + 1
        BY <1>3, <3>1, <3>2
      <3>4. lv[p[i + 1]] \in Nat /\ lv[p[(i + 1) + 1]] \in Nat
        BY <1>4, <3>1, <3>3
      <3> QED BY <3>1, <3>3, <3>4
    <2>3. l - 1 \in Nat
      BY <1>5
    <2>4. 0..(l - 1) \subseteq T
      <3> DEFINE M == l - 1
      <3> HIDE DEF T, M
      <3>1. M \in Nat /\ \A i \in 0..M : i \in T /\ i < M => i + 1 \in T
        BY <2>2, <2>3 DEF M
      <3>2. 0..M \subseteq T
        BY <3>1, <2>1, Upwards
      <3> QED BY <3>2 DEF M
    <2> QED BY <2>3, <2>4
  <1> DEFINE t == p[l]
             d == lv[t]
             up == Back(t)
  <1>9. t \in DOMAIN parent /\ d \in Nat /\ d <= MaxPathDepth
    <2>1. (l - 1) + 1 = l
      BY <1>5
    <2> QED BY <1>4, <1>5, <1>7, <1>8, <2>1
  <1>10. /\ up[0] = t
         /\ \A k \in 0..MaxPathDepth : k < MaxPathDepth => up[k + 1] = parent[up[k]]
    BY BackIs
  <1> HIDE DEF T, t, up, d
  <1> DEFINE U == {k \in 0..d : up[k] \in DOMAIN parent /\ lv[up[k]] = d - k}
  <1>11. d \in U
    <2>1. 0 \in U
      BY <1>9, <1>10 DEF d
    <2>2. ASSUME NEW k \in 0..d, k \in U, k < d
          PROVE  k + 1 \in U
      <3>1. up[k] \in DOMAIN parent /\ lv[up[k]] = d - k /\ d - k # 0
        BY <1>9, <2>2
      <3>2. up[k] # Internet
        BY <3>1, <1>4
      <3>3. k \in 0..MaxPathDepth /\ k < MaxPathDepth /\ k + 1 \in 0..d
        BY <1>7, <1>9, <2>2
      <3>4. up[k + 1] = parent[up[k]]
        BY <3>3, <1>10
      <3>5. up[k + 1] \in DOMAIN parent /\ lv[up[k]] = lv[up[k + 1]] + 1
        BY <3>1, <3>2, <3>4, <1>4
      <3>6. lv[up[k + 1]] \in Nat
        BY <3>5, <1>4
      <3> QED BY <1>9, <3>1, <3>3, <3>5, <3>6
    <2>3. 0..d \subseteq U
      <3> HIDE DEF U
      <3> QED BY <1>9, <2>1, <2>2, Upwards
    <2> QED BY <1>9, <2>3
  <1>12. up[d] = Internet
    <2>1. up[d] \in DOMAIN parent /\ lv[up[d]] = 0
      BY <1>9, <1>11
    <2>2. ASSUME up[d] # Internet PROVE FALSE
      <3>1. parent[up[d]] \in DOMAIN parent /\ lv[up[d]] = lv[parent[up[d]]] + 1
        BY <2>1, <2>2, <1>4
      <3>2. lv[parent[up[d]]] \in Nat
        BY <3>1, <1>4
      <3> QED BY <2>1, <3>1, <3>2
    <2> QED BY <2>2
  <1>13. d \in DepthsOf(t)
    BY <1>7, <1>9, <1>12 DEF DepthsOf, up
  <1> QED BY <1>6, <1>13 DEF t

-----------------------------------------------------------------------------
(* Every step keeps the budgets honest.                                    *)

LEMMA VisitBreadthHonest ==
    ASSUME SearchInv, HonestInv, VisitBreadth
    PROVE  HonestInv'
  <1>1. LevelInv'
    BY VisitBreadthLevels DEF HonestInv
  <1>2. /\ step = "breadth" /\ step' = step
        /\ UNCHANGED <<graph, todo, target, paths, truncated>>
    BY DEF VisitBreadth, resultVars
  <1>3. EnumInv'
    BY <1>2, SameGraph DEF HonestInv, EnumInv, Settled
  <1>4. WitnessInv'
    BY <1>2, SameGraph DEF HonestInv, WitnessInv
  <1> QED BY <1>1, <1>3, <1>4 DEF HonestInv

LEMMA EndBreadthHonest ==
    ASSUME SearchInv, HonestInv, EndBreadth
    PROVE  HonestInv'
  <1>1. /\ step = "breadth" /\ step' = "target"
        /\ UNCHANGED <<graph, parent, queue, todo, target, paths, truncated>>
    BY DEF EndBreadth, resultVars, breadthVars
  <1>2. LevelInv'
    BY <1>1, LevelStays DEF HonestInv
  <1>3. EnumInv' /\ WitnessInv'
    BY <1>1, SameGraph DEF HonestInv, EnumInv, WitnessInv, Settled
  <1> QED BY <1>2, <1>3 DEF HonestInv

LEMMA EndTargetsHonest ==
    ASSUME SearchInv, HonestInv, EndTargets
    PROVE  HonestInv'
  <1>1. /\ step = "target" /\ step' = "done" /\ todo = {}
        /\ UNCHANGED <<graph, parent, queue, todo, target, paths, truncated>>
    BY DEF EndTargets, resultVars, breadthVars
  <1>2. LevelInv'
    BY <1>1, LevelStays DEF HonestInv
  <1>3. EnumInv' /\ WitnessInv'
    BY <1>1, SameGraph DEF HonestInv, EnumInv, WitnessInv, Settled
  <1> QED BY <1>2, <1>3 DEF HonestInv

LEMMA TakeTargetHonest ==
    ASSUME SearchInv, HonestInv, TakeTarget
    PROVE  HonestInv'
  <1>1. PICK t \in todo :
          /\ todo' = todo \ {t}
          /\ \/ /\ DepthsOf(t) = {}
                /\ truncated' = TRUE
                /\ UNCHANGED <<step, target, route, untried, emitted, paths>>
             \/ /\ truncated' = TRUE
                /\ step' = "done"
                /\ UNCHANGED <<target, route, untried, emitted, paths>>
             \/ /\ DepthsOf(t) # {} /\ ~BudgetSpent
                /\ paths' = paths \cup {Witness(t)}
                /\ emitted' = {Witness(t)}
                /\ target' = t
                /\ route' = <<Internet>>
                /\ untried' = <<Successors(graph, Internet)>>
                /\ step' = "depth"
                /\ UNCHANGED truncated
    BY DEF TakeTarget, stackVars
  <1>2. step = "target" /\ UNCHANGED <<graph, parent, queue, work>>
    BY DEF TakeTarget, breadthVars
  <1>3. LevelInv'
    BY <1>2, LevelStays DEF HonestInv
  <1>4. /\ \A u : DepthsOf(u)' = DepthsOf(u)
        /\ Targets(graph)' = Targets(graph)
        /\ \A p : Real(p)' <=> Real(p)
    BY <1>2, SameGraph, DepthsStay
  <1>5. \A u \in Targets(graph) \ todo' : u = t \/ u \in Targets(graph) \ todo
    BY <1>1
  <1>6. t \in DOMAIN parent /\ t \in Targets(graph) /\ t # Internet
    BY <1>2, TargetsAreSeen, TargetIsNotInternet DEF TodoInv, SearchInv
  <1>7. CASE /\ DepthsOf(t) = {} /\ truncated' = TRUE
             /\ UNCHANGED <<step, target, route, untried, emitted, paths>>
    <2>1. EnumInv'
      BY <1>7 DEF EnumInv
    <2>2. WitnessInv'
      BY <1>2, <1>4, <1>5, <1>7 DEF HonestInv, WitnessInv
    <2> QED BY <1>3, <2>1, <2>2 DEF HonestInv
  <1>8. CASE truncated' = TRUE /\ step' = "done"
    BY <1>3, <1>8 DEF HonestInv, EnumInv, WitnessInv
  <1>9. CASE /\ DepthsOf(t) # {}
             /\ paths' = paths \cup {Witness(t)}
             /\ target' = t
             /\ route' = <<Internet>>
             /\ untried' = <<Successors(graph, Internet)>>
             /\ step' = "depth"
             /\ UNCHANGED truncated
    <2>1. Last(Witness(t)) = t
      BY <1>6, <1>9, WitnessIsReal DEF SearchInv
    <2>2. WitnessInv'
      BY <1>2, <1>4, <1>5, <1>9, <2>1 DEF HonestInv, WitnessInv
    <2>3. ASSUME ~truncated, NEW u \in Targets(graph) \ todo', u # t
          PROVE  Settled(u)'
      <3>1. Settled(u)
        BY <1>2, <1>5, <2>3 DEF HonestInv, EnumInv
      <3> QED BY <1>4, <1>9, <3>1 DEF Settled
    <2>4. ASSUME NEW p, Real(p), Last(p) = t
          PROVE  Pending(p)'
      <3>1. /\ p \in Seq(Node) /\ Len(p) \in Nat \ {0} /\ p[1] = Internet
            /\ p[Len(p)] = t
        BY <2>4, EmptySeq DEF Real, Simple, Last
      <3>2. Len(p) # 1
        BY <1>6, <3>1
      <3>3. 1 < Len(p) /\ 1 \in 1..(Len(p) - 1) /\ 1 + 1 \in 1..Len(p)
        <4>1. \A n \in Nat \ {0} :
                 n # 1 => 1 < n /\ 1 \in 1..(n - 1) /\ 1 + 1 \in 1..n
          OBVIOUS
        <4> QED BY <3>1, <3>2, <4>1
      <3>4. <<p[1], p[1 + 1]>> \in DOMAIN graph.edges /\ p[1 + 1] \in Node
        BY <2>4, <3>1, <3>3, ElementOfSeq DEF Real, Simple
      <3>5. p[1 + 1] \in Successors(graph, Internet)
        BY <3>1, <3>4 DEF Successors
      <3>6. route'[1] = Internet /\ untried'[1] = Successors(graph, Internet)
        BY <1>9
      <3>7. 1 \in 1..Len(route') /\ \A i \in 1..1 : p[i] = route'[i]
        BY <1>9, <3>1, <3>6
      <3> QED BY <3>3, <3>5, <3>6, <3>7 DEF Pending
    <2>5. EnumInv'
      BY <1>4, <1>9, <2>3, <2>4 DEF EnumInv
    <2> QED BY <1>3, <2>2, <2>5 DEF HonestInv
  <1> QED BY <1>1, <1>7, <1>8, <1>9

(* A step of the enumeration settles at most the target it is busy with.   *)
LEMMA DepthHonest ==
    ASSUME SearchInv, HonestInv, step = "depth",
           UNCHANGED <<graph, parent, queue, todo, target>>,
           paths \subseteq paths',
           step' \in {"depth", "target"}, truncated => truncated',
           ~truncated' =>
              \A p : Real(p) /\ Last(p) = target =>
                 p \in paths' \/ (step' = "depth" /\ Pending(p)')
    PROVE  HonestInv'
  <1>1. LevelInv'
    BY LevelStays DEF HonestInv
  <1>2. /\ \A u : DepthsOf(u)' = DepthsOf(u)
        /\ Targets(graph)' = Targets(graph)
        /\ \A p : Real(p)' <=> Real(p)
    BY SameGraph, DepthsStay
  <1>3. WitnessInv'
    BY <1>2 DEF HonestInv, WitnessInv
  <1>4. EnumInv'
    <2> SUFFICES ASSUME ~truncated'
                 PROVE  /\ \A t \in Targets(graph) \ todo :
                             (step' = "depth" /\ t = target) \/ Settled(t)'
                        /\ step' = "depth" =>
                             \A p : Real(p) /\ Last(p) = target =>
                                       p \in paths' \/ Pending(p)'
      BY <1>2 DEF EnumInv
    <2>1. \A p : Real(p) /\ Last(p) = target =>
                    p \in paths' \/ (step' = "depth" /\ Pending(p)')
      OBVIOUS
    <2>2. ASSUME NEW t \in Targets(graph) \ todo, t # target
          PROVE  Settled(t)'
      <3>1. Settled(t)
        BY <2>2 DEF HonestInv, EnumInv
      <3> QED BY <1>2, <3>1 DEF Settled
    <2>3. ASSUME step' # "depth"
          PROVE  Settled(target)'
      BY <1>2, <2>1, <2>3 DEF Settled
    <2> QED BY <2>1, <2>2, <2>3
  <1> QED BY <1>1, <1>3, <1>4 DEF HonestInv

LEMMA RunOutHonest ==
    ASSUME SearchInv, HonestInv, RunOut
    PROVE  HonestInv'
  <1>1. /\ step = "depth" /\ step' = "target" /\ truncated' = TRUE
        /\ UNCHANGED <<graph, parent, queue, todo, target, paths>>
    BY DEF RunOut, breadthVars
  <1> QED BY <1>1, DepthHonest

(* What is pending of a path, and what the enumeration owes, in this state.*)
LEMMA PendingIs ==
    ASSUME SearchInv, HonestInv, step = "depth", ~truncated,
           NEW p, Real(p), Last(p) = target, p \notin paths
    PROVE  \E k \in 1..Len(route) :
              /\ k < Len(p) /\ k + 1 \in 1..Len(p) /\ Len(p) \in Nat
              /\ \A i \in 1..k : p[i] = route[i]
              /\ p[k + 1] \in untried[k]
              /\ p \in Seq(Node) /\ p[Len(p)] = target
              /\ \A i, j \in 1..Len(p) : p[i] = p[j] => i = j
  <1>1. PICK k \in 1..Len(route) :
              /\ k < Len(p)
              /\ \A i \in 1..k : p[i] = route[i]
              /\ p[k + 1] \in untried[k]
    BY DEF HonestInv, EnumInv, Pending
  <1>2. /\ p \in Seq(Node) /\ Len(p) \in Nat /\ p[Len(p)] = target
        /\ \A i, j \in 1..Len(p) : p[i] = p[j] => i = j
    BY LenProperties DEF Real, Simple, Last, IsInjective
  <1>3. k + 1 \in 1..Len(p)
    <2>1. \A n \in Nat : \A m \in 1..n : m \in Nat \ {0}
      OBVIOUS
    <2>2. k \in Nat \ {0}
      BY <2>1, TopOf DEF SearchInv
    <2> QED BY <1>1, <1>2, <2>2
  <1> QED BY <1>1, <1>2, <1>3

LEMMA BacktrackHonest ==
    ASSUME SearchInv, HonestInv, Backtrack
    PROVE  HonestInv'
  <1> DEFINE l == Len(route)
  <1>1. /\ step = "depth" /\ Last(untried) = {}
        /\ untried' = Front(untried) /\ route' = Front(route)
        /\ step' = IF Len(untried) = 1 THEN "target" ELSE "depth"
        /\ UNCHANGED <<graph, parent, queue, todo, target, paths, truncated>>
    BY DEF Backtrack, breadthVars
  <1>2. /\ l \in Nat \ {0} /\ Len(untried) = l
        /\ route \in Seq(Node) /\ route # <<>>
        /\ untried \in Seq(SUBSET Node) /\ untried # <<>>
        /\ untried[l] = {}
    BY <1>1, TopOf DEF StackInv, SearchInv, Last
  <1>3. /\ Len(route') = l - 1
        /\ \A i \in 1..(l - 1) : route'[i] = route[i]
        /\ \A i \in 1..(l - 1) : untried'[i] = untried[i]
    BY <1>1, <1>2, FrontOf
  <1>4. ASSUME ~truncated, NEW p, Real(p), Last(p) = target, p \notin paths
        PROVE  step' = "depth" /\ Pending(p)'
    <2>1. PICK k \in 1..l :
              /\ k < Len(p)
              /\ \A i \in 1..k : p[i] = route[i]
              /\ p[k + 1] \in untried[k]
      BY <1>1, <1>4, PendingIs
    <2>2. k # l
      BY <1>2, <2>1
    <2> HIDE DEF l
    <2>3. k \in 1..(l - 1) /\ l # 1 /\ \A i \in 1..k : i \in 1..(l - 1)
      BY <1>2, <2>2
    <2>4. \A i \in 1..k : p[i] = route'[i]
      BY <1>3, <2>1, <2>3
    <2>5. p[k + 1] \in untried'[k]
      BY <1>3, <2>1, <2>3
    <2> QED BY <1>1, <1>2, <1>3, <2>1, <2>3, <2>4, <2>5 DEF Pending
  <1> QED BY <1>1, <1>4, DepthHonest

(* The node the top of the stack yields: what is pending elsewhere stays.  *)
LEMMA YieldPending ==
    ASSUME SearchInv, HonestInv, step = "depth", ~truncated, NEW node,
           untried' = Rest(node), route' = route,
           NEW p, Real(p), Last(p) = target, p \notin paths
    PROVE  \/ Pending(p)'
           \/ /\ Len(route) < Len(p) /\ p[Len(route) + 1] = node
              /\ \A i \in 1..Len(route) : p[i] = route[i]
  <1> DEFINE l == Len(route)
  <1>1. PICK k \in 1..l :
              /\ k < Len(p)
              /\ \A i \in 1..k : p[i] = route[i]
              /\ p[k + 1] \in untried[k]
    BY PendingIs
  <1>2. /\ l \in Nat \ {0} /\ untried \in Seq(SUBSET Node) /\ Len(untried) = l
        /\ DOMAIN untried = 1..l
    BY TopOf DEF SearchInv, StackInv
  <1>3. \A j \in 1..l :
           untried'[j] = IF j = l THEN untried[l] \ {node} ELSE untried[j]
    BY <1>2 DEF Rest
  <1>4. CASE k = l /\ p[k + 1] = node
    BY <1>1, <1>4
  <1>5. CASE k # l \/ p[k + 1] # node
    <2>1. p[k + 1] \in untried'[k]
      BY <1>1, <1>2, <1>3, <1>5
    <2> QED BY <1>1, <2>1 DEF Pending
  <1> QED BY <1>4, <1>5

LEMMA SkipHonest ==
    ASSUME SearchInv, HonestInv, SkipVisited
    PROVE  HonestInv'
  <1>1. PICK node \in Node :
          /\ Yield(node) /\ node \in Range(route) /\ untried' = Rest(node)
          /\ UNCHANGED <<step, route, paths, truncated>>
    BY DEF SkipVisited
  <1>2. step = "depth" /\ UNCHANGED <<graph, parent, queue, todo, target>>
    BY <1>1 DEF Yield, breadthVars
  <1>3. PICK j \in 1..Len(route) : route[j] = node
    BY <1>1, <1>2, TopOf DEF Range, SearchInv
  <1>4. ASSUME ~truncated, NEW p, Real(p), Last(p) = target, p \notin paths
        PROVE  Pending(p)'
    <2> SUFFICES ASSUME /\ Len(route) < Len(p) /\ p[Len(route) + 1] = node
                        /\ \A i \in 1..Len(route) : p[i] = route[i]
                 PROVE  FALSE
      BY <1>1, <1>2, <1>4, YieldPending
    <2>1. /\ Len(p) \in Nat /\ Len(route) \in Nat \ {0}
          /\ \A i, n \in 1..Len(p) : p[i] = p[n] => i = n
      BY <1>2, <1>4, PendingIs, TopOf DEF SearchInv
    <2>2. j \in 1..Len(p) /\ Len(route) + 1 \in 1..Len(p) /\ j # Len(route) + 1
      <3>1. \A m, n \in Nat : m < n => \A i \in 1..m :
               i \in 1..n /\ m + 1 \in 1..n /\ i # m + 1
        OBVIOUS
      <3> QED BY <2>1, <3>1
    <2>3. p[j] = p[Len(route) + 1]
      BY <1>3
    <2> QED BY <2>1, <2>2, <2>3
  <1> QED BY <1>1, <1>2, <1>4, DepthHonest

LEMMA SkipDeepHonest ==
    ASSUME SearchInv, HonestInv, SkipDeep
    PROVE  HonestInv'
  <1>1. /\ step = "depth" /\ step' = step /\ truncated' = TRUE
        /\ UNCHANGED <<graph, parent, queue, todo, target, paths>>
    BY DEF SkipDeep, Yield, breadthVars
  <1> QED BY <1>1, DepthHonest

LEMMA EmitPathHonest ==
    ASSUME SearchInv, HonestInv, EmitPath
    PROVE  HonestInv'
  <1>1. PICK node \in Node :
          /\ Yield(node) /\ node = target
          /\ untried' = Rest(node) /\ route' = route
          /\ paths' = paths \cup {Append(route, node)}
          /\ \/ truncated' = TRUE /\ step' = "target"
             \/ truncated' = truncated /\ step' = "depth"
    BY DEF EmitPath, SearchInv, BudgetInv
  <1>2. step = "depth" /\ UNCHANGED <<graph, parent, queue, todo, target>>
    BY <1>1 DEF Yield, breadthVars
  <1>3. ASSUME ~truncated, NEW p, Real(p), Last(p) = target, p \notin paths,
               ~Pending(p)'
        PROVE  p = Append(route, node)
    <2> DEFINE l == Len(route)
    <2>1. /\ l < Len(p) /\ p[l + 1] = node
          /\ \A i \in 1..l : p[i] = route[i]
      BY <1>1, <1>2, <1>3, YieldPending
    <2>2. /\ Len(p) \in Nat /\ l \in Nat /\ p \in Seq(Node) /\ p[Len(p)] = node
          /\ \A i, n \in 1..Len(p) : p[i] = p[n] => i = n
          /\ route \in Seq(Node)
      BY <1>1, <1>2, <1>3, PendingIs, TopOf DEF SearchInv, StackInv
    <2>3. Len(p) = l + 1
      <3>1. Len(p) \in 1..Len(p) /\ l + 1 \in 1..Len(p)
        BY <2>1, <2>2
      <3> QED BY <2>1, <2>2, <3>1
    <2>4. /\ Append(route, node) \in Seq(Node)
          /\ Len(Append(route, node)) = l + 1
          /\ \A i \in 1..l : Append(route, node)[i] = route[i]
          /\ Append(route, node)[l + 1] = node
      BY <2>2, AppendProperties
    <2>5. ASSUME NEW i \in 1..(l + 1) PROVE p[i] = Append(route, node)[i]
      <3>1. i \in 1..l \/ i = l + 1
        BY <2>2
      <3> QED BY <2>1, <2>4, <3>1
    <2> HIDE DEF l
    <2> QED BY <2>2, <2>3, <2>4, <2>5, SeqEqual
  <1> QED BY <1>1, <1>2, <1>3, DepthHonest

LEMMA DescendHonest ==
    ASSUME SearchInv, HonestInv, Descend
    PROVE  HonestInv'
  <1> DEFINE l == Len(route)
  <1>1. PICK node \in Node :
          /\ Yield(node) /\ node # target
          /\ untried' = Append(Rest(node), Successors(graph, node))
          /\ route' = Append(route, node)
          /\ UNCHANGED <<step, paths, truncated>>
    BY DEF Descend
  <1>2. step = "depth" /\ UNCHANGED <<graph, parent, queue, todo, target>>
    BY <1>1 DEF Yield, breadthVars
  <1>3. /\ l \in Nat \ {0} /\ route \in Seq(Node)
        /\ untried \in Seq(SUBSET Node) /\ Len(untried) = l
        /\ DOMAIN untried = 1..l
    BY <1>2, TopOf DEF SearchInv, StackInv
  <1>4. /\ Len(route') = l + 1 /\ route'[l + 1] = node
        /\ \A i \in 1..l : route'[i] = route[i]
    BY <1>1, <1>3, AppendProperties
  <1>5. /\ \A j \in 1..l : untried'[j] =
                IF j = l THEN untried[l] \ {node} ELSE untried[j]
        /\ untried'[l + 1] = Successors(graph, node)
    <2> DEFINE rest == Rest(node)
               next == Successors(graph, node)
    <2>1. rest \in Seq(SUBSET Node) /\ Len(rest) = l
      BY <1>2, RestOf DEF SearchInv
    <2>2. \A j \in 1..l : rest[j] = IF j = l THEN untried[l] \ {node} ELSE untried[j]
      BY <1>3 DEF Rest
    <2>3. next \in SUBSET Node
      BY DEF Successors
    <2>4. untried' = Append(rest, next)
      BY <1>1
    <2> HIDE DEF rest, next, l
    <2>5. untried'[l + 1] = next /\ \A j \in 1..l : untried'[j] = rest[j]
      BY <2>1, <2>3, <2>4, AppendProperties
    <2> QED BY <2>2, <2>5 DEF next
  <1>6. ASSUME ~truncated, NEW p, Real(p), Last(p) = target, p \notin paths
        PROVE  Pending(p)'
    <2>1. PICK k \in 1..l :
              /\ k < Len(p) /\ k + 1 \in 1..Len(p) /\ Len(p) \in Nat
              /\ \A i \in 1..k : p[i] = route[i]
              /\ p[k + 1] \in untried[k]
              /\ p \in Seq(Node) /\ p[Len(p)] = target
      BY <1>2, <1>6, PendingIs
    <2> HIDE DEF l
    <2>2. CASE k # l \/ p[k + 1] # node
      <3>1. p[k + 1] \in untried'[k]
        BY <1>5, <2>1, <2>2
      <3>2. k \in 1..(l + 1) /\ \A i \in 1..k : i \in 1..l
        BY <1>3
      <3>3. \A i \in 1..k : p[i] = route'[i]
        BY <1>4, <2>1, <3>2
      <3> QED BY <1>4, <2>1, <3>1, <3>2, <3>3 DEF Pending
    <2>3. CASE k = l /\ p[l + 1] = node
      <3>1. /\ l + 1 < Len(p) /\ l + 1 \in 1..(Len(p) - 1)
            /\ (l + 1) + 1 \in 1..Len(p)
        BY <1>1, <1>3, <2>1, <2>3
      <3>2. /\ <<p[l + 1], p[(l + 1) + 1]>> \in DOMAIN graph.edges
            /\ p[(l + 1) + 1] \in Node
        BY <1>6, <2>1, <3>1, ElementOfSeq DEF Real, Simple
      <3>3. p[(l + 1) + 1] \in untried'[l + 1]
        BY <1>5, <2>3, <3>2 DEF Successors
      <3>4. ASSUME NEW i \in 1..(l + 1) PROVE p[i] = route'[i]
        <4>1. i \in 1..l \/ i = l + 1
          BY <1>3
        <4> QED BY <1>4, <2>1, <2>3, <4>1
      <3>5. l + 1 \in 1..(l + 1)
        BY <1>3
      <3> QED BY <1>4, <3>1, <3>3, <3>4, <3>5 DEF Pending
    <2> QED BY <2>2, <2>3
  <1> QED BY <1>1, <1>2, <1>6, DepthHonest

LEMMA HonestStepOK ==
    ASSUME SearchInv, HonestInv, [SearchStep]_searchVars
    PROVE  HonestInv'
  <1>1. CASE SearchStep
    BY <1>1, VisitBreadthHonest, EndBreadthHonest, TakeTargetHonest,
       EndTargetsHonest, RunOutHonest, BacktrackHonest, SkipHonest,
       SkipDeepHonest, EmitPathHonest, DescendHonest
    DEF SearchStep, DepthStep
  <1>2. CASE UNCHANGED searchVars
    <2>1. UNCHANGED <<graph, step, parent, queue, todo, target, route, untried,
                      paths, truncated>>
      BY <1>2 DEF searchVars, breadthVars, stackVars, resultVars
    <2>2. LevelInv'
      BY <2>1, LevelStays DEF HonestInv
    <2>3. WitnessInv'
      BY <2>1, SameGraph, DepthsStay DEF HonestInv, WitnessInv
    <2>4. EnumInv'
      BY <2>1, SameGraph DEF HonestInv, EnumInv, Settled, Pending
    <2> QED BY <2>2, <2>3, <2>4 DEF HonestInv
  <1> QED BY <1>1, <1>2

LEMMA HonestBudgets ==
    ASSUME SearchInv, HonestInv
    PROVE  BudgetsAreHonest
  <1> DEFINE E == DOMAIN graph.edges
  <1>1. \A p : p \in SimplePaths(E) <=> Real(p)
    BY SimplePathsAre DEF Real
  <1>2. UntruncatedIsComplete
    <2> SUFFICES ASSUME step = "done", ~truncated
                 PROVE  paths = SimplePathsTo(E, Targets(graph))
      BY DEF UntruncatedIsComplete
    <2>1. \A p \in paths : Real(p) /\ Last(p) \in Targets(graph)
      BY DEF SearchInv, PathInv
    <2>2. \A p : Real(p) /\ Last(p) \in Targets(graph) => p \in paths
      BY DEF HonestInv, EnumInv, Settled
    <2> HIDE DEF E
    <2> QED BY <1>1, <2>1, <2>2 DEF SimplePathsTo
  <1>3. TargetsAreWitnessed
    <2> SUFFICES ASSUME step = "target", NEW t \in Targets(graph) \ todo,
                        ~ \E p \in paths : Last(p) = t
                 PROVE  /\ truncated
                        /\ \A p \in SimplePathsTo(E, {t}) :
                              Len(p) > MaxPathDepth + 1
      BY DEF TargetsAreWitnessed
    <2>1. truncated /\ DepthsOf(t) = {}
      BY DEF HonestInv, WitnessInv
    <2>2. ASSUME NEW p \in SimplePathsTo(E, {t})
          PROVE  Len(p) > MaxPathDepth + 1
      <3>1. Real(p) /\ Last(p) = t
        BY <1>1 DEF SimplePathsTo
      <3>2. ~(Len(p) <= MaxPathDepth + 1)
        BY <2>1, <3>1, ShortPathsWitness DEF HonestInv
      <3>3. Len(p) \in Nat /\ MaxPathDepth \in Nat
        BY <3>1, LenProperties, BudgetAssumption DEF Real, Simple
      <3> QED BY <3>2, <3>3
    <2> QED BY <2>1, <2>2
  <1> QED BY <1>2, <1>3 DEF BudgetsAreHonest

-----------------------------------------------------------------------------
(* One search, of any configuration made of candidate findings.            *)

FromCandidates == graph.findings \subseteq Range(Candidates)

IInv == SearchInv /\ HonestInv /\ FromCandidates

(* The invariant of analyze() holds of every graph, order and budget.      *)
THEOREM InvariantHolds == Spec => []IInv
  <1>1. Init => IInv
    <2> SUFFICES ASSUME NEW config \in SUBSET Range(Candidates),
                        StartWith(BuildGraph(config))
                 PROVE  IInv
      BY DEF Init
    <2>1. FromCandidates
      BY DEF FromCandidates, StartWith, BuildGraph
    <2> QED BY <2>1, StartOK, StartHonest DEF IInv
  <1>2. IInv /\ [SearchStep]_searchVars => IInv'
    <2> SUFFICES ASSUME IInv, [SearchStep]_searchVars PROVE IInv'
      OBVIOUS
    <2>1. graph' = graph
      BY DEF SearchStep, VisitBreadth, EndBreadth, TakeTarget, EndTargets,
             DepthStep, RunOut, Backtrack, SkipVisited, EmitPath, SkipDeep,
             Descend, Yield, searchVars
    <2> QED BY <2>1, SearchStepOK, HonestStepOK DEF IInv, FromCandidates
  <1> QED BY <1>1, <1>2, PTL DEF Spec

LEMMA SearchTypes ==
    ASSUME SearchInv, FromCandidates
    PROVE  SearchTypeOK
  <1> USE DEF SearchInv
  <1>1. todo \subseteq Node
    BY TargetsAreNodes DEF TodoInv
  <1>2. DOMAIN parent \subseteq Node /\ Range(parent) \subseteq Node
    BY GraphAssumption DEF TreeInv, Range
  <1>3. Range(queue) \subseteq DOMAIN parent
    BY RangeOfSeq DEF QueueInv
  <1>4. Len(untried) = Len(route) /\ Range(route) \subseteq Node
    BY RangeOfSeq DEF StackInv
  <1> QED BY <1>1, <1>2, <1>3, <1>4
    DEF SearchTypeOK, BudgetInv, FromCandidates

(* Types, and the budgets: never more than MaxPaths paths or MaxPathWork   *)
(* steps of the enumeration, whatever the targets share.                   *)
THEOREM TypeCorrect == Spec => []SearchTypeOK
  <1>1. IInv => SearchTypeOK
    BY SearchTypes DEF IInv
  <1> QED BY <1>1, InvariantHolds, PTL

(* Every path ever reported is a simple path of the graph from the Internet*)
(* to a target, witnesses and enumerated paths alike.                      *)
THEOREM PathsReal == Spec => []PathsAreReal
  <1>1. IInv => PathsAreReal
    BY RealPaths DEF IInv
  <1> QED BY <1>1, InvariantHolds, PTL

(* Wherever the budgets stop the search, the result says so: one that is   *)
(* not marked truncated has every simple path to every target, and a target*)
(* without a path is out of the depth, in a result that is marked.         *)
THEOREM BudgetsHonest == Spec => []BudgetsAreHonest
  <1>1. IInv => BudgetsAreHonest
    BY HonestBudgets DEF IInv
  <1> QED BY <1>1, InvariantHolds, PTL

-----------------------------------------------------------------------------
(* What build_graph() makes of a configuration, one candidate after the    *)
(* other.                                                                  *)

Grows(config, E, k) ==
    IF Candidates[k] \in config THEN AddEdge(E, Candidates[k]) ELSE E

LEMMA BuildIs ==
    ASSUME NEW config
    PROVE  \E f : /\ BuildGraph(config) =
                       [findings |-> config, edges |-> f[Len(Candidates)]]
                  /\ f[0] = <<>>
                  /\ \A k \in 0..Len(Candidates) :
                        k < Len(Candidates) =>
                           f[k + 1] = Grows(config, f[k], k + 1)
  <1> DEFINE N == Len(Candidates)
             Is(f, m) == f = [k \in 0..m |-> IF k = 0 THEN <<>>
                                             ELSE Grows(config, f[k - 1], k)]
             after == CHOOSE f : Is(f, N)
             T == {m \in 0..N : \E f : Is(f, m)}
  <1>1. N \in Nat
    BY GraphAssumption, LenProperties
  <1>2. 0 \in T
    <2> DEFINE f == [k \in 0..0 |-> <<>>]
    <2>1. Is(f, 0)
      OBVIOUS
    <2> HIDE DEF f, Is
    <2> QED BY <2>1, <1>1
  <1>3. ASSUME NEW m \in 0..N, m \in T, m < N
        PROVE  m + 1 \in T
    <2>1. PICK f : Is(f, m)
      BY <1>3
    <2> DEFINE h == [k \in 0..(m + 1) |-> IF k = 0 THEN <<>>
                                          ELSE Grows(config, f[k - 1], k)]
    <2>2. ASSUME NEW k \in 0..m PROVE h[k] = f[k]
      <3>1. f[k] = IF k = 0 THEN <<>> ELSE Grows(config, f[k - 1], k)
        BY <2>1
      <3>2. k \in 0..(m + 1)
        OBVIOUS
      <3>3. h[k] = IF k = 0 THEN <<>> ELSE Grows(config, f[k - 1], k)
        BY <3>2
      <3> HIDE DEF h
      <3> QED BY <3>1, <3>3
    <2>3. ASSUME NEW k \in 0..(m + 1)
          PROVE  (IF k = 0 THEN <<>> ELSE Grows(config, f[k - 1], k))
                   = (IF k = 0 THEN <<>> ELSE Grows(config, h[k - 1], k))
      <3> HIDE DEF h
      <3>1. CASE k = 0
        BY <3>1
      <3>2. CASE k # 0
        <4>1. k - 1 \in 0..m
          BY <3>2
        <4>2. h[k - 1] = f[k - 1]
          BY <4>1, <2>2
        <4> QED BY <4>2
      <3> QED BY <3>1, <3>2
    <2>4. Is(h, m + 1)
      <3>1. h = [k \in 0..(m + 1) |-> IF k = 0 THEN <<>>
                                      ELSE Grows(config, f[k - 1], k)]
        OBVIOUS
      <3> HIDE DEF h
      <3> QED BY <3>1, <2>3
    <2> HIDE DEF h, Is
    <2>5. m + 1 \in 0..N
      BY <1>1, <1>3
    <2> QED BY <2>4, <2>5
  <1>4. Is(after, N)
    <2> HIDE DEF Is
    <2>1. \A m \in 0..N : m \in T /\ m < N => m + 1 \in T
      <3> HIDE DEF T
      <3> QED BY <1>3
    <2>2. 0..N \subseteq T
      <3> HIDE DEF T, N
      <3> QED BY <1>1, <1>2, <2>1, Upwards
    <2> QED BY <2>2, <1>1
  <1>5. BuildGraph(config) = [findings |-> config, edges |-> after[N]]
    BY DEF BuildGraph, Grows
  <1>6. /\ after[0] = <<>>
        /\ \A k \in 0..N :
              k < N => after[k + 1] = Grows(config, after[k], k + 1)
    <2> HIDE DEF after, N
    <2>1. \A k \in 0..N : after[k] = IF k = 0 THEN <<>>
                                     ELSE Grows(config, after[k - 1], k)
      BY <1>4
    <2>2. 0 \in 0..N
      BY <1>1
    <2>3. ASSUME NEW k \in 0..N, k < N
          PROVE  after[k + 1] = Grows(config, after[k], k + 1)
      <3>1. k + 1 \in 0..N /\ k + 1 # 0 /\ (k + 1) - 1 = k
        BY <2>3, <1>1
      <3> QED BY <3>1, <2>1
    <2> QED BY <2>1, <2>2, <2>3
  <1> HIDE DEF after, N, Is, T
  <1> QED BY <1>5, <1>6 DEF N

(* After k candidates an edge has the worst finding seen for it, unless    *)
(* the graph was full.                                                     *)
Worst(config, E, k) ==
    /\ \A e \in DOMAIN E : /\ E[e] \in config /\ E[e] \in Range(Candidates)
                           /\ EdgeOf(E[e]) = e
    /\ \A j \in 1..k : Candidates[j] \in config =>
          \/ /\ EdgeOf(Candidates[j]) \in DOMAIN E
             /\ E[EdgeOf(Candidates[j])].risk >= Candidates[j].risk
          \/ /\ EdgeOf(Candidates[j]) \notin DOMAIN E
             /\ Cardinality(DOMAIN E) >= MaxGraphEdges

LEMMA RisksAreNumbers == \A f \in Range(Candidates) : f.risk \in Int
  <1>1. Candidates \in Seq(Finding)
    BY GraphAssumption
  <1>2. Range(Candidates) \subseteq Finding
    BY <1>1, RangeOfSeq
  <1>3. \A f \in Finding : f.risk \in Int
    BY DEF Finding, LOW, CRITICAL
  <1> QED BY <1>2, <1>3

LEMMA WorstGrows ==
    ASSUME NEW config, NEW E, NEW k \in Nat, k < Len(Candidates),
           Worst(config, E, k)
    PROVE  Worst(config, Grows(config, E, k + 1), k + 1)
  <1> DEFINE f == Candidates[k + 1]
             edge == EdgeOf(f)
  <1>1. /\ \A j \in 1..(k + 1) : j \in 1..k \/ j = k + 1
        /\ k + 1 \in DOMAIN Candidates
    BY GraphAssumption, LenProperties
  <1>2. f \in Range(Candidates) /\ f.risk \in Int
    <2>1. f \in Range(Candidates)
      BY <1>1 DEF Range
    <2> HIDE DEF f
    <2> QED BY <2>1, RisksAreNumbers
  <1>3. \A e \in DOMAIN E : E[e].risk \in Int
    BY RisksAreNumbers DEF Worst
  <1>4. \A j \in 1..k : Candidates[j].risk \in Int
    <2>1. \A j \in 1..k : j \in DOMAIN Candidates
      BY GraphAssumption, LenProperties
    <2> QED BY <2>1, RisksAreNumbers DEF Range
  <1> HIDE DEF f
  <1>5. CASE f \notin config
    BY <1>5, <1>1 DEF Worst, Grows, f
  <1>6. CASE f \in config /\ edge \in DOMAIN E /\ E[edge].risk >= f.risk
    <2>1. Grows(config, E, k + 1) = E
      BY <1>6 DEF Grows, AddEdge, f
    <2> QED BY <2>1, <1>6, <1>1 DEF Worst, f
  <1>7. CASE f \in config /\ edge \in DOMAIN E /\ ~(E[edge].risk >= f.risk)
    <2> DEFINE D == [E EXCEPT ![edge] = f]
    <2>1. Grows(config, E, k + 1) = D
      BY <1>7 DEF Grows, AddEdge, f
    <2>2. /\ DOMAIN D = DOMAIN E /\ D[edge] = f
          /\ \A e \in DOMAIN E : e # edge => D[e] = E[e]
      BY <1>7
    <2> HIDE DEF D
    <2>3. \A e \in DOMAIN D : /\ D[e] \in config /\ D[e] \in Range(Candidates)
                              /\ EdgeOf(D[e]) = e
      BY <2>2, <1>2, <1>7 DEF Worst
    <2>4. ASSUME NEW j \in 1..(k + 1), Candidates[j] \in config
          PROVE  \/ /\ EdgeOf(Candidates[j]) \in DOMAIN D
                    /\ D[EdgeOf(Candidates[j])].risk >= Candidates[j].risk
                 \/ /\ EdgeOf(Candidates[j]) \notin DOMAIN D
                    /\ Cardinality(DOMAIN D) >= MaxGraphEdges
      <3>1. CASE j = k + 1
        BY <3>1, <2>2, <1>2, <1>7 DEF f
      <3>2. CASE j \in 1..k /\ EdgeOf(Candidates[j]) = edge
        <4>1. E[edge].risk >= Candidates[j].risk
          BY <3>2, <2>4, <1>7 DEF Worst
        <4>2. f.risk >= Candidates[j].risk
          BY <4>1, <3>2, <1>2, <1>3, <1>4, <1>7
        <4> QED BY <4>2, <2>2, <3>2, <1>7
      <3>3. CASE j \in 1..k /\ EdgeOf(Candidates[j]) # edge
        BY <3>3, <2>2, <2>4 DEF Worst
      <3> QED BY <3>1, <3>2, <3>3, <1>1
    <2> QED BY <2>1, <2>3, <2>4 DEF Worst
  <1>8. CASE /\ f \in config /\ edge \notin DOMAIN E
             /\ Cardinality(DOMAIN E) >= MaxGraphEdges
    <2>1. Grows(config, E, k + 1) = E
      BY <1>8 DEF Grows, AddEdge, f
    <2> QED BY <2>1, <1>8, <1>1 DEF Worst, f
  <1>9. CASE /\ f \in config /\ edge \notin DOMAIN E
             /\ ~(Cardinality(DOMAIN E) >= MaxGraphEdges)
    <2> DEFINE D == [e \in DOMAIN E \cup {edge} |->
                        IF e = edge THEN f ELSE E[e]]
    <2>1. Grows(config, E, k + 1) = D
      BY <1>9 DEF Grows, AddEdge, f
    <2>2. /\ DOMAIN D = DOMAIN E \cup {edge} /\ D[edge] = f
          /\ \A e \in DOMAIN E : D[e] = E[e]
      BY <1>9
    <2> HIDE DEF D
    <2>3. \A e \in DOMAIN D : /\ D[e] \in config /\ D[e] \in Range(Candidates)
                              /\ EdgeOf(D[e]) = e
      BY <2>2, <1>2, <1>9 DEF Worst
    <2>4. ASSUME NEW j \in 1..(k + 1), Candidates[j] \in config
          PROVE  /\ EdgeOf(Candidates[j]) \in DOMAIN D
                 /\ D[EdgeOf(Candidates[j])].risk >= Candidates[j].risk
      <3>1. CASE j = k + 1
        BY <3>1, <2>2, <1>2 DEF f
      <3>2. CASE j \in 1..k
        BY <3>2, <2>2, <2>4, <1>9 DEF Worst
      <3> QED BY <3>1, <3>2, <1>1
    <2> QED BY <2>1, <2>3, <2>4 DEF Worst
  <1> QED BY <1>5, <1>6, <1>7, <1>8, <1>9

LEMMA BuiltWorst ==
    ASSUME NEW config
    PROVE  LET g == BuildGraph(config) IN
           /\ g.findings = config
           /\ Worst(config, g.edges, Len(Candidates))
  <1> DEFINE N == Len(Candidates)
             g == BuildGraph(config)
  <1>1. N \in Nat /\ DOMAIN Candidates = 1..N
    BY GraphAssumption, LenProperties
  <1>2. PICK h : /\ g = [findings |-> config, edges |-> h[N]]
                 /\ h[0] = <<>>
                 /\ \A k \in 0..N :
                       k < N => h[k + 1] = Grows(config, h[k], k + 1)
    BY BuildIs
  <1> DEFINE T == {k \in 0..N : Worst(config, h[k], k)}
  <1>3. 0 \in T
    BY <1>1, <1>2 DEF Worst
  <1>4. \A k \in 0..N : k \in T /\ k < N => k + 1 \in T
    <2> TAKE k \in 0..N
    <2> HAVE k \in T /\ k < N
    <2>1. k \in Nat /\ k + 1 \in 0..N
      BY <1>1
    <2> HIDE DEF N, g
    <2>2. Worst(config, Grows(config, h[k], k + 1), k + 1)
      BY <2>1, WorstGrows DEF N
    <2> QED BY <2>1, <2>2, <1>2
  <1>5. Worst(config, h[N], N)
    <2>1. 0..N \subseteq T
      <3> HIDE DEF T, N
      <3> QED BY <1>1, <1>3, <1>4, Upwards
    <2>2. N \in 0..N
      BY <1>1
    <2> QED BY <2>1, <2>2
  <1>6. g.findings = config /\ g.edges = h[N]
    BY <1>2
  <1> HIDE DEF g, N, T
  <1> QED BY <1>5, <1>6 DEF g, N

(* The edges of a graph are those of its findings; of a graph that was     *)
(* never full, all of them, each with the worst finding.                   *)
LEMMA BuiltEdges ==
    ASSUME NEW config
    PROVE  LET g == BuildGraph(config) IN
           /\ g.findings = config
           /\ \A e \in DOMAIN g.edges : /\ g.edges[e] \in config
                                        /\ g.edges[e] \in Range(Candidates)
                                        /\ EdgeOf(g.edges[e]) = e
           /\ ~EdgeLimitReached(g) =>
                 \A f \in config \cap Range(Candidates) :
                    /\ EdgeOf(f) \in DOMAIN g.edges
                    /\ g.edges[EdgeOf(f)].risk >= f.risk
  <1> DEFINE N == Len(Candidates)
             g == BuildGraph(config)
  <1>1. DOMAIN Candidates = 1..N
    BY GraphAssumption, LenProperties
  <1>2. g.findings = config /\ Worst(config, g.edges, N)
    BY BuiltWorst
  <1> HIDE DEF g, N
  <1>3. ASSUME ~EdgeLimitReached(g), NEW f \in config \cap Range(Candidates)
        PROVE  /\ EdgeOf(f) \in DOMAIN g.edges
               /\ g.edges[EdgeOf(f)].risk >= f.risk
    <2>1. EdgeOf(f) \in DOMAIN g.edges
      BY <1>2, <1>3 DEF EdgeLimitReached
    <2>2. PICK j \in 1..N : f = Candidates[j]
      BY <1>1 DEF Range
    <2> QED BY <2>1, <2>2, <1>2 DEF Worst
  <1> QED BY <1>2, <1>3 DEF Worst, g

-----------------------------------------------------------------------------
(* The Internet reaches what a simple path leads to, and nothing else.     *)

LEMMA LastOf ==
    ASSUME NEW E, NEW p, Simple(E, p)
    PROVE  /\ p \in Seq(Node) /\ Len(p) \in Nat \ {0} /\ DOMAIN p = 1..Len(p)
           /\ Last(p) = p[Len(p)] /\ \A i \in 1..Len(p) : p[i] \in Node
  BY EmptySeq, LenProperties, ElementOfSeq DEF Simple, Last

LEMMA SimpleOver ==
    ASSUME NEW E, NEW F, E \subseteq F, NEW p, Simple(E, p)
    PROVE  Simple(F, p)
  BY DEF Simple

LEMMA SimplePrefix ==
    ASSUME NEW E, NEW p, Simple(E, p), NEW i \in 1..Len(p)
    PROVE  \E q : Simple(E, q) /\ Last(q) = p[i]
  <1> DEFINE q == [k \in 1..i |-> p[k]]
  <1>1. /\ i \in Nat \ {0} /\ \A k \in 1..i : k \in 1..Len(p)
        /\ \A k \in 1..(i - 1) : k \in 1..(Len(p) - 1) /\ k + 1 \in 1..i
    BY LastOf
  <1>2. q \in Seq(Node) /\ Len(q) = i /\ DOMAIN q = 1..i
    <2>1. q \in [1..i -> Node]
      BY <1>1, LastOf
    <2> HIDE DEF q
    <2>2. q \in Seq(Node)
      BY <1>1, <2>1, SeqDef
    <2> QED BY <1>1, <2>1, <2>2, LenProperties
  <1>3. \A k \in 1..i : q[k] = p[k]
    OBVIOUS
  <1> HIDE DEF q
  <1>4. q # <<>> /\ q[1] = Internet /\ Last(q) = p[i]
    BY <1>1, <1>2, <1>3, EmptySeq DEF Simple, Last
  <1>5. IsInjective(q)
    BY <1>1, <1>2, <1>3, LastOf DEF Simple, IsInjective
  <1>6. \A k \in 1..(Len(q) - 1) : <<q[k], q[k + 1]>> \in E
    BY <1>1, <1>2, <1>3 DEF Simple
  <1> QED BY <1>2, <1>4, <1>5, <1>6 DEF Simple

LEMMA SimpleReaches ==
    ASSUME NEW g, NEW p, Simple(DOMAIN g.edges, p),
           NEW i \in 1..Len(p), p[i] # Internet
    PROVE  p[i] \in Reachable(g)
  <1> DEFINE N == Cardinality(Node)
  <1>1. N \in Nat
    BY NodesAreFinite, FS_CardinalityType
  <1>2. PICK f : /\ Reachable(g) = f[N] \ {Internet}
                 /\ f[0] = {Internet}
                 /\ \A k \in 0..N : k < N => f[k + 1] = Widened(g, f[k])
    BY WithinIs
  <1>3. Len(p) \in 1..N
    BY LengthOfSimple
  <1> HIDE DEF N
  <1> DEFINE T ==
        {k \in 0..N : \A j \in 1..Len(p) : j <= k + 1 => p[j] \in f[k]}
  <1>4. 0 \in T
    BY <1>1, <1>2, <1>3 DEF Simple
  <1>5. ASSUME NEW k \in 0..N, k \in T, k < N PROVE k + 1 \in T
    <2>1. k + 1 \in 0..N /\ f[k + 1] = Widened(g, f[k])
      BY <1>1, <1>2, <1>5
    <2>2. ASSUME NEW j \in 1..Len(p), j <= (k + 1) + 1
          PROVE  p[j] \in f[k + 1]
      <3>1. CASE j <= k + 1
        BY <3>1, <2>1, <1>5 DEF Widened
      <3>2. CASE j = (k + 1) + 1
        <4>1. /\ k + 1 \in 1..Len(p) /\ k + 1 \in 1..(Len(p) - 1)
              /\ k + 1 <= k + 1
          BY <3>2, <1>1, <1>3
        <4>2. p[k + 1] \in f[k]
          BY <4>1, <1>5
        <4>3. <<p[k + 1], p[j]>> \in DOMAIN g.edges
          BY <4>1, <3>2 DEF Simple
        <4>4. p[j] \in Node
          BY LastOf
        <4> QED BY <4>2, <4>3, <4>4, <2>1 DEF Widened, Successors
      <3> QED BY <3>1, <3>2, <2>2, <1>1, <1>3
    <2> QED BY <2>1, <2>2
  <1>6. 0..N \subseteq T
    <2> HIDE DEF T
    <2> QED BY <1>1, <1>4, <1>5, Upwards
  <1>7. N \in T /\ i <= N + 1
    BY <1>1, <1>3, <1>6
  <1> QED BY <1>2, <1>7

LEMMA SimpleTo ==
    ASSUME NEW g, NEW n \in Reachable(g)
    PROVE  /\ n \in Node /\ n # Internet
           /\ \E p : Simple(DOMAIN g.edges, p) /\ Last(p) = n
  <1> DEFINE E == DOMAIN g.edges
             C == {m \in Node : \E p : Simple(E, p) /\ Last(p) = m}
  <1>1. Internet \in C
    <2>1. Simple(E, <<Internet>>) /\ Last(<<Internet>>) = Internet
      BY GraphAssumption DEF Simple, IsInjective, Last
    <2> QED BY <2>1, GraphAssumption
  <1>2. ASSUME NEW m \in C, NEW s \in Successors(g, m) PROVE s \in C
    <2>1. PICK p : Simple(E, p) /\ Last(p) = m
      OBVIOUS
    <2>2. s \in Node /\ <<m, s>> \in E
      BY DEF Successors
    <2>3. CASE s \notin Range(p)
      BY <2>1, <2>2, <2>3, SimpleAppend
    <2>4. CASE s \in Range(p)
      <3>1. PICK i \in 1..Len(p) : s = p[i]
        BY <2>1, <2>4, LastOf DEF Range
      <3> QED BY <3>1, <2>1, <2>2, SimplePrefix
    <2> QED BY <2>3, <2>4
  <1>3. Reachable(g) \subseteq C
    <2> HIDE DEF C
    <2> QED BY <1>1, <1>2, ReachableWithin
  <1> QED BY <1>3 DEF Reachable

LEMMA ReachableGrows ==
    ASSUME NEW g, NEW h, DOMAIN g.edges \subseteq DOMAIN h.edges
    PROVE  Reachable(g) \subseteq Reachable(h)
  <1> SUFFICES ASSUME NEW n \in Reachable(g) PROVE n \in Reachable(h)
    OBVIOUS
  <1>1. PICK p : Simple(DOMAIN g.edges, p) /\ Last(p) = n
    BY SimpleTo
  <1>2. Simple(DOMAIN h.edges, p)
    BY <1>1, SimpleOver
  <1>3. Len(p) \in 1..Len(p) /\ p[Len(p)] = n /\ n # Internet
    BY <1>1, LastOf, SimpleTo
  <1> QED BY <1>2, <1>3, SimpleReaches

-----------------------------------------------------------------------------
(* Paths to sensitive data end there, with an edge from a bucket to its    *)
(* marker.                                                                 *)

LEMMA CriticalEnds ==
    ASSUME NEW config \in SUBSET Range(Candidates), NEW p,
           Simple(EdgesIn(config), p), ReachesSensitive(p)
    PROVE  /\ Len(p) - 1 \in 1..Len(p) /\ p[Len(p) - 1] # Internet
           /\ Last(p) # Internet
           /\ \E f \in config : /\ f.relationship = "CONTAINS"
                                /\ f.source = p[Len(p) - 1]
                                /\ f.target = Last(p)
  <1>1. /\ Len(p) \in Nat \ {0} /\ DOMAIN p = 1..Len(p)
        /\ Last(p) = p[Len(p)] /\ p[1] = Internet
    BY LastOf DEF Simple
  <1>2. PICK i \in 1..Len(p) : KindOf[p[i]] = "SENSITIVE_DATA"
    BY <1>1 DEF ReachesSensitive
  <1>3. \A j \in 1..(Len(p) - 1) :
           \E f \in config : f.source = p[j] /\ f.target = p[j + 1]
    <2> TAKE j \in 1..(Len(p) - 1)
    <2>1. PICK f \in config : <<p[j], p[j + 1]>> = EdgeOf(f)
      BY DEF Simple, EdgesIn
    <2> QED BY <2>1 DEF EdgeOf
  <1>4. i = Len(p)
    <2> SUFFICES ASSUME i # Len(p) PROVE FALSE
      OBVIOUS
    <2>1. i \in 1..(Len(p) - 1)
      BY <1>1, UpToLast
    <2>2. PICK f \in config : f.source = p[i]
      BY <2>1, <1>3
    <2> QED BY <2>2, <1>2, RulesAssumption
  <1>5. i # 1
    BY <1>1, <1>2, RulesAssumption
  <1>6. /\ Len(p) - 1 \in 1..Len(p) /\ Len(p) - 1 \in 1..(Len(p) - 1)
        /\ (Len(p) - 1) + 1 = Len(p)
    BY <1>1, <1>4, <1>5
  <1>7. PICK f \in config : f.source = p[Len(p) - 1] /\ f.target = p[Len(p)]
    BY <1>3, <1>6
  <1>8. f.relationship = "CONTAINS" /\ KindOf[f.source] = "S3_BUCKET"
    BY <1>2, <1>4, <1>7, RulesAssumption
  <1> QED BY <1>1, <1>2, <1>4, <1>6, <1>7, <1>8, RulesAssumption

-----------------------------------------------------------------------------
(* Scores.  A graph with more findings never has the better score, unless  *)
(* it was cut off.                                                         *)

Built(g) == g = BuildGraph(g.findings)

LEMMA BuiltIs ==
    ASSUME NEW config
    PROVE  /\ Built(BuildGraph(config))
           /\ BuildGraph(config).findings = config
  BY BuiltEdges DEF Built

(* What a built graph is, without the way it was built.                    *)
LEMMA BuiltHas ==
    ASSUME NEW g, Built(g)
    PROVE  /\ \A e \in DOMAIN g.edges : /\ g.edges[e] \in g.findings
                                        /\ g.edges[e] \in Range(Candidates)
                                        /\ EdgeOf(g.edges[e]) = e
           /\ ~EdgeLimitReached(g) =>
                 \A f \in g.findings \cap Range(Candidates) :
                    /\ EdgeOf(f) \in DOMAIN g.edges
                    /\ g.edges[EdgeOf(f)].risk >= f.risk
           /\ DOMAIN g.edges \subseteq EdgesIn(g.findings)
           /\ ~EdgeLimitReached(g) => EdgesIn(g.findings) = DOMAIN g.edges
  <1> DEFINE h == BuildGraph(g.findings)
  <1>1. /\ \A e \in DOMAIN h.edges : /\ h.edges[e] \in g.findings
                                     /\ h.edges[e] \in Range(Candidates)
                                     /\ EdgeOf(h.edges[e]) = e
        /\ ~EdgeLimitReached(h) =>
              \A f \in g.findings \cap Range(Candidates) :
                 /\ EdgeOf(f) \in DOMAIN h.edges
                 /\ h.edges[EdgeOf(f)].risk >= f.risk
    BY BuiltEdges
  <1>2. h = g
    BY DEF Built
  <1> HIDE DEF h
  <1>3. DOMAIN g.edges \subseteq EdgesIn(g.findings)
    BY <1>1, <1>2 DEF EdgesIn
  <1>4. ~EdgeLimitReached(g) => EdgesIn(g.findings) = DOMAIN g.edges
    BY <1>3 DEF EdgesIn, EdgeLimitReached
  <1> QED BY <1>1, <1>2, <1>3, <1>4

AdminEdges(g) == {f \in EdgesOf(g, "INGRESS_ALLOWS") :
                     f.source = Internet /\ f.risk = CRITICAL}
PublicEdges(g) == {f \in EdgesOf(g, "PUBLIC_ACCESS") : f.source = Internet}
BroadEdges(g) == {f \in EdgesOf(g, "CAN_ACCESS") : f.risk >= HIGH}
ExposedCompute(g) == {n \in ExposedResources(g) : KindOf[n] = "EC2"}

LEMMA PenaltyIs ==
    ASSUME NEW g, NEW critical
    PROVE  Penalty(g, critical) =
               Deduct(20, 40, Cardinality(AdminEdges(g)))
             + Deduct(20, 40, Cardinality(PublicEdges(g)))
             + Deduct(15, 30, Cardinality(ExposedCompute(g)))
             + Deduct(10, 20, Cardinality(BroadEdges(g)))
             + Deduct(25, 25, Cardinality(ReachableSensitive(g)))
             + (IF critical \/ ReachableSensitive(g) # {} THEN 20 ELSE 0)
  BY DEF Penalty, AdminEdges, PublicEdges, BroadEdges, ExposedCompute

LEMMA DeductGrows ==
    /\ \A m \in Nat :
          /\ Deduct(20, 40, m) \in 0..40 /\ Deduct(15, 30, m) \in 0..30
          /\ Deduct(10, 20, m) \in 0..20 /\ Deduct(25, 25, m) \in 0..25
    /\ \A m, n \in Nat : m <= n =>
          /\ Deduct(20, 40, m) <= Deduct(20, 40, n)
          /\ Deduct(15, 30, m) <= Deduct(15, 30, n)
          /\ Deduct(10, 20, m) <= Deduct(10, 20, n)
          /\ Deduct(25, 25, m) <= Deduct(25, 25, n)
  BY DEF Deduct

LEMMA CandidatesAreFinite == IsFiniteSet(Range(Candidates))
  <1> DEFINE I == 1..Len(Candidates)
  <1>1. IsFiniteSet(I) /\ DOMAIN Candidates = I /\ Candidates \in Seq(Finding)
    BY GraphAssumption, FS_Interval, LenProperties
  <1>2. Candidates \in [I -> Range(Candidates)]
    BY <1>1, LenProperties DEF Range
  <1>3. Candidates \in Surjection(I, Range(Candidates))
    BY <1>1, <1>2 DEF Surjection, Range
  <1> HIDE DEF I
  <1> QED BY <1>1, <1>3, FS_Surjection

LEMMA CountsAreNumbers ==
    ASSUME NEW g, Built(g)
    PROVE  /\ IsFiniteSet(Range(g.edges))
           /\ Cardinality(AdminEdges(g)) \in Nat
           /\ Cardinality(PublicEdges(g)) \in Nat
           /\ Cardinality(ExposedCompute(g)) \in Nat
           /\ Cardinality(BroadEdges(g)) \in Nat
           /\ Cardinality(ReachableSensitive(g)) \in Nat
           /\ IsFiniteSet(Reachable(g))
  <1>1. Range(g.edges) \subseteq Range(Candidates)
    <2>1. \A e \in DOMAIN g.edges : g.edges[e] \in Range(Candidates)
      BY BuiltHas
    <2> QED BY <2>1 DEF Range
  <1>2. IsFiniteSet(Range(g.edges))
    BY <1>1, CandidatesAreFinite, FS_Subset
  <1>3. /\ AdminEdges(g) \subseteq Range(g.edges)
        /\ PublicEdges(g) \subseteq Range(g.edges)
        /\ BroadEdges(g) \subseteq Range(g.edges)
    BY DEF AdminEdges, PublicEdges, BroadEdges, EdgesOf
  <1>4. IsFiniteSet(Reachable(g))
    <2>1. Reachable(g) \subseteq Node
      BY SimpleTo
    <2> QED BY <2>1, NodesAreFinite, FS_Subset
  <1>5. /\ ExposedCompute(g) \subseteq Reachable(g)
        /\ ReachableSensitive(g) \subseteq Reachable(g)
    BY DEF ExposedCompute, ExposedResources, ReachableSensitive
  <1> QED BY <1>2, <1>3, <1>4, <1>5, FS_Subset, FS_CardinalityType

LEMMA ScoreInRange ==
    ASSUME NEW g, Built(g), NEW critical
    PROVE  Score(g, critical) \in 0..100
  <1>1. Penalty(g, critical) \in Nat
    <2> DEFINE a == Deduct(20, 40, Cardinality(AdminEdges(g)))
               b == Deduct(20, 40, Cardinality(PublicEdges(g)))
               c == Deduct(15, 30, Cardinality(ExposedCompute(g)))
               d == Deduct(10, 20, Cardinality(BroadEdges(g)))
               e == Deduct(25, 25, Cardinality(ReachableSensitive(g)))
    <2>1. /\ a \in 0..40 /\ b \in 0..40 /\ c \in 0..30
          /\ d \in 0..20 /\ e \in 0..25
      BY CountsAreNumbers, DeductGrows
    <2>2. Penalty(g, critical) =
            a + b + c + d + e
            + (IF critical \/ ReachableSensitive(g) # {} THEN 20 ELSE 0)
      BY PenaltyIs
    <2> HIDE DEF a, b, c, d, e
    <2> QED BY <2>1, <2>2
  <1> QED BY <1>1 DEF Score

(* Edges of one graph that are as bad in another are no fewer there.       *)
LEMMA WorseEdges ==
    ASSUME NEW g, Built(g), NEW h, Built(h),
           NEW A \in SUBSET Range(g.edges), NEW B \in SUBSET Range(h.edges),
           \A f \in A : h.edges[EdgeOf(f)] \in B /\ EdgeOf(f) \in DOMAIN h.edges
    PROVE  Cardinality(A) <= Cardinality(B)
  <1> DEFINE w == [f \in A |-> h.edges[EdgeOf(f)]]
  <1>1. IsFiniteSet(B)
    BY CountsAreNumbers, FS_Subset
  <1>2. \A f \in A : g.edges[EdgeOf(f)] = f
    BY BuiltHas DEF Range
  <1>3. \A f \in A : EdgeOf(w[f]) = EdgeOf(f)
    BY BuiltHas
  <1>4. w \in [A -> B]
    OBVIOUS
  <1> HIDE DEF w
  <1>5. w \in Injection(A, B)
    BY <1>2, <1>3, <1>4 DEF Injection, IsInjective
  <1> QED BY <1>1, <1>5, FS_Injection

LEMMA FewerFindings ==
    ASSUME NEW g, Built(g), NEW h, Built(h), g.findings \subseteq h.findings,
           ~EdgeLimitReached(h)
    PROVE  /\ DOMAIN g.edges \subseteq DOMAIN h.edges
           /\ Reachable(g) \subseteq Reachable(h)
           /\ ExposedResources(g) \subseteq ExposedResources(h)
           /\ ReachableSensitive(g) \subseteq ReachableSensitive(h)
  <1>1. DOMAIN g.edges \subseteq DOMAIN h.edges
    <2>1. DOMAIN g.edges \subseteq EdgesIn(g.findings)
      BY BuiltHas
    <2>2. EdgesIn(h.findings) = DOMAIN h.edges
      BY BuiltHas
    <2> QED BY <2>1, <2>2 DEF EdgesIn
  <1>2. Reachable(g) \subseteq Reachable(h)
    BY <1>1, ReachableGrows
  <1> QED BY <1>1, <1>2
    DEF ExposedResources, ReachableSensitive, SensitiveBuckets, Containing

LEMMA FewerPenalties ==
    ASSUME NEW g, Built(g), NEW h, Built(h), g.findings \subseteq h.findings,
           ~EdgeLimitReached(h)
    PROVE  /\ Cardinality(AdminEdges(g)) <= Cardinality(AdminEdges(h))
           /\ Cardinality(PublicEdges(g)) <= Cardinality(PublicEdges(h))
           /\ Cardinality(ExposedCompute(g)) <= Cardinality(ExposedCompute(h))
           /\ Cardinality(BroadEdges(g)) <= Cardinality(BroadEdges(h))
           /\ Cardinality(ReachableSensitive(g))
                <= Cardinality(ReachableSensitive(h))
  <1> DEFINE worse(f) == h.edges[EdgeOf(f)]
  <1>1. \A f \in Range(g.edges) :
           /\ EdgeOf(f) \in DOMAIN h.edges
           /\ worse(f) \in Range(h.edges)
           /\ worse(f).source = f.source
           /\ worse(f).relationship = f.relationship
           /\ worse(f).risk >= f.risk
           /\ f.risk \in 1..4 /\ worse(f).risk \in 1..4
    <2> TAKE f \in Range(g.edges)
    <2>1. f \in g.findings \cap Range(Candidates)
      BY BuiltHas DEF Range
    <2>2. EdgeOf(f) \in DOMAIN h.edges /\ worse(f).risk >= f.risk
      BY <2>1, BuiltHas
    <2>3. worse(f) \in Range(Candidates) /\ EdgeOf(worse(f)) = EdgeOf(f)
      BY <2>2, BuiltHas
    <2> HIDE DEF worse
    <2>4. worse(f).source = f.source /\ worse(f).relationship = f.relationship
      BY <2>1, <2>3, RulesAssumption DEF EdgeOf
    <2>5. \A c \in Range(Candidates) : c.risk \in 1..4
      <3>1. Candidates \in Seq(Finding)
        BY GraphAssumption
      <3>2. Range(Candidates) \subseteq Finding
        BY <3>1, RangeOfSeq
      <3>3. \A c \in Finding : c.risk \in 1..4
        BY DEF Finding, LOW, CRITICAL
      <3> QED BY <3>2, <3>3
    <2> QED BY <2>1, <2>2, <2>3, <2>4, <2>5 DEF worse, Range
  <1>2. \A r : /\ EdgesOf(g, r) \subseteq Range(g.edges)
               /\ EdgesOf(h, r) \subseteq Range(h.edges)
    BY DEF EdgesOf
  <1>3. Cardinality(AdminEdges(g)) <= Cardinality(AdminEdges(h))
    <2>1. \A f \in AdminEdges(g) :
             /\ h.edges[EdgeOf(f)] \in AdminEdges(h)
             /\ EdgeOf(f) \in DOMAIN h.edges
      BY <1>1 DEF AdminEdges, EdgesOf, CRITICAL
    <2>2. /\ AdminEdges(g) \in SUBSET Range(g.edges)
          /\ AdminEdges(h) \in SUBSET Range(h.edges)
      BY <1>2 DEF AdminEdges
    <2> QED BY <2>1, <2>2, WorseEdges
  <1>4. Cardinality(PublicEdges(g)) <= Cardinality(PublicEdges(h))
    <2>1. \A f \in PublicEdges(g) :
             /\ h.edges[EdgeOf(f)] \in PublicEdges(h)
             /\ EdgeOf(f) \in DOMAIN h.edges
      BY <1>1 DEF PublicEdges, EdgesOf
    <2>2. /\ PublicEdges(g) \in SUBSET Range(g.edges)
          /\ PublicEdges(h) \in SUBSET Range(h.edges)
      BY <1>2 DEF PublicEdges
    <2> QED BY <2>1, <2>2, WorseEdges
  <1>5. Cardinality(BroadEdges(g)) <= Cardinality(BroadEdges(h))
    <2>1. \A f \in BroadEdges(g) :
             /\ h.edges[EdgeOf(f)] \in BroadEdges(h)
             /\ EdgeOf(f) \in DOMAIN h.edges
      BY <1>1 DEF BroadEdges, EdgesOf, HIGH
    <2>2. /\ BroadEdges(g) \in SUBSET Range(g.edges)
          /\ BroadEdges(h) \in SUBSET Range(h.edges)
      BY <1>2 DEF BroadEdges
    <2> QED BY <2>1, <2>2, WorseEdges
  <1>6. /\ IsFiniteSet(ExposedCompute(h)) /\ IsFiniteSet(ReachableSensitive(h))
        /\ ExposedCompute(g) \subseteq ExposedCompute(h)
        /\ ReachableSensitive(g) \subseteq ReachableSensitive(h)
    <2>1. /\ ExposedCompute(h) \subseteq Reachable(h)
          /\ ReachableSensitive(h) \subseteq Reachable(h)
      BY DEF ExposedCompute, ExposedResources, ReachableSensitive
    <2>2. IsFiniteSet(Reachable(h))
      BY CountsAreNumbers
    <2>3. IsFiniteSet(ExposedCompute(h)) /\ IsFiniteSet(ReachableSensitive(h))
      BY <2>1, <2>2, FS_Subset
    <2>4. /\ ExposedResources(g) \subseteq ExposedResources(h)
          /\ ReachableSensitive(g) \subseteq ReachableSensitive(h)
      BY FewerFindings
    <2> QED BY <2>3, <2>4 DEF ExposedCompute
  <1> QED BY <1>3, <1>4, <1>5, <1>6, FS_Subset

LEMMA FewerScoreHigher ==
    ASSUME NEW g, Built(g), NEW h, Built(h), g.findings \subseteq h.findings,
           ~EdgeLimitReached(h), NEW here, NEW there,
           here => ReachableSensitive(g) # {}
    PROVE  Score(h, there) <= Score(g, here)
  <1> DEFINE a1 == Deduct(20, 40, Cardinality(AdminEdges(g)))
             a2 == Deduct(20, 40, Cardinality(AdminEdges(h)))
             b1 == Deduct(20, 40, Cardinality(PublicEdges(g)))
             b2 == Deduct(20, 40, Cardinality(PublicEdges(h)))
             c1 == Deduct(15, 30, Cardinality(ExposedCompute(g)))
             c2 == Deduct(15, 30, Cardinality(ExposedCompute(h)))
             d1 == Deduct(10, 20, Cardinality(BroadEdges(g)))
             d2 == Deduct(10, 20, Cardinality(BroadEdges(h)))
             e1 == Deduct(25, 25, Cardinality(ReachableSensitive(g)))
             e2 == Deduct(25, 25, Cardinality(ReachableSensitive(h)))
             i1 == IF here \/ ReachableSensitive(g) # {} THEN 20 ELSE 0
             i2 == IF there \/ ReachableSensitive(h) # {} THEN 20 ELSE 0
             p1 == Penalty(g, here)
             p2 == Penalty(h, there)
  <1>1. /\ p1 = a1 + b1 + c1 + d1 + e1 + i1
        /\ p2 = a2 + b2 + c2 + d2 + e2 + i2
    BY PenaltyIs
  <1>2. /\ a1 \in 0..40 /\ b1 \in 0..40 /\ c1 \in 0..30 /\ d1 \in 0..20
        /\ e1 \in 0..25
    BY CountsAreNumbers, DeductGrows
  <1>3. /\ a2 \in 0..40 /\ b2 \in 0..40 /\ c2 \in 0..30 /\ d2 \in 0..20
        /\ e2 \in 0..25
    BY CountsAreNumbers, DeductGrows
  <1>4. a1 <= a2 /\ b1 <= b2 /\ c1 <= c2 /\ d1 <= d2 /\ e1 <= e2
    <2>1. /\ Cardinality(AdminEdges(g)) \in Nat
          /\ Cardinality(PublicEdges(g)) \in Nat
          /\ Cardinality(ExposedCompute(g)) \in Nat
          /\ Cardinality(BroadEdges(g)) \in Nat
          /\ Cardinality(ReachableSensitive(g)) \in Nat
      BY CountsAreNumbers
    <2>2. /\ Cardinality(AdminEdges(h)) \in Nat
          /\ Cardinality(PublicEdges(h)) \in Nat
          /\ Cardinality(ExposedCompute(h)) \in Nat
          /\ Cardinality(BroadEdges(h)) \in Nat
          /\ Cardinality(ReachableSensitive(h)) \in Nat
      BY CountsAreNumbers
    <2> QED BY <2>1, <2>2, FewerPenalties, DeductGrows
  <1>5. i1 \in 0..20 /\ i2 \in 0..20 /\ i1 <= i2
    <2>1. ReachableSensitive(g) \subseteq ReachableSensitive(h)
      BY FewerFindings
    <2> QED BY <2>1
  <1> HIDE DEF a1, a2, b1, b2, c1, c2, d1, d2, e1, e2, i1, i2, p1, p2
  <1>6. p1 \in Nat /\ p2 \in Nat /\ p1 <= p2
    BY <1>1, <1>2, <1>3, <1>4, <1>5
  <1>7. /\ Score(g, here) = IF p1 >= 100 THEN 0 ELSE 100 - p1
        /\ Score(h, there) = IF p2 >= 100 THEN 0 ELSE 100 - p2
    BY DEF Score, p1, p2
  <1> QED BY <1>6, <1>7

(* A path of a graph to sensitive data is one to a target, through a bucket*)
(* that the score and the comparison count.                                *)
LEMMA CriticalCounts ==
    ASSUME NEW g, Built(g), NEW p, Simple(DOMAIN g.edges, p),
           ReachesSensitive(p)
    PROVE  /\ Last(p) \in Targets(g)
           /\ p[Len(p) - 1] \in ReachableSensitive(g)
  <1> DEFINE E == Range(g.edges)
  <1>1. E \in SUBSET Range(Candidates) /\ E \subseteq g.findings
    BY BuiltHas DEF Range
  <1>2. DOMAIN g.edges \subseteq EdgesIn(E)
    <2>1. \A e \in DOMAIN g.edges : g.edges[e] \in E /\ EdgeOf(g.edges[e]) = e
      BY BuiltHas DEF Range
    <2> HIDE DEF E
    <2> QED BY <2>1 DEF EdgesIn
  <1>3. Simple(EdgesIn(E), p)
    BY <1>2, SimpleOver
  <1> HIDE DEF E
  <1>4. /\ Len(p) - 1 \in 1..Len(p) /\ p[Len(p) - 1] # Internet
        /\ Last(p) # Internet
        /\ \E f \in E : /\ f.relationship = "CONTAINS"
                        /\ f.source = p[Len(p) - 1]
                        /\ f.target = Last(p)
    BY <1>1, <1>3, CriticalEnds
  <1>5. p[Len(p) - 1] \in SensitiveBuckets(g) /\ Last(p) \in Markers(g)
    BY <1>1, <1>4 DEF SensitiveBuckets, Markers, Containing
  <1>6. p[Len(p) - 1] \in Reachable(g)
    BY <1>4, SimpleReaches
  <1>7. Last(p) \in Reachable(g)
    <2>1. Len(p) \in 1..Len(p) /\ p[Len(p)] = Last(p)
      BY LastOf
    <2> QED BY <2>1, <1>4, SimpleReaches
  <1> QED BY <1>5, <1>6, <1>7 DEF Targets, ReachableSensitive

-----------------------------------------------------------------------------
(* The results of two searches, and what the gate makes of them.           *)

Outcome(r) ==
    /\ Built(r.graph)
    /\ \A p \in r.paths : Simple(DOMAIN r.graph.edges, p)
    /\ r.exposed = ExposedResources(r.graph)
    /\ r.sensitive = ReachableSensitive(r.graph)
    /\ r.score = Score(r.graph, \E p \in r.paths : ReachesSensitive(p))
    /\ r.complete =>
          /\ ~EdgeLimitReached(r.graph)
          /\ \A p : /\ Simple(DOMAIN r.graph.edges, p)
                    /\ Last(p) \in Targets(r.graph)
                    => p \in r.paths

LEMMA ResultIsOutcome ==
    ASSUME SearchInv, HonestInv, Built(graph), step = "done", NEW gap
    PROVE  Outcome(Result(gap)) /\ Result(gap).graph = graph
  <1> DEFINE r == Result(gap)
  <1>1. /\ r.graph = graph /\ r.paths = paths
        /\ r.exposed = ExposedResources(graph)
        /\ r.sensitive = ReachableSensitive(graph)
        /\ r.score = Score(graph, \E p \in paths : ReachesSensitive(p))
        /\ r.complete => ~truncated /\ ~EdgeLimitReached(graph)
    BY DEF Result
  <1> HIDE DEF r
  <1>2. \A p \in paths : Simple(DOMAIN graph.edges, p)
    BY DEF SearchInv, PathInv, Real
  <1>3. ASSUME ~truncated, NEW p, Simple(DOMAIN graph.edges, p),
               Last(p) \in Targets(graph)
        PROVE  p \in paths
    <2>1. paths = SimplePathsTo(DOMAIN graph.edges, Targets(graph))
      BY <1>3, HonestBudgets DEF BudgetsAreHonest, UntruncatedIsComplete
    <2> QED BY <2>1, <1>3, SimplePathsAre DEF SimplePathsTo
  <1>4. r.score = Score(r.graph, \E p \in r.paths : ReachesSensitive(p))
    BY <1>1
  <1>5. Outcome(r)
    BY <1>1, <1>2, <1>3, <1>4 DEF Outcome
  <1> QED BY <1>1, <1>5 DEF r

LEMMA CriticalPathsAre ==
    ASSUME NEW config
    PROVE  \A p : p \in CriticalPathsOf(config) <=>
                     Simple(EdgesIn(config), p) /\ ReachesSensitive(p)
  BY SimplePathsAre DEF CriticalPathsOf

LEMMA ComparedIs ==
    ASSUME NEW old, NEW new
    PROVE  LET d == Compared(old, new) IN
           /\ d.newPaths = NewPaths(old, new)
           /\ d.newlyExposed = new.exposed \ old.exposed
           /\ d.newlySensitive = new.sensitive \ old.sensitive
           /\ d.scores = <<old.score, new.score>>
           /\ d.complete = (old.complete /\ new.complete)
  BY DEF Compared

(* A complete comparison without a new critical path opens none.           *)
LEMMA NoneOpens ==
    ASSUME NEW old, Outcome(old), NEW new, Outcome(new), new.complete,
           Critical(NewPaths(old, new)) = {}
    PROVE  CriticalPathsOf(new.graph.findings) \subseteq
              CriticalPathsOf(old.graph.findings)
  <1>3. EdgesIn(new.graph.findings) = DOMAIN new.graph.edges
    BY BuiltHas DEF Outcome
  <1>4. DOMAIN old.graph.edges \subseteq EdgesIn(old.graph.findings)
    BY BuiltHas DEF Outcome
  <1>5. ASSUME NEW p \in CriticalPathsOf(new.graph.findings)
        PROVE  p \in CriticalPathsOf(old.graph.findings)
    <2>1. Simple(DOMAIN new.graph.edges, p) /\ ReachesSensitive(p)
      BY <1>3, CriticalPathsAre
    <2>2. Last(p) \in Targets(new.graph)
      BY <2>1, CriticalCounts DEF Outcome
    <2>3. p \in new.paths
      BY <2>1, <2>2 DEF Outcome
    <2>4. CASE p \in old.paths
      <3>1. Simple(DOMAIN old.graph.edges, p)
        BY <2>4 DEF Outcome
      <3> QED BY <3>1, <1>4, <2>1, SimpleOver, CriticalPathsAre
    <2>5. CASE ContainsPath(old.graph, p)
      <3>1. Simple(DOMAIN old.graph.edges, p)
        BY <2>1, <2>5 DEF Simple, ContainsPath
      <3> QED BY <3>1, <1>4, <2>1, SimpleOver, CriticalPathsAre
    <2>6. p \notin NewPaths(old, new)
      BY <2>1 DEF Critical
    <2> QED BY <2>3, <2>4, <2>5, <2>6 DEF NewPaths
  <1> QED BY <1>5

(* Nothing is safe that opens a path to sensitive data.                    *)
LEMMA SafeOpens ==
    ASSUME NEW old, Outcome(old), NEW new, Outcome(new), NEW rule,
           Decide(Compared(old, new), rule) = "SAFE"
    PROVE  /\ Compared(old, new).complete
           /\ CriticalPathsOf(new.graph.findings) \subseteq
                 CriticalPathsOf(old.graph.findings)
  <1> DEFINE d == Compared(old, new)
  <1>1. d.complete /\ d.newPaths = {}
    BY DEF Decide, NewExposure
  <1>2. NewPaths(old, new) = {} /\ new.complete
    BY <1>1, ComparedIs
  <1>3. Critical(NewPaths(old, new)) = {}
    BY <1>2 DEF Critical
  <1> QED BY <1>1, <1>2, <1>3, NoneOpens

(* A bucket with sensitive data that the Internet reaches is the end but   *)
(* one of a path to the data.                                              *)
LEMMA SensitiveIsOpen ==
    ASSUME NEW g, Built(g), g.findings \subseteq Range(Candidates),
           NEW b \in ReachableSensitive(g)
    PROVE  b \in Open(g.findings)
  <1>1. PICK q : Simple(DOMAIN g.edges, q) /\ Last(q) = b
    BY SimpleTo DEF ReachableSensitive
  <1>2. PICK f \in g.findings : f.relationship = "CONTAINS" /\ f.source = b
    BY DEF ReachableSensitive, SensitiveBuckets, Containing
  <1> DEFINE m == f.target
             E == EdgesIn(g.findings)
             p == Append(q, m)
  <1>3. Simple(E, q)
    BY <1>1, BuiltHas, SimpleOver
  <1>4. /\ q \in Seq(Node) /\ Len(q) \in Nat \ {0} /\ DOMAIN q = 1..Len(q)
        /\ q[Len(q)] = b
    BY <1>1, <1>3, LastOf
  <1>5. /\ m \in Node /\ KindOf[m] = "SENSITIVE_DATA"
        /\ KindOf[b] # "SENSITIVE_DATA" /\ <<b, m>> \in E
    <2>1. f \in Range(Candidates)
      OBVIOUS
    <2>2. f \in Finding
      <3>1. Candidates \in Seq(Finding)
        BY GraphAssumption
      <3> QED BY <2>1, <3>1, RangeOfSeq
    <2>3. <<b, m>> \in E
      BY <1>2 DEF EdgesIn, EdgeOf
    <2> QED BY <2>1, <2>2, <2>3, <1>2, RulesAssumption DEF Finding
  <1>6. m \notin Range(q)
    <2>1. ASSUME NEW i \in 1..Len(q) PROVE q[i] # m
      <3>1. CASE i \in 1..(Len(q) - 1)
        <4>1. PICK c \in g.findings : EdgeOf(c) = <<q[i], q[i + 1]>>
          BY <1>3, <3>1 DEF Simple, EdgesIn
        <4>2. KindOf[q[i]] # "SENSITIVE_DATA"
          BY <4>1, RulesAssumption DEF EdgeOf
        <4> QED BY <4>2, <1>5
      <3>2. CASE i = Len(q)
        BY <3>2, <1>4, <1>5
      <3> QED BY <3>1, <3>2, <1>4, UpToLast
    <2> QED BY <2>1, <1>4 DEF Range
  <1> HIDE DEF m, E
  <1>7. Simple(E, p) /\ Last(p) = m
    BY <1>1, <1>3, <1>5, <1>6, SimpleAppend
  <1>8. /\ Len(p) = Len(q) + 1 /\ p[Len(q)] = b /\ p[Len(p)] = m
        /\ Len(p) \in DOMAIN p
    <2>1. /\ p \in Seq(Node) /\ Len(p) = Len(q) + 1
          /\ \A i \in 1..Len(q) : p[i] = q[i]
          /\ p[Len(q) + 1] = m
      BY <1>4, <1>5, AppendProperties
    <2>2. DOMAIN p = 1..Len(p)
      BY <2>1, LenProperties
    <2> HIDE DEF p
    <2>3. \A n \in Nat \ {0} : n \in 1..n /\ n + 1 \in 1..(n + 1)
      OBVIOUS
    <2> QED BY <2>1, <2>2, <2>3, <1>4
  <1>9. Len(p) - 1 = Len(q)
    <2>1. \A n \in Nat \ {0} : (n + 1) - 1 = n
      OBVIOUS
    <2> HIDE DEF p
    <2> QED BY <2>1, <1>4, <1>8
  <1> HIDE DEF p
  <1>10. ReachesSensitive(p)
    BY <1>5, <1>8 DEF ReachesSensitive
  <1>11. p \in CriticalPathsOf(g.findings)
    BY <1>7, <1>10, CriticalPathsAre DEF E
  <1> QED BY <1>8, <1>9, <1>11 DEF Open

(* New exposure is blocked, however early the searches stopped.            *)
LEMMA ExposureBlocks ==
    ASSUME NEW old, Outcome(old), NEW new, Outcome(new), NEW rule,
           old.graph.findings \subseteq Range(Candidates),
           rule.block_new_sensitive_exposure,
           ~EdgeLimitReached(new.graph),
           ~(Open(new.graph.findings) \subseteq Open(old.graph.findings))
    PROVE  Decide(Compared(old, new), rule) = "BLOCK"
  <1>1. PICK b \in Open(new.graph.findings) : b \notin Open(old.graph.findings)
    OBVIOUS
  <1>2. PICK p \in CriticalPathsOf(new.graph.findings) : b = p[Len(p) - 1]
    BY <1>1 DEF Open
  <1>3. EdgesIn(new.graph.findings) = DOMAIN new.graph.edges
    BY BuiltHas DEF Outcome
  <1>4. Simple(DOMAIN new.graph.edges, p) /\ ReachesSensitive(p)
    BY <1>3, CriticalPathsAre
  <1>5. b \in ReachableSensitive(new.graph)
    BY <1>2, <1>4, CriticalCounts DEF Outcome
  <1>6. b \notin ReachableSensitive(old.graph)
    BY <1>1, SensitiveIsOpen DEF Outcome
  <1>7. Compared(old, new).newlySensitive # {}
    BY <1>5, <1>6, ComparedIs DEF Outcome
  <1> QED BY <1>7 DEF Decide, Violated

(* What only takes findings away is safe.                                  *)
LEMMA RemediationPasses ==
    ASSUME NEW old, Outcome(old), NEW new, Outcome(new),
           Compared(old, new).complete,
           new.graph.findings \subseteq old.graph.findings
    PROVE  /\ Decide(Compared(old, new), DefaultPolicy) = "SAFE"
           /\ VerdictOf(Compared(old, new)) \in {"IMPROVED", "UNCHANGED"}
  <1> DEFINE d == Compared(old, new)
  <1>1. /\ old.complete /\ new.complete /\ Built(old.graph) /\ Built(new.graph)
        /\ ~EdgeLimitReached(old.graph)
    BY ComparedIs DEF Outcome
  <1>2. /\ DOMAIN new.graph.edges \subseteq DOMAIN old.graph.edges
        /\ ExposedResources(new.graph) \subseteq ExposedResources(old.graph)
        /\ ReachableSensitive(new.graph) \subseteq ReachableSensitive(old.graph)
    BY <1>1, FewerFindings
  <1>3. d.newlySensitive = {} /\ d.newlyExposed = {}
    BY <1>2, ComparedIs DEF Outcome
  <1>4. d.newPaths = {}
    <2>1. ASSUME NEW p \in new.paths PROVE ContainsPath(old.graph, p)
      BY <1>2 DEF Outcome, Simple, ContainsPath
    <2>2. NewPaths(old, new) = {}
      BY <2>1 DEF NewPaths
    <2> QED BY <2>2, ComparedIs
  <1>5. /\ old.score <= new.score /\ old.score \in 0..100
        /\ new.score \in 0..100
    <2> DEFINE here == \E p \in new.paths : ReachesSensitive(p)
               there == \E p \in old.paths : ReachesSensitive(p)
    <2>1. here => ReachableSensitive(new.graph) # {}
      BY CriticalCounts DEF Outcome
    <2>2. /\ new.score = Score(new.graph, here)
          /\ old.score = Score(old.graph, there)
      BY DEF Outcome
    <2> HIDE DEF here, there
    <2>3. Score(old.graph, there) <= Score(new.graph, here)
      BY <1>1, <2>1, FewerScoreHigher
    <2>4. /\ Score(old.graph, there) \in 0..100
          /\ Score(new.graph, here) \in 0..100
      BY <1>1, ScoreInRange
    <2> QED BY <2>2, <2>3, <2>4
  <1>6. d.scores[1] = old.score /\ d.scores[2] = new.score /\ d.complete
    BY <1>1, ComparedIs
  <1> HIDE DEF d
  <1>7. ~Lower(d) /\ ~(d.scores[2] < 0)
    BY <1>5, <1>6, SMTT(20) DEF Lower
  <1>8. Critical(d.newPaths) = {}
    BY <1>4 DEF Critical
  <1>9. ~Violated(d, DefaultPolicy)
    BY <1>3, <1>7, <1>8 DEF Violated, DefaultPolicy
  <1>10. Decide(d, DefaultPolicy) = "SAFE"
    BY <1>3, <1>4, <1>6, <1>7, <1>9 DEF Decide, NewExposure
  <1>11. VerdictOf(d) \in {"IMPROVED", "UNCHANGED"}
    BY <1>3, <1>4, <1>6, <1>7, <1>8 DEF VerdictOf
  <1> QED BY <1>10, <1>11 DEF d


-----------------------------------------------------------------------------
(* Who moves the search: the engine alone or a run from end to end takes a *)
(* step of it, starts it on a new graph, or leaves it alone.               *)

VerdictStep ==
    \/ Search
    \/ \E config : \E gap \in BOOLEAN : StartAfter(config, gap)
    \/ \E gap \in BOOLEAN : CompareWith(gap)
    \/ \E p : DecideWith(p)

(* The first analysis of a run from end to end begins.                     *)
StartBefore ==
    /\ stage = "build" /\ side' = "before"
    /\ \E config : Restart(BuildGraph(config))
    /\ UNCHANGED verdictVars

LEMMA NextDecides == Next => VerdictStep
  BY DEF Next, AnalyzeAfter, Compare, DecideMerge, VerdictStep

LEMMA GateDecides ==
    ASSUME [GateNext]_gateVars
    PROVE  VerdictStep \/ StartBefore \/ UNCHANGED vars
  <1>1. CASE Engine
    BY <1>1, NextDecides DEF Engine
  <1>2. CASE Ask \/ SelectRoot \/ ReadBasePolicy \/ MoveRef \/ Parse
    BY <1>2 DEF Ask, SelectRoot, ReadBasePolicy, MoveRef, Parse, Fail, Go
  <1>3. CASE \E s \in End : PinRef(s) \/ Materialize(s)
    BY <1>3 DEF PinRef, Materialize, Fail, Go
  <1>4. CASE Build
    BY <1>4 DEF Build, Fail, StartBefore
  <1>5. CASE Analyze
    BY <1>5 DEF Analyze, VerdictStep
  <1>6. CASE CompareSides
    BY <1>6 DEF CompareSides, VerdictStep
  <1>7. CASE Report
    BY <1>7 DEF Report, Fail, VerdictStep
  <1>8. CASE \/ Answer \/ WriteCommentFile \/ Deliver \/ PrintReport
             \/ DeliverError
    BY <1>8 DEF Answer, WriteCommentFile, Deliver, PrintReport, DeliverError,
                Interrupted, writeVars, Fail
  <1>9. CASE CheckHead \/ PostComment
    BY <1>9 DEF CheckHead, PostComment
  <1>10. CASE UNCHANGED gateVars
    BY <1>10 DEF gateVars
  <1> QED
    BY <1>1, <1>2, <1>3, <1>4, <1>5, <1>6, <1>7, <1>8, <1>9, <1>10
    DEF GateNext

(* The searches, one after the other, and what follows them.               *)
SearchesInv == SearchInv /\ HonestInv /\ Built(graph)

BaselineInv == side \in {"after", "compared", "decided"} => Outcome(before)

ComparedInv ==
    side \in {"compared", "decided"} =>
       step = "done" /\ \E gap : diff = Compared(before, Result(gap))

DecidedInv ==
    decision # "none" => side = "decided" /\ decision = Decide(diff, policy)

DecisionInv == BaselineInv /\ ComparedInv /\ DecidedInv

LEMMA SearchesGoOn ==
    ASSUME SearchesInv, VerdictStep \/ StartBefore \/ UNCHANGED vars
    PROVE  SearchesInv'
  <1>1. \/ SearchStep \/ searchVars' = searchVars
        \/ \E config : Restart(BuildGraph(config))
    BY DEF VerdictStep, Search, StartAfter, CompareWith, DecideWith,
           StartBefore, vars
  <1>2. SearchInv' /\ HonestInv'
    BY <1>1, SearchStepOK, HonestStepOK, RestartOK, RestartHonest
    DEF SearchesInv
  <1>3. Built(graph)'
    <2>1. ASSUME SearchStep \/ searchVars' = searchVars PROVE graph' = graph
      BY <2>1 DEF SearchStep, VisitBreadth, EndBreadth, TakeTarget, EndTargets,
             DepthStep, RunOut, Backtrack, SkipVisited, EmitPath, SkipDeep,
             Descend, Yield, searchVars
    <2>2. ASSUME NEW config, Restart(BuildGraph(config)) PROVE Built(graph)'
      <3>1. graph' = BuildGraph(config)
        BY <2>2 DEF Restart
      <3>2. Built(graph')
        BY <3>1, BuiltIs
      <3> QED BY <3>2
    <2> QED BY <1>1, <2>1, <2>2 DEF SearchesInv
  <1> QED BY <1>2, <1>3 DEF SearchesInv

LEMMA SameResult ==
    ASSUME UNCHANGED searchVars
    PROVE  /\ \A gap : Result(gap)' = Result(gap)
           /\ step' = step /\ graph' = graph
  BY DEF Result, searchVars, stackVars, resultVars, breadthVars

LEMMA DecisionGoesOn ==
    ASSUME SearchesInv, DecisionInv,
           VerdictStep \/ (StartBefore /\ side = "idle") \/ UNCHANGED vars
    PROVE  DecisionInv'
  <1> USE DEF DecisionInv
  <1>1. CASE Search
    <2>1. /\ side \in {"before", "after"} /\ side' = side /\ before' = before
          /\ decision' = decision
      BY <1>1 DEF Search, verdictVars
    <2>2. decision = "none"
      BY <2>1 DEF DecidedInv
    <2>3. BaselineInv'
      BY <2>1 DEF BaselineInv
    <2>4. ComparedInv'
      BY <2>1 DEF ComparedInv
    <2>5. DecidedInv'
      BY <2>1, <2>2 DEF DecidedInv
    <2> QED BY <2>3, <2>4, <2>5
  <1>2. ASSUME NEW config, NEW gap, StartAfter(config, gap)
        PROVE  DecisionInv'
    <2>1. /\ side = "before" /\ step = "done" /\ before' = Result(gap)
          /\ side' = "after" /\ decision' = decision
      BY <1>2 DEF StartAfter
    <2>2. Outcome(before')
      BY <2>1, ResultIsOutcome DEF SearchesInv
    <2>3. BaselineInv'
      BY <2>2 DEF BaselineInv
    <2>4. ComparedInv'
      BY <2>1 DEF ComparedInv
    <2>5. decision' = "none"
      BY <2>1 DEF DecidedInv
    <2>6. DecidedInv'
      BY ONLY <2>5 DEF DecidedInv
    <2> QED BY ONLY <2>3, <2>4, <2>6 DEF DecisionInv
  <1>3. ASSUME NEW gap, CompareWith(gap)
        PROVE  DecisionInv'
    <2>1. /\ side = "after" /\ step = "done"
          /\ diff' = Compared(before, Result(gap))
          /\ side' = "compared" /\ decision' = decision /\ before' = before
          /\ UNCHANGED searchVars
      BY <1>3 DEF CompareWith
    <2>2. diff' = Compared(before', Result(gap)') /\ step' = "done"
      BY <2>1, SameResult
    <2>3. decision' = "none"
      BY <2>1 DEF DecidedInv
    <2>4. BaselineInv'
      BY <2>1 DEF BaselineInv
    <2>5. ComparedInv'
      BY <2>2 DEF ComparedInv
    <2>6. DecidedInv'
      BY ONLY <2>3 DEF DecidedInv
    <2> QED BY ONLY <2>4, <2>5, <2>6 DEF DecisionInv
  <1>4. ASSUME NEW p, DecideWith(p)
        PROVE  DecisionInv'
    <2>1. /\ side = "compared" /\ side' = "decided" /\ policy' = p
          /\ decision' = Decide(diff, p) /\ before' = before /\ diff' = diff
          /\ UNCHANGED searchVars
      BY <1>4 DEF DecideWith
    <2>2. PICK gap : diff = Compared(before, Result(gap))
      BY <2>1 DEF ComparedInv
    <2>3. diff' = Compared(before', Result(gap)') /\ step' = "done"
      BY <2>1, <2>2, SameResult DEF ComparedInv
    <2>4. BaselineInv'
      BY <2>1 DEF BaselineInv
    <2>5. ComparedInv'
      BY <2>3 DEF ComparedInv
    <2>6. decision' = Decide(diff', policy')
      BY <2>1
    <2>7. DecidedInv'
      BY <2>1, <2>6 DEF DecidedInv
    <2> QED BY <2>4, <2>5, <2>7
  <1>5. CASE StartBefore /\ side = "idle"
    BY <1>5 DEF StartBefore, verdictVars, BaselineInv, ComparedInv, DecidedInv
  <1>6. CASE UNCHANGED vars
    <2>1. /\ side' = side /\ before' = before /\ diff' = diff
          /\ policy' = policy /\ decision' = decision /\ UNCHANGED searchVars
      BY <1>6 DEF vars, verdictVars
    <2>2. BaselineInv'
      BY <2>1 DEF BaselineInv
    <2>3. ComparedInv'
      BY <2>1, SameResult DEF ComparedInv
    <2>4. DecidedInv'
      BY <2>1 DEF DecidedInv
    <2> QED BY <2>2, <2>3, <2>4
  <1> QED BY <1>1, <1>2, <1>3, <1>4, <1>5, <1>6 DEF VerdictStep

(* What the invariants say of a decision.                                  *)
LEMMA DecidedIs ==
    ASSUME SearchesInv, DecisionInv, decision # "none"
    PROVE  \E gap : /\ Outcome(before) /\ Outcome(Result(gap))
                    /\ Result(gap).graph = graph
                    /\ diff = Compared(before, Result(gap))
                    /\ decision = Decide(diff, policy)
  <1>1. /\ side = "decided" /\ decision = Decide(diff, policy)
        /\ Outcome(before) /\ step = "done"
    BY DEF DecisionInv, DecidedInv, ComparedInv, BaselineInv
  <1>2. PICK gap : diff = Compared(before, Result(gap))
    BY <1>1 DEF DecisionInv, ComparedInv
  <1> QED BY <1>1, <1>2, ResultIsOutcome DEF SearchesInv

LEMMA SoundDecisions ==
    ASSUME SearchesInv, DecisionInv,
           decision # "none" =>
              before.graph.findings \subseteq Range(Candidates)
    PROVE  DecisionIsSound
  <1>1. CASE decision = "none"
    BY <1>1 DEF DecisionIsSound, SafeOpensNothing, ExposureIsBlocked,
                RemediationIsSafe
  <1>2. CASE decision # "none"
    <2>1. PICK gap : /\ Outcome(before) /\ Outcome(Result(gap))
                     /\ Result(gap).graph = graph
                     /\ diff = Compared(before, Result(gap))
                     /\ decision = Decide(diff, policy)
      BY <1>2, DecidedIs
    <2>2. SafeOpensNothing
      BY <2>1, SafeOpens DEF SafeOpensNothing
    <2>3. ExposureIsBlocked
      BY <2>1, <1>2, ExposureBlocks DEF ExposureIsBlocked
    <2>4. RemediationIsSafe
      BY <2>1, <1>2, RemediationPasses DEF RemediationIsSafe
    <2> QED BY <2>2, <2>3, <2>4 DEF DecisionIsSound
  <1> QED BY <1>1, <1>2

LEMMA AgreeingVerdicts ==
    ASSUME SearchesInv, DecisionInv
    PROVE  VerdictAgrees
  <1>1. CASE decision = "none"
    BY <1>1 DEF VerdictAgrees
  <1>2. CASE decision # "none"
    <2>1. PICK gap : /\ Outcome(before) /\ Outcome(Result(gap))
                     /\ Result(gap).graph = graph
                     /\ diff = Compared(before, Result(gap))
                     /\ decision = Decide(diff, policy)
      BY <1>2, DecidedIs
    <2>2. diff.scores[2] \in 0..100
      <3> DEFINE r == Result(gap)
      <3>1. diff.scores[2] = r.score
        BY <2>1, ComparedIs
      <3>2. r.score = Score(r.graph, \E p \in r.paths : ReachesSensitive(p))
        BY <2>1 DEF Outcome
      <3>3. Built(r.graph)
        BY <2>1 DEF Outcome
      <3> HIDE DEF r
      <3> QED BY <3>1, <3>2, <3>3, ScoreInRange
    <2>3. Critical({}) = {}
      BY DEF Critical
    <2>4. ASSUME decision = "SAFE"
          PROVE  /\ VerdictOf(diff) \in {"IMPROVED", "UNCHANGED"}
                 /\ SarifLevels(diff, decision) = {}
      <3>1. /\ diff.complete /\ diff.newPaths = {} /\ diff.newlySensitive = {}
            /\ diff.newlyExposed = {} /\ ~Lower(diff)
        BY <2>1, <2>4 DEF Decide, NewExposure
      <3>2. VerdictOf(diff) \in {"IMPROVED", "UNCHANGED"}
        BY <3>1, <2>3 DEF VerdictOf
      <3> QED BY <3>1, <3>2, <2>3, <2>4 DEF SarifLevels
    <2>5. ASSUME policy = DefaultPolicy
          PROVE  decision = "BLOCK" <=> \/ diff.newlySensitive # {}
                                        \/ Critical(diff.newPaths) # {}
      <3>1. ~(diff.scores[2] < 0)
        BY <2>2
      <3>2. Violated(diff, policy) <=> \/ diff.newlySensitive # {}
                                       \/ Critical(diff.newPaths) # {}
        BY <3>1, <2>5 DEF Violated, DefaultPolicy
      <3> QED BY <3>2, <2>1 DEF Decide
    <2>6. ASSUME decision = "BLOCK", policy = DefaultPolicy
          PROVE  VerdictOf(diff) = "REGRESSION"
      BY <2>5, <2>6 DEF VerdictOf
    <2>7. ASSUME policy = DefaultPolicy
          PROVE  decision = "BLOCK" <=> "error" \in SarifLevels(diff, decision)
      BY <2>5, <2>7 DEF SarifLevels
    <2> QED BY <2>4, <2>6, <2>7 DEF VerdictAgrees
  <1> QED BY <1>1, <1>2

-----------------------------------------------------------------------------
(* The engine alone.                                                       *)

VerdictInv ==
    /\ SearchesInv /\ DecisionInv /\ FromCandidates
    /\ side \in {"after", "compared", "decided"} =>
          before.graph.findings \subseteq Range(Candidates)
    /\ side \in {"before", "after", "compared", "decided"}
    /\ side = "before" => graph.findings \in Baselines
    /\ policy \in Policy
    /\ decision \in {"none", "SAFE", "REVIEW", "BLOCK"}

LEMMA StartsRight ==
    ASSUME NEW config, StartWith(BuildGraph(config)), decision = "none",
           side \in {"idle", "before"}
    PROVE  SearchesInv /\ DecisionInv /\ graph.findings = config
  <1>1. graph = BuildGraph(config)
    BY DEF StartWith
  <1>2. Built(graph) /\ graph.findings = config
    BY <1>1, BuiltIs
  <1>3. SearchesInv
    BY <1>2, StartOK, StartHonest DEF SearchesInv
  <1>4. DecisionInv
    BY DEF DecisionInv, BaselineInv, ComparedInv, DecidedInv
  <1> QED BY <1>2, <1>3, <1>4

LEMMA VerdictStarts ==
    ASSUME VerdictInit PROVE VerdictInv
  <1>1. PICK config \in Baselines : StartWith(BuildGraph(config))
    BY DEF VerdictInit
  <1>2. side = "before" /\ policy = DefaultPolicy /\ decision = "none"
    BY DEF VerdictInit
  <1>3. SearchesInv /\ DecisionInv /\ graph.findings = config
    BY <1>1, <1>2, StartsRight
  <1>4. FromCandidates
    BY <1>3, VerdictAssumption DEF FromCandidates
  <1>5. policy \in Policy
    BY <1>2 DEF DefaultPolicy, Policy
  <1> QED BY <1>2, <1>3, <1>4, <1>5 DEF VerdictInv

LEMMA GraphOfSearch ==
    ASSUME SearchStep \/ UNCHANGED searchVars
    PROVE  graph' = graph
  BY DEF SearchStep, VisitBreadth, EndBreadth, TakeTarget, EndTargets,
         DepthStep, RunOut, Backtrack, SkipVisited, EmitPath, SkipDeep,
         Descend, Yield, searchVars

LEMMA VerdictGoesOn ==
    ASSUME VerdictInv, [Next]_vars
    PROVE  VerdictInv'
  <1> USE DEF VerdictInv
  <1>1. SearchesInv' /\ DecisionInv'
    BY NextDecides, SearchesGoOn, DecisionGoesOn
  <1>2. CASE Search
    <2>1. /\ side' = side /\ before' = before /\ policy' = policy
          /\ decision' = decision /\ graph' = graph
      BY <1>2, GraphOfSearch DEF Search, verdictVars
    <2> QED BY <1>1, <2>1 DEF FromCandidates
  <1>3. CASE AnalyzeAfter
    <2>1. PICK config \in Changes(graph.findings) : StartAfter(config, FALSE)
      BY <1>3 DEF AnalyzeAfter
    <2>2. /\ side = "before" /\ side' = "after" /\ before' = Result(FALSE)
          /\ Restart(BuildGraph(config))
          /\ policy' = policy /\ decision' = decision
      BY <2>1 DEF StartAfter
    <2>3. config \subseteq Range(Candidates)
      BY <2>2, VerdictAssumption
    <2>4. graph'.findings = config
      <3>1. graph' = BuildGraph(config)
        BY <2>2 DEF Restart
      <3> QED BY <3>1, BuiltIs
    <2>5. FromCandidates'
      BY <2>3, <2>4 DEF FromCandidates
    <2>6. before'.graph = graph
      BY <2>2 DEF Result
    <2>7. before'.graph.findings \subseteq Range(Candidates)
      BY <2>6 DEF FromCandidates
    <2> QED BY <1>1, <2>2, <2>5, <2>7
  <1>4. CASE Compare
    <2>1. /\ side = "after" /\ side' = "compared" /\ before' = before
          /\ policy' = policy /\ decision' = decision /\ graph' = graph
      BY <1>4, GraphOfSearch DEF Compare, CompareWith
    <2> QED BY <1>1, <2>1 DEF FromCandidates
  <1>5. CASE DecideMerge
    <2>1. PICK p \in Policies : DecideWith(p)
      BY <1>5 DEF DecideMerge
    <2>2. /\ side = "compared" /\ side' = "decided" /\ before' = before
          /\ policy' = p /\ decision' = Decide(diff, p) /\ graph' = graph
      BY <2>1, GraphOfSearch DEF DecideWith
    <2>3. policy' \in Policy
      BY <2>2, VerdictAssumption
    <2>4. decision' \in {"SAFE", "REVIEW", "BLOCK"}
      BY <2>2 DEF Decide
    <2> QED BY <1>1, <2>2, <2>3, <2>4 DEF FromCandidates
  <1>6. CASE UNCHANGED vars
    <2>1. /\ side' = side /\ before' = before /\ policy' = policy
          /\ decision' = decision /\ graph' = graph
      BY <1>6, GraphOfSearch DEF vars, verdictVars
    <2> QED BY <1>1, <2>1 DEF FromCandidates
  <1> QED BY <1>2, <1>3, <1>4, <1>5, <1>6 DEF Next

(* The invariant of the engine: every result is that of a finished search  *)
(* of a configuration made of candidates.                                  *)
THEOREM VerdictInvariant == VerdictSpec => []VerdictInv
  <1>1. VerdictInit => VerdictInv
    BY VerdictStarts
  <1>2. VerdictInv /\ [Next]_vars => VerdictInv'
    BY VerdictGoesOn
  <1> QED BY <1>1, <1>2, PTL DEF VerdictSpec

(* Types of the two analyses, the comparison and the decision; scores stay *)
(* between 0 and 100.                                                      *)
THEOREM VerdictTypes == VerdictSpec => []TypeOK
  <1>1. ASSUME VerdictInv PROVE TypeOK
    <2> USE <1>1 DEF VerdictInv
    <2>1. SearchTypeOK
      BY SearchTypes DEF SearchesInv
    <2>2. ASSUME side \notin {"idle", "before"} PROVE before.score \in 0..100
      <3> DEFINE here == \E p \in before.paths : ReachesSensitive(p)
      <3>1. Outcome(before)
        BY <2>2 DEF DecisionInv, BaselineInv
      <3>2. before.score = Score(before.graph, here) /\ Built(before.graph)
        BY <3>1 DEF Outcome
      <3> HIDE DEF here
      <3> QED BY <3>2, ScoreInRange
    <2> QED BY <2>1, <2>2 DEF TypeOK, Side
  <1> QED BY <1>1, VerdictInvariant, PTL

(* No budget, gap or policy lets a change through as safe that opens a path*)
(* to sensitive data; new sensitive exposure is blocked where the policy   *)
(* blocks it, however early the searches stopped; and a complete change    *)
(* that takes findings away and nothing else is safe: for every graph,     *)
(* order of nodes, pair of configurations and policy.                      *)
THEOREM SoundAlone == VerdictSpec => []DecisionIsSound
  <1>1. ASSUME VerdictInv PROVE DecisionIsSound
    <2> USE <1>1 DEF VerdictInv
    <2>1. ASSUME decision # "none"
          PROVE  before.graph.findings \subseteq Range(Candidates)
      BY <2>1 DEF DecisionInv, DecidedInv
    <2> QED BY <2>1, SoundDecisions
  <1> QED BY <1>1, VerdictInvariant, PTL

(* The verdict of the report, the alerts and the decision never contradict *)
(* each other, for every configuration and policy.                         *)
THEOREM AgreeAlone == VerdictSpec => []VerdictAgrees
  <1>1. VerdictInv => VerdictAgrees
    BY AgreeingVerdicts DEF VerdictInv
  <1> QED BY <1>1, VerdictInvariant, PTL

-----------------------------------------------------------------------------
(* A run from end to end.  Before its first analysis nothing is searched.  *)

Early == {"asked", "base ref", "head ref", "root", "base files",
          "head files", "rules", "parse", "build"}

IdleInv == stage \in Early => side = "idle"

LEMMA FailEnds ==
    ASSUME Fail
    PROVE  /\ stage' \in {"ended", "error"} /\ UNCHANGED <<vars, world>>
           /\ comment' = comment /\ exit' = 2
           /\ Worker => files' = [files EXCEPT !["answer"] = "ERROR"]
                        /\ stage' = "ended"
           /\ ~Worker => /\ stage' = "error" /\ left' = Deliverables
                         /\ files' = files
  BY DEF Fail

LEMMA EarlyStages ==
    ASSUME IdleInv, [GateNext]_gateVars
    PROVE  IdleInv'
  <1> USE DEF IdleInv, Early
  <1>1. CASE Engine
    BY <1>1 DEF Engine
  <1>2. CASE Fail
    BY <1>2, FailEnds
  <1>3. ASSUME ~Fail, Ask \/ SelectRoot \/ ReadBasePolicy \/ Parse
        PROVE  IdleInv'
    <2>1. stage \in Early /\ side' = side
      BY <1>3 DEF Ask, SelectRoot, ReadBasePolicy, Parse, Go, vars
    <2> QED BY <2>1
  <1>4. CASE MoveRef
    BY <1>4 DEF MoveRef, vars
  <1>5. ASSUME ~Fail, NEW s \in End, PinRef(s) \/ Materialize(s)
        PROVE  IdleInv'
    <2>1. stage \in Early /\ side' = side
      BY <1>5 DEF PinRef, Materialize, Go, vars
    <2> QED BY <2>1
  <1>6. CASE Build
    BY <1>2, <1>6 DEF Build
  <1>7. CASE Analyze \/ CompareSides
    BY <1>7 DEF Analyze, CompareSides
  <1>8. CASE Report
    <2>1. CASE ~Fail
      <3>1. stage' \in {"answer", "deliver", "comment file"}
        BY <1>8, <2>1, Zenon DEF Report
      <3> QED BY <3>1
    <2> QED BY <2>1, <1>2
  <1>9. CASE Answer \/ WriteCommentFile \/ Deliver \/ DeliverError
    BY <1>9 DEF Answer, WriteCommentFile, Deliver, DeliverError, Interrupted
  <1>10. CASE PrintReport
    BY <1>2, <1>10 DEF PrintReport
  <1>11. CASE CheckHead \/ PostComment
    BY <1>11 DEF CheckHead, PostComment
  <1>12. CASE UNCHANGED gateVars
    BY <1>12 DEF gateVars, vars
  <1> QED
    BY <1>1, <1>2, <1>3, <1>4, <1>5, <1>6, <1>7, <1>8, <1>9, <1>10, <1>11,
       <1>12 DEF GateNext

GateInv == SearchesInv /\ DecisionInv /\ IdleInv

(* The searches of a run, and what was made of their results.              *)
THEOREM GateInvariant == GateSpec => []GateInv
  <1>1. ASSUME GateInit PROVE GateInv
    <2>1. CASE VerdictInit /\ stage = "engine"
      <3>1. SearchesInv /\ DecisionInv
        BY <2>1, VerdictStarts DEF VerdictInv
      <3> QED BY <3>1, <2>1 DEF GateInv, IdleInv, Early
    <2>2. CASE StartWith(BuildGraph({})) /\ side = "idle" /\ decision = "none"
      BY <2>2, StartsRight DEF GateInv, IdleInv
    <2> QED BY <1>1, <2>1, <2>2 DEF GateInit
  <1>2. ASSUME GateInv, [GateNext]_gateVars PROVE GateInv'
    <2> USE <1>2 DEF GateInv
    <2>1. VerdictStep \/ (StartBefore /\ side = "idle") \/ UNCHANGED vars
      BY GateDecides DEF StartBefore, IdleInv, Early
    <2>2. SearchesInv' /\ DecisionInv'
      BY <2>1, SearchesGoOn, DecisionGoesOn
    <2>3. IdleInv'
      BY EarlyStages
    <2> QED BY <2>2, <2>3
  <1> QED BY <1>1, <1>2, PTL DEF GateSpec

(* Every path a run or the engine ever reports is a simple path of the     *)
(* graph from the Internet to a target.                                    *)
THEOREM GatePathsReal == GateSpec => []PathsAreReal
  <1>1. GateInv => PathsAreReal
    BY RealPaths DEF GateInv, SearchesInv
  <1> QED BY <1>1, GateInvariant, PTL

(* A result that is not marked truncated has every simple path to every    *)
(* target, and a target without a path is out of the depth.                *)
THEOREM GateBudgetsHonest == GateSpec => []BudgetsAreHonest
  <1>1. GateInv => BudgetsAreHonest
    BY HonestBudgets DEF GateInv, SearchesInv
  <1> QED BY <1>1, GateInvariant, PTL

(* Verdict, alerts and decision agree, whatever the text, the parsers' gaps*)
(* and the policy that was found.                                          *)
THEOREM GateAgrees == GateSpec => []VerdictAgrees
  <1>1. GateInv => VerdictAgrees
    BY AgreeingVerdicts DEF GateInv
  <1> QED BY <1>1, GateInvariant, PTL

-----------------------------------------------------------------------------
(* What the files of a run say: between the decision and the end, each is  *)
(* either written or among those left to write.                            *)

AfterResult == Result(~Complete(configs["head"]))

Says(said) ==
    \A a \in Range(Deliverables) : files[a] = said

SaysOrLeft(said) ==
    /\ left \in Seq(Artifact) /\ left # <<>>
    /\ \A a \in Range(Deliverables) : files[a] = said \/ a \in Range(left)

ReportInv ==
    /\ stage \in {"report", "answer"} => diff = Compared(before, AfterResult)
    /\ stage = "answer" => Worker /\ decision = Decide(diff, policy)

WriteInv ==
    /\ stage = "comment file" => ~Worker /\ left = Deliverables
    /\ stage = "deliver" => ~Worker /\ SaysOrLeft(decision)
    /\ stage = "print" => ~Worker /\ Says(decision)
    /\ stage = "error" => ~Worker /\ SaysOrLeft("ERROR") /\ exit = 2

EndInv ==
    /\ stage \in {"ended", "publish"} =>
          /\ exit \in {0, 1} =>
                IF Worker THEN files["answer"] = decision ELSE Says(decision)
          /\ exit = 2 =>
                IF Worker THEN files["answer"] = "ERROR"
                ELSE left = <<>> => Says("ERROR")
    /\ stage = "publish" => W.form = "action" /\ exit \in {0, 1}

CommentInv ==
    comment = "nothing" \/ (stage = "published" /\ comment = decision)

TellInv ==
    DOMAIN files = Artifact /\ ReportInv /\ WriteInv /\ EndInv /\ CommentInv

LEMMA DeliverablesAre ==
    /\ Deliverables \in Seq(Artifact) /\ Deliverables # <<>>
    /\ Range(Deliverables) \subseteq Artifact \ {"answer"}
    /\ "report.md" \in Range(Deliverables)
    /\ Range(Deliverables) = {Deliverables[i] : i \in DOMAIN Deliverables}
  <1> DEFINE first == <<"report.md", "result.json">>
             both == first \o <<"output", "summary">>
  <1>1. /\ first \in Seq(Artifact) /\ Len(first) = 2
        /\ first[1] = "report.md" /\ first[2] = "result.json"
    BY DEF Artifact
  <1>2. <<"output", "summary">> \in Seq(Artifact)
    BY DEF Artifact
  <1>3. Deliverables = both \/ Deliverables = first
    <2>1. first \o <<>> = first
      OBVIOUS
    <2> HIDE DEF first
    <2> QED BY <2>1 DEF Deliverables, first
  <1>4. /\ both \in Seq(Artifact) /\ DOMAIN both = 1..4 /\ DOMAIN first = 1..2
        /\ both # <<>> /\ both[1] = "report.md"
        /\ \A i \in 1..4 : both[i] \in Artifact \ {"answer"}
    <2> DEFINE second == <<"output", "summary">>
    <2>1. /\ Len(second) = 2 /\ second[1] = "output" /\ second[2] = "summary"
      OBVIOUS
    <2>2. /\ both \in Seq(Artifact) /\ Len(both) = 2 + 2
          /\ \A i \in 1..(2 + 2) :
                both[i] = IF i <= 2 THEN first[i] ELSE second[i - 2]
      <3>1. both = first \o second /\ second \in Seq(Artifact)
        BY <1>2
      <3>2. first \in Seq(Artifact) /\ Len(first) = 2 /\ Len(second) = 2
        BY <1>1, <2>1
      <3> HIDE DEF first, second, both
      <3>3. /\ both \in Seq(Artifact) /\ Len(both) = Len(first) + Len(second)
            /\ \A i \in 1..(Len(first) + Len(second)) :
                  both[i] = IF i <= Len(first) THEN first[i]
                            ELSE second[i - Len(first)]
        BY <3>1, <3>2, ConcatProperties
      <3> QED BY <3>2, <3>3
    <2> HIDE DEF first, second, both
    <2>3. /\ both[1] = first[1] /\ both[2] = first[2]
          /\ both[3] = second[1] /\ both[4] = second[2]
      BY <2>2
    <2>4. /\ both[1] = "report.md" /\ both[2] = "result.json"
          /\ both[3] = "output" /\ both[4] = "summary"
      BY <1>1, <2>1, <2>3
    <2>5. DOMAIN first = 1..2 /\ DOMAIN both = 1..4
      BY <1>1, <2>2
    <2>6. \A i \in 1..4 : i \in {1, 2, 3, 4}
      OBVIOUS
    <2>7. both # <<>>
      <3>1. both # <<>> \/ Len(both) = 0
        OBVIOUS
      <3> QED BY <2>2, <3>1
    <2>8. \A i \in 1..4 : both[i] \in Artifact \ {"answer"}
      BY <2>4, <2>6 DEF Artifact
    <2> QED BY <2>2, <2>4, <2>5, <2>7, <2>8
  <1>6. /\ first # <<>> /\ first[1] = "report.md"
        /\ \A i \in 1..2 : first[i] \in Artifact \ {"answer"}
    BY <1>1 DEF Artifact
  <1>7. 1 \in DOMAIN both /\ 1 \in DOMAIN first
    BY <1>4
  <1> HIDE DEF first, both
  <1> QED BY <1>1, <1>3, <1>4, <1>6, <1>7 DEF Range

LEMMA RangeOfTail ==
    ASSUME NEW S, NEW s \in Seq(S), s # <<>>, NEW a \in Range(s),
           a # Head(s)
    PROVE  Tail(s) # <<>> /\ a \in Range(Tail(s))
  <1>1. PICK i \in DOMAIN s : s[i] = a
    BY DEF Range
  <1>2. /\ DOMAIN s = 1..Len(s) /\ Len(s) \in Nat \ {0} /\ Head(s) = s[1]
    OBVIOUS
  <1>3. /\ Tail(s) \in Seq(S) /\ Len(Tail(s)) = Len(s) - 1
        /\ \A j \in 1..Len(Tail(s)) : Tail(s)[j] = s[j + 1]
    BY HeadTailProperties
  <1>4. i \in 2..Len(s)
    BY <1>1, <1>2
  <1>5. i - 1 \in 1..(Len(s) - 1) /\ (i - 1) + 1 = i
    BY <1>2, <1>4
  <1>6. i - 1 \in 1..Len(Tail(s)) /\ Tail(s)[i - 1] = a
    BY <1>1, <1>3, <1>5
  <1>7. i - 1 \in DOMAIN Tail(s) /\ Tail(s) # <<>>
    BY <1>3, <1>6
  <1> QED BY <1>6, <1>7 DEF Range

LEMMA SameWorld ==
    ASSUME world' = world
    PROVE  /\ W' = W /\ Worker' = Worker /\ Deliverables' = Deliverables
  BY DEF W, Worker, Deliverables

LEMMA NoComment ==
    ASSUME TellInv, stage # "published" PROVE comment = "nothing"
  BY DEF TellInv, CommentInv

(* Nothing is told in the stages before the report and in those after the  *)
(* end that post no comment.                                               *)
Told == {"report", "answer", "comment file", "deliver", "print", "error",
         "ended", "publish"}

LEMMA QuietTells ==
    ASSUME TellInv, stage # "published", stage' \notin Told, files' = files,
           comment' = comment
    PROVE  TellInv'
  <1>1. comment' = "nothing"
    BY NoComment
  <1>2. DOMAIN files' = Artifact
    BY DEF TellInv
  <1>3. ReportInv' /\ WriteInv' /\ EndInv'
    BY DEF Told, ReportInv, WriteInv, EndInv
  <1> QED BY <1>1, <1>2, <1>3 DEF TellInv, CommentInv

(* What left begins anew with leaves nothing out.                          *)
LEMMA AllLeft ==
    ASSUME left' = Deliverables, world' = world, NEW said
    PROVE  SaysOrLeft(said)'
  <1>1. Deliverables' = Deliverables
    BY SameWorld
  <1> QED BY <1>1, DeliverablesAre DEF SaysOrLeft

LEMMA FailTells ==
    ASSUME TellInv, stage # "published", Fail
    PROVE  TellInv'
  <1>1. /\ world' = world /\ comment' = "nothing" /\ exit' = 2
    BY FailEnds, NoComment
  <1>2. Worker' = Worker
    BY <1>1, SameWorld
  <1>3. CommentInv'
    BY <1>1 DEF CommentInv
  <1>4. CASE Worker
    <2>1. stage' = "ended" /\ files' = [files EXCEPT !["answer"] = "ERROR"]
      BY <1>4, FailEnds
    <2>2. DOMAIN files' = Artifact /\ files'["answer"] = "ERROR"
      BY <2>1 DEF TellInv, Artifact
    <2>3. EndInv'
      BY <1>1, <1>2, <1>4, <2>1, <2>2 DEF EndInv
    <2>4. ReportInv' /\ WriteInv'
      BY <2>1 DEF ReportInv, WriteInv
    <2> QED BY <1>3, <2>2, <2>3, <2>4 DEF TellInv
  <1>5. CASE ~Worker
    <2>1. stage' = "error" /\ left' = Deliverables /\ files' = files
      BY <1>5, FailEnds
    <2>2. SaysOrLeft("ERROR")'
      BY <1>1, <2>1, AllLeft
    <2>3. WriteInv'
      BY <1>1, <1>2, <1>5, <2>1, <2>2 DEF WriteInv
    <2>4. ReportInv' /\ EndInv'
      BY <2>1 DEF ReportInv, EndInv
    <2> QED BY <1>3, <2>1, <2>3, <2>4 DEF TellInv
  <1> QED BY <1>4, <1>5

LEMMA InterruptedTells ==
    ASSUME TellInv, stage # "published", ~Worker, NEW a, Interrupted(a)
    PROVE  TellInv'
  <1>1. /\ world' = world /\ comment' = comment /\ exit' = 2
        /\ stage' = "error" /\ left' = Deliverables
        /\ files' = files \/ files' = [files EXCEPT ![a] = "partial"]
    BY DEF Interrupted, writeVars, NotWritten
  <1>2. DOMAIN files' = Artifact
    BY <1>1 DEF TellInv
  <1>3. SaysOrLeft("ERROR")' /\ ~Worker'
    BY <1>1, AllLeft, SameWorld
  <1>4. WriteInv' /\ ReportInv' /\ EndInv'
    BY <1>1, <1>3 DEF WriteInv, ReportInv, EndInv
  <1>5. CommentInv'
    BY <1>1, NoComment DEF CommentInv
  <1> QED BY <1>2, <1>4, <1>5 DEF TellInv

LEMMA CompareTells ==
    ASSUME TellInv, CompareSides
    PROVE  TellInv'
  <1>1. /\ stage = "search" /\ stage' = "report" /\ world' = world
        /\ diff' = Compared(before, AfterResult) /\ before' = before
        /\ UNCHANGED searchVars /\ configs' = configs
        /\ files' = files /\ comment' = comment
    BY DEF CompareSides, CompareWith, AfterResult, local
  <1>2. AfterResult' = AfterResult
    BY <1>1 DEF AfterResult, Result, searchVars, stackVars, resultVars,
                breadthVars
  <1>3. ReportInv'
    BY <1>1, <1>2 DEF ReportInv
  <1>4. WriteInv' /\ EndInv'
    BY <1>1 DEF WriteInv, EndInv
  <1>5. CommentInv'
    BY <1>1, NoComment DEF CommentInv
  <1> QED BY <1>1, <1>3, <1>4, <1>5 DEF TellInv

LEMMA ReportTells ==
    ASSUME TellInv, Report
    PROVE  TellInv'
  <1>1. stage = "report"
    BY DEF Report
  <1>2. CASE Fail
    BY <1>1, <1>2, FailTells
  <1>3. CASE ~Fail
    <2> DEFINE p == IF rules # <<>> THEN rules[1] ELSE Found(W.policy)
    <2>1. /\ DecideWith(p) /\ left' = IF Worker THEN <<>> ELSE Deliverables
          /\ UNCHANGED <<world, configs, exit, files, comment>>
      BY <1>3 DEF Report
    <2>2. /\ Worker => stage' = "answer"
          /\ ~Worker => stage' \in {"deliver", "comment file"}
      <3>1. stage' = CASE Worker -> "answer"
                       [] W.form = "action" -> "deliver"
                       [] OTHER -> "comment file"
        BY <1>3, Zenon DEF Report
      <3>2. Worker => W.form # "action"
        BY DEF Worker
      <3>3. CASE Worker
        BY <3>1, <3>2, <3>3, Zenon
      <3>4. CASE ~Worker /\ W.form = "action"
        <4>1. stage' = "deliver"
          BY <3>1, <3>4, Zenon
        <4> QED BY <4>1, <3>4
      <3>5. CASE ~Worker /\ W.form # "action"
        <4>1. stage' = "comment file"
          BY <3>1, <3>5, Zenon
        <4> QED BY <4>1, <3>5
      <3> QED BY <3>3, <3>4, <3>5
    <2> HIDE DEF p
    <2>3. /\ decision' = Decide(diff, p) /\ policy' = p /\ diff' = diff
          /\ before' = before /\ UNCHANGED searchVars
      BY <2>1 DEF DecideWith
    <2>4. AfterResult' = AfterResult
      BY <2>1, <2>3 DEF AfterResult, Result, searchVars, stackVars, resultVars,
                        breadthVars
    <2>5. diff' = Compared(before', AfterResult')
      BY <1>1, <2>3, <2>4 DEF TellInv, ReportInv
    <2>6. /\ world' = world /\ Worker' = Worker /\ Deliverables' = Deliverables
      BY <2>1, SameWorld
    <2>7. ReportInv'
      BY <2>2, <2>3, <2>5, <2>6 DEF ReportInv
    <2>8. WriteInv'
      <3>1. CASE Worker
        BY <2>2, <3>1 DEF WriteInv
      <3>2. CASE ~Worker
        <4>1. left' = Deliverables
          BY <2>1, <3>2
        <4>2. SaysOrLeft(decision)'
          BY <2>6, <4>1, DeliverablesAre DEF SaysOrLeft
        <4> QED BY <2>2, <2>6, <3>2, <4>1, <4>2 DEF WriteInv
      <3> QED BY <3>1, <3>2
    <2>9. EndInv'
      BY <2>2 DEF EndInv
    <2>10. CommentInv' /\ DOMAIN files' = Artifact
      BY <1>1, <2>1, NoComment DEF CommentInv, TellInv
    <2> QED BY <2>7, <2>8, <2>9, <2>10 DEF TellInv
  <1> QED BY <1>2, <1>3

(* The two processes agree on what a result may say.                       *)
LEMMA NeverRefused ==
    ASSUME TellInv, stage = "answer" PROVE ~ResultRefused
  <1>1. diff = Compared(before, AfterResult) /\ decision = Decide(diff, policy)
    BY DEF TellInv, ReportInv
  <1>2. /\ diff.complete = (before.complete /\ AfterResult.complete)
        /\ diff.scores = <<before.score, AfterResult.score>>
    BY <1>1, ComparedIs
  <1>3. AfterResult.complete => ~truncated
    BY DEF AfterResult, Result
  <1>4. decision = "SAFE" => diff.complete
    BY <1>1 DEF Decide
  <1> QED BY <1>2, <1>3, <1>4 DEF ResultRefused, AfterResult

LEMMA AnswerTells ==
    ASSUME TellInv, Answer
    PROVE  TellInv'
  <1>1. /\ stage = "answer" /\ stage' = "ended" /\ world' = world
        /\ decision' = decision /\ comment' = comment
    BY DEF Answer, vars, verdictVars
  <1>2. files' = [files EXCEPT !["answer"] = decision] /\ exit' = ExitCode
    BY <1>1, NeverRefused DEF Answer
  <1>3. exit' \in {0, 1}
    BY <1>2 DEF ExitCode
  <1>4. DOMAIN files' = Artifact /\ files'["answer"] = decision'
    BY <1>1, <1>2 DEF TellInv, Artifact
  <1>5. Worker'
    BY <1>1, SameWorld DEF TellInv, ReportInv
  <1>6. EndInv'
    BY <1>1, <1>3, <1>4, <1>5 DEF EndInv
  <1>7. ReportInv' /\ WriteInv'
    BY <1>1 DEF ReportInv, WriteInv
  <1>8. CommentInv'
    BY <1>1, NoComment DEF CommentInv
  <1> QED BY <1>4, <1>6, <1>7, <1>8 DEF TellInv

LEMMA WriteCommentFileTells ==
    ASSUME TellInv, WriteCommentFile
    PROVE  TellInv'
  <1>1. stage = "comment file" /\ ~Worker /\ left = Deliverables
    BY DEF WriteCommentFile, TellInv, WriteInv
  <1>2. CASE Interrupted("comment.md")
    BY <1>1, <1>2, InterruptedTells
  <1>3. CASE ~Interrupted("comment.md")
    <2>1. /\ stage' = "deliver" /\ left' = left /\ world' = world
          /\ comment' = comment /\ decision' = decision
          /\ \/ files' = [files EXCEPT !["comment.md"] = decision]
             \/ files' = files
      BY <1>3 DEF WriteCommentFile, Written, writeVars, vars, verdictVars
    <2>2. Worker' = Worker /\ Deliverables' = Deliverables /\ ~Worker'
      <3>1. Worker' = Worker /\ Deliverables' = Deliverables
        BY <2>1, SameWorld
      <3> QED BY <3>1, <1>1
    <2>3. left' = Deliverables
      BY <1>1, <2>1
    <2>4. SaysOrLeft(decision)'
      BY <2>2, <2>3, DeliverablesAre DEF SaysOrLeft
    <2>5. DOMAIN files' = Artifact
      BY <2>1 DEF TellInv
    <2>6. ReportInv' /\ WriteInv' /\ EndInv'
      BY <2>1, <2>2, <2>4 DEF ReportInv, WriteInv, EndInv
    <2>7. CommentInv'
      BY <1>1, <2>1, NoComment DEF CommentInv
    <2> QED BY <2>5, <2>6, <2>7 DEF TellInv
  <1> QED BY <1>2, <1>3

(* The first of what is left is written, the others are left.              *)
LEMMA WrittenOne ==
    ASSUME TellInv, NEW said, SaysOrLeft(said), Written(Head(left), said),
           NEW a \in Range(Deliverables)
    PROVE  \/ files'[a] = said
           \/ /\ Tail(left) \in Seq(Artifact) /\ Tail(left) # <<>>
              /\ a \in Range(Tail(left))
  <1>1. a \in DOMAIN files /\ DOMAIN files = Artifact
    BY DeliverablesAre DEF TellInv
  <1>2. files' = [files EXCEPT ![Head(left)] = said]
    BY DEF Written
  <1>3. CASE a = Head(left)
    BY <1>1, <1>2, <1>3
  <1>4. CASE a # Head(left) /\ files[a] = said
    BY <1>1, <1>2, <1>4
  <1>5. CASE a # Head(left) /\ a \in Range(left)
    <2>1. left \in Seq(Artifact) /\ left # <<>>
      BY DEF SaysOrLeft
    <2>2. Tail(left) # <<>> /\ a \in Range(Tail(left))
      BY <1>5, <2>1, RangeOfTail
    <2>3. Tail(left) \in Seq(Artifact)
      BY <2>1
    <2> QED BY <2>2, <2>3
  <1> QED BY <1>3, <1>4, <1>5 DEF SaysOrLeft

LEMMA DeliverTells ==
    ASSUME TellInv, Deliver
    PROVE  TellInv'
  <1>1. stage = "deliver" /\ ~Worker /\ SaysOrLeft(decision)
    BY DEF Deliver, TellInv, WriteInv
  <1>2. CASE Interrupted(Head(left))
    BY <1>1, <1>2, InterruptedTells
  <1>3. CASE ~Interrupted(Head(left))
    <2>1. /\ Written(Head(left), decision) /\ left' = Tail(left)
          /\ stage' = IF Tail(left) = <<>> THEN "print" ELSE "deliver"
          /\ world' = world /\ comment' = comment /\ decision' = decision
      BY <1>3 DEF Deliver, writeVars, vars, verdictVars
    <2>2. Worker' = Worker /\ Deliverables' = Deliverables
      BY <2>1, SameWorld
    <2>3. \A a \in Range(Deliverables)' :
             \/ files'[a] = decision'
             \/ Tail(left) # <<>> /\ a \in Range(left')
      BY <1>1, <2>1, <2>2, WrittenOne
    <2>4. left' \in Seq(Artifact)
      BY <1>1, <2>1 DEF SaysOrLeft
    <2>5. ASSUME Tail(left) = <<>> PROVE WriteInv'
      <3>1. Says(decision)' /\ stage' = "print" /\ ~Worker'
        BY <1>1, <2>1, <2>2, <2>3, <2>5 DEF Says
      <3> QED BY ONLY <3>1 DEF WriteInv
    <2>6. ASSUME Tail(left) # <<>> PROVE WriteInv'
      <3>1. SaysOrLeft(decision)' /\ stage' = "deliver" /\ ~Worker'
        BY <1>1, <2>1, <2>2, <2>3, <2>4, <2>6 DEF SaysOrLeft
      <3> QED BY ONLY <3>1 DEF WriteInv
    <2>7. stage' \in {"print", "deliver"}
      BY <2>1
    <2>8. ReportInv' /\ EndInv'
      BY <2>7 DEF ReportInv, EndInv
    <2>9. CommentInv' /\ DOMAIN files' = Artifact
      BY <1>1, <2>1, NoComment DEF CommentInv, Written, TellInv
    <2> QED BY <2>5, <2>6, <2>8, <2>9 DEF TellInv
  <1> QED BY <1>2, <1>3

LEMMA PrintReportTells ==
    ASSUME TellInv, PrintReport
    PROVE  TellInv'
  <1>1. stage = "print" /\ ~Worker /\ Says(decision)
    BY DEF PrintReport, TellInv, WriteInv
  <1>2. CASE Fail
    BY <1>1, <1>2, FailTells
  <1>3. CASE ~Fail
    <2>1. /\ exit' = ExitCode /\ stage' = "ended" /\ files' = files
          /\ world' = world /\ comment' = comment /\ decision' = decision
      BY <1>3 DEF PrintReport, writeVars, vars, verdictVars
    <2>2. exit' \in {0, 1}
      BY <2>1 DEF ExitCode
    <2>3. ~Worker' /\ Says(decision)'
      BY <1>1, <2>1, SameWorld DEF Says
    <2>4. EndInv'
      BY <2>1, <2>2, <2>3 DEF EndInv
    <2>5. ReportInv' /\ WriteInv'
      BY <2>1 DEF ReportInv, WriteInv
    <2>6. CommentInv' /\ DOMAIN files' = Artifact
      BY <1>1, <2>1, NoComment DEF CommentInv, TellInv
    <2> QED BY <2>4, <2>5, <2>6 DEF TellInv
  <1> QED BY <1>2, <1>3

LEMMA DeliverErrorTells ==
    ASSUME TellInv, DeliverError
    PROVE  TellInv'
  <1>1. stage = "error" /\ ~Worker /\ SaysOrLeft("ERROR") /\ exit = 2
    BY DEF DeliverError, TellInv, WriteInv
  <1>2. /\ world' = world /\ comment' = comment /\ exit' = 2
        /\ Worker' = Worker /\ Deliverables' = Deliverables
    BY <1>1, SameWorld DEF DeliverError, writeVars
  <1>3. CommentInv'
    BY <1>1, <1>2, NoComment DEF CommentInv
  <1>4. CASE /\ NotWritten(Head(left)) /\ left' = left /\ stage' = "ended"
    <2>1. left' # <<>>
      BY <1>1, <1>4 DEF SaysOrLeft
    <2>2. EndInv'
      BY <1>1, <1>2, <1>4, <2>1 DEF EndInv
    <2>3. ReportInv' /\ WriteInv' /\ DOMAIN files' = Artifact
      BY <1>4 DEF ReportInv, WriteInv, NotWritten, TellInv
    <2> QED BY <1>3, <2>2, <2>3 DEF TellInv
  <1>5. CASE /\ Written(Head(left), "ERROR") /\ left' = Tail(left)
             /\ stage' = IF Tail(left) = <<>> THEN "ended" ELSE "error"
    <2>1. \A a \in Range(Deliverables)' :
             \/ files'[a] = "ERROR"
             \/ Tail(left) # <<>> /\ a \in Range(left')
      BY <1>1, <1>2, <1>5, WrittenOne
    <2>2. left' \in Seq(Artifact)
      BY <1>1, <1>5 DEF SaysOrLeft
    <2>3. DOMAIN files' = Artifact
      BY <1>5 DEF Written, TellInv
    <2>4. CASE Tail(left) = <<>>
      <3>1. Says("ERROR")' /\ stage' = "ended"
        BY <1>5, <2>1, <2>4 DEF Says
      <3>2. EndInv'
        BY <1>1, <1>2, <3>1 DEF EndInv
      <3>3. ReportInv' /\ WriteInv'
        BY <3>1 DEF ReportInv, WriteInv
      <3> QED BY <1>3, <2>3, <3>2, <3>3 DEF TellInv
    <2>5. CASE Tail(left) # <<>>
      <3>1. SaysOrLeft("ERROR")' /\ stage' = "error"
        BY <1>5, <2>1, <2>2, <2>5 DEF SaysOrLeft
      <3>2. WriteInv'
        BY <1>1, <1>2, <3>1 DEF WriteInv
      <3>3. ReportInv' /\ EndInv'
        BY <3>1 DEF ReportInv, EndInv
      <3> QED BY <1>3, <2>3, <3>2, <3>3 DEF TellInv
    <2> QED BY <2>4, <2>5
  <1> QED BY <1>4, <1>5 DEF DeliverError

LEMMA CheckHeadTells ==
    ASSUME TellInv, CheckHead
    PROVE  TellInv'
  <1>1. /\ stage = "ended" /\ W.form = "action" /\ exit \in {0, 1}
        /\ stage' \in {"publish", "stale"}
        /\ UNCHANGED <<world, decision, exit, files, comment>>
    BY DEF CheckHead, local, vars, verdictVars
  <1>2. W' = W /\ ~Worker /\ ~Worker' /\ Deliverables' = Deliverables
    BY <1>1, SameWorld DEF Worker
  <1>3. Says(decision)'
    BY <1>1, <1>2 DEF TellInv, EndInv, Says
  <1>4. EndInv'
    BY <1>1, <1>2, <1>3 DEF EndInv
  <1>5. ReportInv' /\ WriteInv'
    BY <1>1 DEF ReportInv, WriteInv
  <1>6. CommentInv'
    BY <1>1, NoComment DEF CommentInv
  <1> QED BY <1>1, <1>4, <1>5, <1>6 DEF TellInv

LEMMA PostCommentTells ==
    ASSUME TellInv, PostComment
    PROVE  TellInv'
  <1>1. /\ stage = "publish" /\ stage' = "published"
        /\ comment' \in {comment, files["report.md"]}
        /\ decision' = decision /\ files' = files
    BY DEF PostComment, vars, verdictVars
  <1>2. W.form = "action" /\ exit \in {0, 1}
    BY <1>1 DEF TellInv, EndInv
  <1>3. Says(decision)
    BY <1>1, <1>2 DEF TellInv, EndInv, Worker
  <1>4. files["report.md"] = decision
    BY <1>3, DeliverablesAre DEF Says
  <1>5. CommentInv'
    BY <1>1, <1>4, NoComment DEF CommentInv
  <1>6. ReportInv' /\ WriteInv' /\ EndInv'
    BY <1>1 DEF ReportInv, WriteInv, EndInv
  <1> QED BY <1>1, <1>5, <1>6 DEF TellInv

LEMMA SameTells ==
    ASSUME TellInv,
           UNCHANGED <<vars, world, stage, configs, exit, left, files, comment>>
    PROVE  TellInv'
  <1>1. /\ W' = W /\ Worker' = Worker /\ Deliverables' = Deliverables
    BY SameWorld
  <1>2. /\ diff' = diff /\ before' = before /\ decision' = decision
        /\ policy' = policy /\ UNCHANGED searchVars
    BY DEF vars, verdictVars
  <1>3. AfterResult' = AfterResult
    BY <1>2 DEF AfterResult, Result, searchVars, stackVars, resultVars,
                breadthVars
  <1>4. ReportInv'
    BY <1>1, <1>2, <1>3 DEF TellInv, ReportInv
  <1>5. WriteInv'
    BY <1>1, <1>2 DEF TellInv, WriteInv, Says, SaysOrLeft
  <1>6. EndInv'
    BY <1>1, <1>2 DEF TellInv, EndInv, Says
  <1>7. CommentInv'
    BY <1>2 DEF TellInv, CommentInv
  <1> QED BY <1>4, <1>5, <1>6, <1>7 DEF TellInv

LEMMA TellingGoesOn ==
    ASSUME TellInv, [GateNext]_gateVars
    PROVE  TellInv'
  <1> USE DEF Told
  <1>1. CASE Engine
    <2>1. /\ stage = "engine" /\ stage' = "engine" /\ files' = files
          /\ comment' = comment
      BY <1>1 DEF Engine, local
    <2> QED BY <2>1, QuietTells
  <1>2. CASE Ask \/ SelectRoot \/ ReadBasePolicy \/ Parse
    <2>1. stage \in {"asked", "root", "rules", "parse"}
      BY <1>2 DEF Ask, SelectRoot, ReadBasePolicy, Parse
    <2>2. CASE Fail
      BY <2>1, <2>2, FailTells
    <2>3. CASE ~Fail
      <3>1. /\ stage' \in {"base ref", "base files", "parse", "build"}
            /\ files' = files /\ comment' = comment
        BY <1>2, <2>3 DEF Ask, SelectRoot, ReadBasePolicy, Parse, Go
      <3> QED BY <2>1, <3>1, QuietTells
    <2> QED BY <2>2, <2>3
  <1>3. ASSUME NEW s \in End, PinRef(s) \/ Materialize(s)
        PROVE  TellInv'
    <2>1. stage \in {"base ref", "head ref", "base files", "head files"}
      BY <1>3 DEF PinRef, Materialize
    <2>2. CASE Fail
      BY <2>1, <2>2, FailTells
    <2>3. CASE ~Fail
      <3>1. /\ stage' \in {"head ref", "root", "head files", "rules"}
            /\ files' = files /\ comment' = comment
        BY <1>3, <2>3 DEF PinRef, Materialize, Go
      <3> QED BY <2>1, <3>1, QuietTells
    <2> QED BY <2>2, <2>3
  <1>4. CASE MoveRef
    BY <1>4, SameTells DEF MoveRef
  <1>5. CASE Build
    <2>1. stage = "build"
      BY <1>5 DEF Build
    <2>2. CASE Fail
      BY <2>1, <2>2, FailTells
    <2>3. CASE ~Fail
      <3>1. stage' = "search" /\ files' = files /\ comment' = comment
        BY <1>5, <2>3 DEF Build, local
      <3> QED BY <2>1, <3>1, QuietTells
    <2> QED BY <2>2, <2>3
  <1>6. CASE Analyze
    <2>1. /\ stage = "search" /\ stage' = "search" /\ files' = files
          /\ comment' = comment
      BY <1>6 DEF Analyze, local
    <2> QED BY <2>1, QuietTells
  <1>7. CASE UNCHANGED gateVars
    BY <1>7, SameTells DEF gateVars, local
  <1> QED
    BY <1>1, <1>2, <1>3, <1>4, <1>5, <1>6, <1>7, CompareTells, ReportTells,
       AnswerTells, WriteCommentFileTells, DeliverTells, PrintReportTells,
       DeliverErrorTells, CheckHeadTells, PostCommentTells
    DEF GateNext

(* From the decision of a run (cli.py, _report()) to its end, each file of *)
(* write_delivery() says what the run has to say, or is still to be        *)
(* written; the comment that is posted is the decision.                    *)
THEOREM TellingInvariant == GateSpec => []TellInv
  <1>1. ASSUME GateInit PROVE TellInv
    <2>1. /\ stage \in {"engine", "asked"} /\ comment = "nothing"
          /\ files = [a \in Artifact |-> "nothing"]
      BY <1>1 DEF GateInit, LocalInit
    <2>2. ReportInv /\ WriteInv /\ EndInv /\ CommentInv
      BY <2>1 DEF ReportInv, WriteInv, EndInv, CommentInv
    <2> QED BY <2>1, <2>2 DEF TellInv
  <1>2. TellInv /\ [GateNext]_gateVars => TellInv'
    BY TellingGoesOn
  <1> QED BY <1>1, <1>2, PTL DEF GateSpec

(* The files of a run say what its exit code says: the decision after exit *)
(* code 0 or 1, and after a failure that could be written down nothing but *)
(* the error; a comment is the decision; and the process that reads the    *)
(* answer of a worker never refuses it.                                    *)
THEOREM LastWord == GateSpec => []LastWordHolds
  <1>1. ASSUME TellInv PROVE LastWordHolds
    <2> USE <1>1 DEF TellInv
    <2>1. comment \in {"nothing", decision}
      BY DEF CommentInv
    <2>2. ASSUME NEW said, Says(said)
          PROVE  {files[Deliverables[i]] : i \in DOMAIN Deliverables} = {said}
      <3>1. \A i \in DOMAIN Deliverables : files[Deliverables[i]] = said
        BY <2>2, DeliverablesAre DEF Says
      <3>2. DOMAIN Deliverables # {}
        BY DeliverablesAre
      <3> QED BY <3>1, <3>2
    <2>3. CASE Worker
      BY <2>1, <2>3 DEF LastWordHolds, EndInv
    <2>4. CASE ~Worker
      BY <2>1, <2>2, <2>4 DEF LastWordHolds, EndInv
    <2> QED BY <2>3, <2>4
  <1> QED BY <1>1, TellingInvariant, PTL

-----------------------------------------------------------------------------
(* What a run is about.  The engine alone has no world; every other run has*)
(* one of those it may be given.                                           *)

WorldInv ==
    IF stage = "engine" THEN world = <<>> ELSE \E w \in Worlds : world = <<w>>

(* Nothing has been read of a repository yet.                              *)
Unread == {"asked", "base ref", "head ref", "root"}
Reading == {"base files", "head files", "rules"}

(* The trusted side: the base is never the head commit, and the root and   *)
(* the rules come from nowhere else.                                       *)
TrustInv ==
    /\ refs \in [End -> Commit] /\ refs["base"] # "head"
    /\ pinned \in [End -> Commit] /\ pinned["base"] # "head"
    /\ stage \in (Unread \cup Reading) \ {"asked"} => Git
    /\ stage \in Unread => root = "infra"
    /\ root = "other" => Git /\ TrustedDir = <<"other">>
    /\ rules \in {<<>>, <<TrustedRules>>}
    /\ stage \in Unread /\ W.given = <<>> => rules = <<>>
    /\ stage \in (Unread \ {"asked"}) \cup Reading /\ W.given # <<>> =>
          rules # <<>>
    /\ stage \in {"parse", "build", "search", "report"}
          /\ (Git \/ W.given # <<>>) => rules # <<>>

(* What the two sides are parsed from.                                     *)
Seen(s) == IF Git THEN Snapshotted(pinned[s]) ELSE Given(s)

Parsed == {"build", "search", "report", "answer", "comment file", "deliver",
            "print"}

InputInv ==
    /\ DOMAIN input = End
    /\ stage = "head files" => input["base"] = Seen("base")
    /\ stage \in {"rules", "parse"} \/ configs # <<>> =>
          \A s \in End : input[s] = Seen(s)
    /\ configs # <<>> => configs = [s \in End |-> Config(s)]
    /\ stage \in Unread \cup Reading \cup {"parse"} => configs = <<>>
    /\ stage \in Parsed => configs # <<>>

(* Which configurations the two results are about, and the policy that     *)
(* decided.                                                                *)
SidesInv ==
    /\ side = "idle" => graph.findings = {}
    /\ side # "idle" => configs # <<>>
    /\ side = "before" => graph.findings = Findings(configs["base"])
    /\ side \in {"after", "compared", "decided"} =>
          /\ graph.findings = Findings(configs["head"])
          /\ before.graph.findings = Findings(configs["base"])
          /\ before.complete => Complete(configs["base"])
    /\ side \in {"compared", "decided"} => diff = Compared(before, AfterResult)
    /\ side = "decided" => policy = TrustedRules
    /\ decision # "none" <=> side = "decided"

StageInv ==
    /\ side \in Side
    /\ stage \in Early => side = "idle"
    /\ stage = "search" => side \in {"before", "after"}
    /\ stage = "report" => side = "compared"
    /\ stage \in {"answer", "comment file", "deliver", "print"} =>
          side = "decided"
    /\ exit \in {0, 1} =>
          /\ side = "decided" /\ exit = ExitCode
          /\ stage \in {"ended", "publish", "stale", "published"}

RunInv ==
    /\ WorldInv
    /\ stage # "engine" => TrustInv /\ InputInv /\ SidesInv /\ StageInv

LEMMA SameTrust ==
    ASSUME world' = world, pinned'["base"] = pinned["base"]
    PROVE  TrustedRules' = TrustedRules /\ TrustedDir' = TrustedDir
  <1>1. PolicyIn(pinned["base"])' = PolicyIn(pinned["base"])
    BY DEF PolicyIn, W
  <1> QED BY <1>1 DEF TrustedRules, TrustedDir, W, Git

LEMMA SameSeen ==
    ASSUME world' = world, pinned' = pinned, root' = root
    PROVE  \A s : Seen(s)' = Seen(s)
  BY DEF Seen, Snapshotted, Files, Roots, Truth, Given, W, Git, FromPlan

LEMMA SameConfig ==
    ASSUME world' = world, input' = input
    PROVE  \A s : Config(s)' = Config(s)
  BY DEF Config, W, FromPlan

(* The steps that decide what is compared, and the others: these go on with*)
(* it.                                                                     *)
Onward ==
    \/ Fail \/ MoveRef \/ Build \/ Analyze \/ CompareSides \/ Report \/ Answer
    \/ WriteCommentFile \/ Deliver \/ PrintReport \/ DeliverError
    \/ CheckHead \/ PostComment \/ UNCHANGED gateVars

Chosen ==
    \/ Ask \/ SelectRoot \/ ReadBasePolicy \/ Parse
    \/ \E s \in End : PinRef(s) \/ Materialize(s)

LEMMA StepsAre ==
    ASSUME [GateNext]_gateVars PROVE Engine \/ Chosen \/ Onward
  BY DEF GateNext, Chosen, Onward

(* What comes after what.                                                  *)
Follows ==
    \/ stage' = stage
    \/ stage = "build" /\ stage' = "search"
    \/ stage = "search" /\ stage' = "report"
    \/ stage = "report" /\ stage' \in {"answer", "deliver", "comment file"}
    \/ stage = "comment file" /\ stage' = "deliver"
    \/ stage = "deliver" /\ stage' = "print"
    \/ stage' \in {"error", "ended", "publish", "stale", "published"}

LEMMA OnwardKeeps ==
    ASSUME Onward, stage # "engine"
    PROVE  /\ UNCHANGED <<world, pinned, input, configs, root, rules>>
           /\ Follows
           /\ refs' # refs => MoveRef
  <1>1. CASE Fail
    BY <1>1 DEF Fail, Follows
  <1>2. CASE MoveRef
    BY <1>2 DEF MoveRef, Follows
  <1>3. CASE Build
    BY <1>1, <1>3 DEF Build, Follows, local
  <1>4. CASE Analyze \/ CompareSides
    BY <1>4 DEF Analyze, CompareSides, Follows, local
  <1>5. CASE Report /\ ~Fail
    <2>1. /\ UNCHANGED <<world, refs, pinned, input, configs, root, rules>>
          /\ stage = "report"
          /\ stage' \in {"answer", "deliver", "comment file"}
      BY <1>5, Zenon DEF Report
    <2> QED BY <2>1 DEF Follows
  <1>6. CASE Answer
    BY <1>6 DEF Answer, Follows
  <1>7. CASE WriteCommentFile \/ Deliver \/ DeliverError
    BY <1>7 DEF WriteCommentFile, Deliver, DeliverError, Interrupted, Follows,
                writeVars
  <1>8. CASE PrintReport
    BY <1>1, <1>8 DEF PrintReport, Follows, writeVars
  <1>9. CASE CheckHead \/ PostComment
    BY <1>9 DEF CheckHead, PostComment, Follows, local
  <1>10. CASE UNCHANGED gateVars
    BY <1>10 DEF gateVars, local, Follows
  <1> QED
    BY <1>1, <1>2, <1>3, <1>4, <1>5, <1>6, <1>7, <1>8, <1>9, <1>10 DEF Onward

LEMMA WorldStays ==
    ASSUME WorldInv, [GateNext]_gateVars
    PROVE  /\ WorldInv' /\ world' = world
           /\ stage = "engine" <=> stage' = "engine"
           /\ stage = "engine" => ~Chosen /\ (Engine \/ UNCHANGED gateVars)
  <1>1. CASE stage = "engine"
    <2>1. ~Chosen
      BY <1>1 DEF Chosen, Ask, SelectRoot, ReadBasePolicy, Parse, PinRef,
                  Materialize
    <2>2. Engine \/ UNCHANGED gateVars
      BY <1>1, <2>1 DEF GateNext, Chosen, MoveRef, Build, Analyze,
         CompareSides, Report, Answer, WriteCommentFile, Deliver, PrintReport,
         DeliverError, CheckHead, PostComment
    <2>3. stage' = stage /\ world' = world
      BY <2>2 DEF Engine, gateVars
    <2> QED BY <1>1, <2>1, <2>2, <2>3 DEF WorldInv
  <1>2. CASE stage # "engine"
    <2>1. Chosen \/ Onward
      BY <1>2, StepsAre DEF Engine
    <2>2. CASE Onward
      BY <1>2, <2>2, OnwardKeeps DEF Follows, WorldInv
    <2>3. CASE Chosen /\ ~Onward
      <3>1. world' = world /\ stage' # "engine"
        BY <2>3 DEF Chosen, Onward, Ask, SelectRoot, ReadBasePolicy, Parse,
                    PinRef, Materialize, Go
      <3> QED BY <3>1, <1>2 DEF WorldInv
    <2> QED BY <2>1, <2>2, <2>3
  <1> QED BY <1>1, <1>2

LEMMA BaseHasRoot ==
    ASSUME TrustInv
    PROVE  "infra" \in Roots(pinned["base"]) \cup Roots(pinned["head"])
  BY DEF TrustInv, Roots

(* The only root of the candidates is the plain one.                       *)
LEMMA OnlyRoot ==
    ASSUME NEW S, S \subseteq {"infra", "other"}, "infra" \in S,
           Cardinality(S) = 1
    PROVE  S = {"infra"}
  <1>1. IsFiniteSet(S)
    <2>1. IsFiniteSet({"infra"} \cup {"other"})
      BY FS_Singleton, FS_AddElement
    <2>2. S \subseteq {"infra"} \cup {"other"}
      OBVIOUS
    <2> QED BY <2>1, <2>2, FS_Subset
  <1>2. PICK x : S = {x}
    BY <1>1, FS_Singleton
  <1> QED BY <1>2

LEMMA RangeOfOne ==
    ASSUME NEW x PROVE Range(<<x>>) = {x}
  <1>1. DOMAIN <<x>> = {1} /\ <<x>>[1] = x
    OBVIOUS
  <1> QED BY <1>1 DEF Range

LEMMA DirIsOne ==
    ASSUME WorldInv, stage # "engine", TrustedDir # <<>>
    PROVE  \E name : TrustedDir = <<name>>
  <1>1. PICK w \in Worlds : W = w
    BY DEF WorldInv, W
  <1>2. W.dir # <<>> => \E name : W.dir = <<name>>
    BY <1>1, WorldAssumption
  <1>3. \A file : DirOf(file) # <<>> => \E name : DirOf(file) = <<name>>
    BY DEF DirOf
  <1> QED BY <1>2, <1>3 DEF TrustedDir

LEMMA RulesAreTrusted ==
    ASSUME WorldInv, TrustInv, Ask, ~Fail
    PROVE  rules' \in {<<>>, <<TrustedRules'>>} /\ (W.given = <<>> <=> rules' = <<>>)
           /\ W' = W
  <1>1. world' = world /\ rules' = IF W.given = <<>> THEN <<>> ELSE <<Load(W.given[1])>>
    BY DEF Ask, Go
  <1> QED BY <1>1 DEF TrustedRules, W

LEMMA TrustGoesOn ==
    ASSUME WorldInv, TrustInv, stage # "engine", [GateNext]_gateVars
    PROVE  TrustInv'
  <1>1. world' = world /\ W' = W /\ Git' = Git
    BY WorldStays DEF W, Git
  <1>2. CASE Onward
    <2>1. /\ UNCHANGED <<world, pinned, input, configs, root, rules>>
          /\ Follows /\ (refs' # refs => MoveRef)
      BY <1>2, OnwardKeeps
    <2>2. TrustedRules' = TrustedRules /\ TrustedDir' = TrustedDir
      BY <2>1, SameTrust
    <2>3. refs' \in [End -> Commit] /\ refs'["base"] # "head"
      BY <2>1 DEF TrustInv, MoveRef, Commit, End
    <2>4. \/ stage' = stage
          \/ stage' \notin Unread \cup Reading \cup {"parse", "build"}
      BY <2>1 DEF Follows, Unread, Reading
    <2>5. stage' \in {"parse", "build", "search", "report"} =>
             stage \in {"parse", "build", "search", "report"}
      BY <2>1 DEF Follows
    <2> QED BY <1>1, <2>1, <2>2, <2>3, <2>4, <2>5 DEF TrustInv
  <1>3. CASE Ask /\ ~Onward
    <2>1. /\ refs' = refs /\ pinned' = pinned /\ root' = root
          /\ stage = "asked"
          /\ stage' = IF Git THEN "base ref" ELSE "parse"
      BY <1>3 DEF Ask, Go, Onward
    <2>2. /\ rules' \in {<<>>, <<TrustedRules'>>}
          /\ W.given = <<>> <=> rules' = <<>>
      BY <1>3, RulesAreTrusted DEF Onward
    <2>3. root' = "infra"
      BY <2>1 DEF TrustInv, Unread
    <2> QED BY <1>1, <2>1, <2>2, <2>3 DEF TrustInv, Unread, Reading
  <1>4. ASSUME NEW s \in End, PinRef(s), ~Onward PROVE TrustInv'
    <2>1. /\ refs' = refs /\ root' = root /\ rules' = rules
          /\ stage = IF s = "base" THEN "base ref" ELSE "head ref"
          /\ stage' = IF s = "base" THEN "head ref" ELSE "root"
          /\ pinned' = [pinned EXCEPT ![s] =
                           IF W.form = "action" THEN s ELSE refs[s]]
      BY <1>4 DEF PinRef, Go, Onward
    <2>2. pinned' \in [End -> Commit] /\ pinned'["base"] # "head"
      BY <2>1 DEF TrustInv, End, Commit
    <2>3. root' = "infra" /\ Git
      BY <2>1 DEF TrustInv, Unread, Reading
    <2>4. rules' \in {<<>>, <<TrustedRules'>>}
      <3>1. CASE W.given = <<>>
        BY <2>1, <3>1 DEF TrustInv, Unread
      <3>2. CASE W.given # <<>>
        <4>1. TrustedRules' = TrustedRules
          BY <1>1, <3>2 DEF TrustedRules
        <4> QED BY <4>1, <2>1 DEF TrustInv
      <3> QED BY <3>1, <3>2
    <2> QED BY <1>1, <2>1, <2>2, <2>3, <2>4 DEF TrustInv, Unread, Reading
  <1>5. CASE SelectRoot /\ ~Onward
    <2> DEFINE candidates == Roots(pinned["base"]) \cup Roots(pinned["head"])
    <2>1. /\ refs' = refs /\ rules' = rules /\ pinned' = pinned
          /\ stage = "root" /\ stage' = "base files"
          /\ TrustedDir # <<>> \/ Cardinality(candidates) = 1
          /\ root' \in IF TrustedDir # <<>> THEN Range(TrustedDir)
                       ELSE candidates
      BY <1>5 DEF SelectRoot, Go, Onward
    <2>2. TrustedRules' = TrustedRules /\ TrustedDir' = TrustedDir
      BY <1>1, <2>1, SameTrust
    <2>3. ASSUME root' = "other" PROVE TrustedDir = <<"other">>
      <3>1. CASE TrustedDir = <<>>
        <4>1. candidates \subseteq {"infra", "other"} /\ "infra" \in candidates
          BY BaseHasRoot DEF Roots
        <4>2. root' \in candidates /\ Cardinality(candidates) = 1
          BY <2>1, <3>1
        <4> HIDE DEF candidates
        <4> QED BY <4>1, <4>2, <2>3, OnlyRoot
      <3>2. CASE TrustedDir # <<>>
        <4>1. PICK name : TrustedDir = <<name>>
          BY <3>2, DirIsOne
        <4>2. Range(TrustedDir) = {name}
          BY <4>1, RangeOfOne
        <4> QED BY <2>1, <2>3, <3>2, <4>1, <4>2
      <3> QED BY <3>1, <3>2
    <2>4. Git
      BY <2>1 DEF TrustInv, Unread
    <2> QED BY <1>1, <2>1, <2>2, <2>3, <2>4 DEF TrustInv, Unread, Reading
  <1>6. ASSUME NEW s \in End, Materialize(s), ~Onward PROVE TrustInv'
    <2>1. /\ refs' = refs /\ rules' = rules /\ pinned' = pinned
          /\ root' = root
          /\ stage = IF s = "base" THEN "base files" ELSE "head files"
          /\ stage' = IF s = "base" THEN "head files" ELSE "rules"
      BY <1>6 DEF Materialize, Go, Onward
    <2>2. TrustedRules' = TrustedRules /\ TrustedDir' = TrustedDir
      BY <1>1, <2>1, SameTrust
    <2> QED BY <1>1, <2>1, <2>2 DEF TrustInv, Unread, Reading
  <1>7. CASE ReadBasePolicy /\ ~Onward
    <2>1. /\ refs' = refs /\ pinned' = pinned /\ root' = root
          /\ stage = "rules" /\ stage' = "parse"
          /\ rules' = IF rules # <<>> THEN rules
                      ELSE <<Found(PolicyIn(pinned["base"]))>>
      BY <1>7 DEF ReadBasePolicy, Go, Onward
    <2>2. TrustedRules' = TrustedRules /\ TrustedDir' = TrustedDir
      BY <1>1, <2>1, SameTrust
    <2>3. Git /\ (W.given # <<>> => rules # <<>>)
      BY <2>1 DEF TrustInv, Unread, Reading
    <2>4. rules' = <<TrustedRules>>
      BY <2>1, <2>3 DEF TrustInv, TrustedRules
    <2> QED BY <1>1, <2>1, <2>2, <2>4 DEF TrustInv, Unread, Reading
  <1>8. CASE Parse /\ ~Onward
    <2>1. /\ refs' = refs /\ pinned' = pinned /\ root' = root
          /\ rules' = rules /\ stage = "parse" /\ stage' = "build"
      BY <1>8 DEF Parse, Go, Onward
    <2>2. TrustedRules' = TrustedRules /\ TrustedDir' = TrustedDir
      BY <1>1, <2>1, SameTrust
    <2> QED BY <1>1, <2>1, <2>2 DEF TrustInv, Unread, Reading
  <1> QED
    BY <1>2, <1>3, <1>4, <1>5, <1>6, <1>7, <1>8, StepsAre DEF Chosen, Engine

LEMMA InputGoesOn ==
    ASSUME WorldInv, TrustInv, InputInv, stage # "engine",
           [GateNext]_gateVars
    PROVE  InputInv'
  <1>1. world' = world /\ W' = W /\ Git' = Git
    BY WorldStays DEF W, Git
  <1> DEFINE parsed == [s \in End |-> Config(s)]
  <1>2. ASSUME UNCHANGED <<world, pinned, root, input>>
        PROVE  parsed' = parsed /\ \A s : Seen(s)' = Seen(s)
    BY <1>2, SameSeen, SameConfig
  <1>3. parsed # <<>>
    <2>1. DOMAIN parsed = End /\ "base" \in End
      BY DEF End
    <2>2. "base" \notin DOMAIN <<>>
      OBVIOUS
    <2> HIDE DEF parsed
    <2> QED BY <2>1, <2>2
  <1> HIDE DEF parsed
  <1>4. CASE Onward
    <2>1. /\ UNCHANGED <<world, pinned, input, configs, root, rules>>
          /\ Follows
      BY <1>4, OnwardKeeps
    <2>2. \/ stage' = stage
          \/ stage' \notin Unread \cup Reading \cup {"parse", "build"}
      BY <2>1 DEF Follows, Unread, Reading
    <2>3. stage' \in Parsed => stage \in Parsed
      BY <2>1 DEF Follows, Parsed
    <2>4. /\ DOMAIN input' = End
          /\ stage' = "head files" => input'["base"] = Seen("base")'
      BY <1>2, <2>1, <2>2 DEF InputInv, Reading
    <2>5. stage' \in {"rules", "parse"} \/ configs' # <<>> =>
             \A s \in End : input'[s] = Seen(s)'
      BY <1>2, <2>1, <2>2 DEF InputInv, Reading
    <2>6. configs' # <<>> => configs' = parsed'
      BY <1>2, <2>1 DEF InputInv, parsed
    <2>7. /\ stage' \in Unread \cup Reading \cup {"parse"} => configs' = <<>>
          /\ stage' \in Parsed => configs' # <<>>
      BY <2>1, <2>2, <2>3 DEF InputInv
    <2> QED BY <2>4, <2>5, <2>6, <2>7 DEF InputInv, parsed
  <1>5. CASE Ask /\ ~Onward
    <2>1. /\ input' = IF Git THEN input ELSE [s \in End |-> Given(s)]
          /\ configs' = configs /\ pinned' = pinned /\ root' = root
          /\ stage = "asked"
          /\ stage' = IF Git THEN "base ref" ELSE "parse"
      BY <1>5 DEF Ask, Go, Onward
    <2>2. configs' = <<>>
      BY <2>1 DEF InputInv, Unread
    <2>3. CASE Git
      BY <2>1, <2>2, <2>3 DEF InputInv, Unread, Reading, Parsed
    <2>4. CASE ~Git
      <3>1. /\ input' = [s \in End |-> Given(s)] /\ stage' = "parse"
            /\ \A s : Seen(s)' = Seen(s)
        BY <1>1, <2>1, <2>4, SameSeen
      <3>2. \A s \in End : input'[s] = Seen(s)'
        BY <3>1, <2>4 DEF Seen
      <3> QED BY <2>2, <3>1, <3>2 DEF InputInv, Parsed
    <2> QED BY <2>3, <2>4
  <1>6. ASSUME ~Onward, SelectRoot \/ \E s \in End : PinRef(s)
        PROVE  InputInv'
    <2>1. /\ input' = input /\ configs' = configs
          /\ stage \in Unread /\ stage' \in {"head ref", "root", "base files"}
      BY <1>6 DEF SelectRoot, PinRef, Go, Onward, Unread
    <2>2. configs' = <<>>
      BY <2>1 DEF InputInv
    <2> QED BY <2>1, <2>2 DEF InputInv, Parsed
  <1>7. ASSUME NEW s \in End, Materialize(s), ~Onward
        PROVE  InputInv'
    <2>1. /\ input' = [input EXCEPT ![s] = Snapshotted(pinned[s])]
          /\ configs' = configs /\ pinned' = pinned /\ root' = root
          /\ stage = IF s = "base" THEN "base files" ELSE "head files"
          /\ stage' = IF s = "base" THEN "head files" ELSE "rules"
      BY <1>7 DEF Materialize, Go, Onward
    <2>2. Git /\ configs' = <<>> /\ \A e : Seen(e)' = Seen(e)
      BY <1>1, <2>1, SameSeen DEF TrustInv, InputInv, Reading, Unread
    <2>3. /\ DOMAIN input' = End /\ input'[s] = Seen(s)'
          /\ \A e \in End : e # s => input'[e] = input[e]
      BY <2>1, <2>2 DEF InputInv, Seen
    <2>4. CASE s = "base"
      BY <2>1, <2>2, <2>3, <2>4 DEF InputInv, Parsed
    <2>5. CASE s # "base"
      <3>1. s = "head" /\ stage = "head files" /\ stage' = "rules"
        BY <2>1, <2>5 DEF End
      <3>2. input'["base"] = Seen("base")'
        BY <3>1, <2>2, <2>3 DEF InputInv, End
      <3>3. \A e \in End : input'[e] = Seen(e)'
        BY <3>1, <3>2, <2>3 DEF End
      <3> QED BY <3>1, <3>3, <2>2, <2>3 DEF InputInv, Parsed
    <2> QED BY <2>4, <2>5
  <1>8. CASE ReadBasePolicy /\ ~Onward
    <2>1. /\ input' = input /\ configs' = configs /\ pinned' = pinned
          /\ root' = root /\ stage = "rules" /\ stage' = "parse"
      BY <1>8 DEF ReadBasePolicy, Go, Onward
    <2>2. configs' = <<>> /\ \A e : Seen(e)' = Seen(e)
      BY <1>1, <2>1, SameSeen DEF InputInv, Reading
    <2> QED BY <2>1, <2>2 DEF InputInv, Parsed
  <1>9. CASE Parse /\ ~Onward
    <2>1. /\ input' = input /\ configs' = parsed /\ pinned' = pinned
          /\ root' = root /\ stage = "parse" /\ stage' = "build"
      BY <1>9 DEF Parse, Go, Onward, parsed
    <2>2. parsed' = parsed /\ \A e : Seen(e)' = Seen(e)
      BY <1>1, <1>2, <2>1
    <2>3. \A s \in End : input'[s] = Seen(s)'
      BY <2>1, <2>2 DEF InputInv
    <2> QED BY <1>3, <2>1, <2>2, <2>3
            DEF InputInv, Unread, Reading, Parsed, parsed
  <1> QED
    BY <1>4, <1>5, <1>6, <1>7, <1>8, <1>9, StepsAre DEF Chosen, Engine

-----------------------------------------------------------------------------
(* The two sides.                                                          *)

LEMMA SameAfter ==
    ASSUME UNCHANGED <<searchVars, configs>>
    PROVE  AfterResult' = AfterResult
  BY SameResult DEF AfterResult

(* Everything but the analysis itself leaves the sides as they are.        *)
LEMMA SidesStay ==
    ASSUME SidesInv, UNCHANGED vars, UNCHANGED <<world, configs>>,
           side = "decided" => TrustedRules' = TrustedRules
    PROVE  SidesInv'
  <1>1. /\ UNCHANGED searchVars /\ side' = side /\ before' = before
        /\ diff' = diff /\ policy' = policy /\ decision' = decision
    BY DEF vars, verdictVars
  <1>2. graph' = graph /\ AfterResult' = AfterResult
    BY <1>1, SameAfter, SameResult
  <1> QED BY <1>1, <1>2 DEF SidesInv

LEMMA SidesGoOn ==
    ASSUME WorldInv, TrustInv, InputInv, SidesInv, StageInv, SearchesInv,
           DecisionInv, stage # "engine", [GateNext]_gateVars
    PROVE  SidesInv'
  <1>1. world' = world /\ W' = W /\ Git' = Git
    BY WorldStays DEF W, Git
  <1>2. CASE Chosen /\ ~Onward
    <2>1. UNCHANGED vars /\ stage \in Early
      BY <1>2 DEF Chosen, Onward, Ask, SelectRoot, ReadBasePolicy, Parse,
                  PinRef, Materialize, Go, Early
    <2>2. /\ side = "idle" /\ side' = "idle" /\ graph' = graph
          /\ decision' = decision
      BY <2>1, SameResult DEF StageInv, vars, verdictVars
    <2> QED BY <2>2 DEF SidesInv
  <1>3. CASE Onward
    <2>1. /\ UNCHANGED <<world, pinned, input, configs, root, rules>>
      BY <1>3, OnwardKeeps
    <2>2. TrustedRules' = TrustedRules
      BY <2>1, SameTrust
    <2>3. CASE UNCHANGED vars
      BY <2>1, <2>2, <2>3, SidesStay
    <2>4. CASE Build /\ ~Fail
      <3>1. /\ Restart(BuildGraph(Findings(configs["base"])))
            /\ side' = "before" /\ UNCHANGED verdictVars /\ stage = "build"
        BY <2>4 DEF Build
      <3>2. graph' = BuildGraph(Findings(configs["base"]))
        BY <3>1 DEF Restart
      <3>3. graph'.findings = Findings(configs'["base"])
        BY <2>1, <3>2, BuiltIs
      <3>4. configs # <<>> /\ side = "idle"
        BY <3>1 DEF InputInv, StageInv, Parsed, Early
      <3>5. decision' = "none"
        BY <3>1, <3>4 DEF SidesInv, verdictVars
      <3> QED BY <2>1, <3>1, <3>3, <3>4, <3>5 DEF SidesInv
    <2>5. CASE Search /\ stage = "search"
      <3>1. /\ side \in {"before", "after"} /\ side' = side
            /\ before' = before /\ policy' = policy /\ decision' = decision
            /\ graph' = graph
        BY <2>5, GraphOfSearch DEF Search, verdictVars
      <3> QED BY <2>1, <3>1 DEF SidesInv
    <2>6. CASE StartAfter(Findings(configs["head"]),
                          ~Complete(configs["base"]))
      <3>1. /\ side = "before" /\ side' = "after"
            /\ Restart(BuildGraph(Findings(configs["head"])))
            /\ before' = Result(~Complete(configs["base"]))
            /\ decision' = decision
        BY <2>6 DEF StartAfter
      <3>2. graph' = BuildGraph(Findings(configs["head"]))
        BY <3>1 DEF Restart
      <3>3. graph'.findings = Findings(configs'["head"])
        BY <2>1, <3>2, BuiltIs
      <3>4. /\ before'.graph = graph
            /\ before'.complete => Complete(configs["base"])
        BY <3>1 DEF Result
      <3>5. before'.graph.findings = Findings(configs'["base"])
        BY <2>1, <3>1, <3>4 DEF SidesInv
      <3>6. before'.complete => Complete(configs'["base"])
        BY <2>1, <3>4
      <3>7. configs' # <<>> /\ decision' = "none"
        BY <2>1, <3>1 DEF SidesInv
      <3> QED BY <3>1, <3>3, <3>5, <3>6, <3>7 DEF SidesInv
    <2>7. CASE CompareSides
      <3>1. /\ side = "after" /\ side' = "compared"
            /\ diff' = Compared(before, AfterResult)
            /\ UNCHANGED <<searchVars, before, policy, decision>>
        BY <2>7 DEF CompareSides, CompareWith, AfterResult
      <3>2. graph' = graph /\ AfterResult' = AfterResult
        BY <2>1, <3>1, SameAfter, SameResult
      <3> QED BY <2>1, <3>1, <3>2 DEF SidesInv
    <2>8. CASE Report /\ ~Fail
      <3>1. /\ stage = "report"
            /\ DecideWith(IF rules # <<>> THEN rules[1] ELSE Found(W.policy))
        BY <2>8, Zenon DEF Report
      <3>2. /\ side = "compared" /\ side' = "decided" /\ UNCHANGED searchVars
            /\ before' = before /\ diff' = diff
            /\ policy' = IF rules # <<>> THEN rules[1] ELSE Found(W.policy)
            /\ decision' = Decide(diff, policy')
        BY <3>1 DEF DecideWith
      <3>3. policy' = TrustedRules
        <4>1. CASE rules # <<>>
          BY <3>2, <4>1 DEF TrustInv
        <4>2. CASE rules = <<>>
          <5>1. ~Git /\ W.given = <<>>
            BY <3>1, <4>2 DEF TrustInv
          <5> QED BY <3>2, <4>2, <5>1 DEF TrustedRules
        <4> QED BY <4>1, <4>2
      <3>4. decision' # "none"
        BY <3>2 DEF Decide
      <3>5. graph' = graph /\ AfterResult' = AfterResult
        BY <2>1, <3>2, SameAfter, SameResult
      <3> QED BY <2>1, <2>2, <3>2, <3>3, <3>4, <3>5 DEF SidesInv
    <2> QED
      BY <1>3, <2>3, <2>4, <2>5, <2>6, <2>7, <2>8
      DEF Onward, Fail, MoveRef, Build, Analyze, Report, Answer,
          WriteCommentFile, Deliver, PrintReport, DeliverError, CheckHead,
          PostComment, Interrupted, writeVars, gateVars
  <1> QED BY <1>2, <1>3, StepsAre DEF Engine

(* Until there is an exit code the stages are those before the end.        *)
LEMMA NoExitYet ==
    ASSUME StageInv,
           stage \notin {"ended", "publish", "stale", "published"}
    PROVE  exit \notin {0, 1}
  BY DEF StageInv

LEMMA ExitStays ==
    ASSUME UNCHANGED <<vars, strict>>
    PROVE  ExitCode' = ExitCode
  BY DEF ExitCode, vars, verdictVars

LEMMA FailStages ==
    ASSUME StageInv, Fail PROVE StageInv'
  <1>1. /\ stage' \in {"ended", "error"} /\ UNCHANGED vars /\ exit' = 2
    BY FailEnds
  <1>2. side' = side /\ side \in Side
    BY <1>1 DEF vars, StageInv
  <1>3. /\ stage' \notin Early
        /\ stage' \notin {"search", "report", "answer", "comment file",
                         "deliver", "print"}
    BY <1>1 DEF Early
  <1>4. exit' \notin {0, 1}
    BY <1>1
  <1> QED BY ONLY <1>2, <1>3, <1>4 DEF StageInv

LEMMA StagesGoOn ==
    ASSUME WorldInv, TrustInv, InputInv, SidesInv, StageInv,
           stage # "engine", [GateNext]_gateVars
    PROVE  StageInv'
  <1>1. CASE Fail
    BY <1>1, FailStages
  <1>2. CASE Chosen /\ ~Fail
    <2>1. /\ stage \in Early /\ stage' \in Early /\ UNCHANGED vars
          /\ exit' = exit
      BY <1>2 DEF Chosen, Ask, SelectRoot, ReadBasePolicy, Parse, PinRef,
                  Materialize, Go, Early
    <2>2. side' = side /\ exit' \notin {0, 1}
      BY <2>1, NoExitYet DEF vars, Early
    <2> QED BY <2>1, <2>2 DEF StageInv, Early
  <1>3. CASE MoveRef
    <2>1. stage' = stage /\ UNCHANGED <<vars, strict>> /\ exit' = exit
      BY <1>3 DEF MoveRef
    <2>2. side' = side /\ ExitCode' = ExitCode
      BY <2>1, ExitStays DEF vars
    <2> QED BY <2>1, <2>2 DEF StageInv
  <1>4. CASE Build /\ ~Fail
    <2>1. /\ stage = "build" /\ side' = "before" /\ stage' = "search"
          /\ exit' = exit
      BY <1>4 DEF Build, local
    <2> QED BY <2>1, NoExitYet DEF StageInv, Side, Early
  <1>5. CASE Analyze
    <2>1. /\ stage = "search" /\ stage' = "search" /\ exit' = exit
          /\ side' \in {"before", "after"}
      BY <1>5 DEF Analyze, local, Search, StartAfter
    <2> QED BY <2>1, NoExitYet DEF StageInv, Side, Early
  <1>6. CASE CompareSides
    <2>1. /\ stage = "search" /\ stage' = "report" /\ exit' = exit
          /\ side' = "compared"
      BY <1>6 DEF CompareSides, local, CompareWith
    <2> QED BY <2>1, NoExitYet DEF StageInv, Side, Early
  <1>7. CASE Report /\ ~Fail
    <2>1. /\ stage = "report" /\ exit' = exit
          /\ stage' \in {"answer", "deliver", "comment file"}
          /\ DecideWith(IF rules # <<>> THEN rules[1] ELSE Found(W.policy))
      BY <1>7, Zenon DEF Report
    <2>2. side' = "decided"
      BY <2>1 DEF DecideWith
    <2>3. exit' \notin {0, 1}
      BY <2>1, NoExitYet
    <2> QED BY <2>1, <2>2, <2>3 DEF StageInv, Side, Early
  <1>8. ASSUME stage \in {"answer", "print"}, stage' = "ended",
               UNCHANGED <<vars, strict>>, exit' \in {2, ExitCode}
        PROVE  StageInv'
    <2>1. side = "decided" /\ side' = side /\ ExitCode' = ExitCode
      BY <1>8, ExitStays DEF StageInv, vars
    <2>2. stage' \notin Early
      BY <1>8 DEF Early
    <2>3. exit' \in {0, 1} => exit' = ExitCode'
      BY <1>8, <2>1
    <2> QED BY <1>8, <2>1, <2>2, <2>3 DEF StageInv, Side
  <1>9. CASE Answer
    BY <1>8, <1>9 DEF Answer
  <1>10. CASE PrintReport /\ ~Fail
    BY <1>8, <1>10 DEF PrintReport, writeVars
  <1>11. CASE WriteCommentFile \/ Deliver
    <2>1. /\ stage \in {"comment file", "deliver"} /\ UNCHANGED vars
          /\ stage' \in {"deliver", "print", "error"} /\ exit' \in {exit, 2}
      BY <1>11 DEF WriteCommentFile, Deliver, Interrupted, writeVars
    <2>2. side = "decided" /\ side' = side
      BY <2>1 DEF StageInv, vars
    <2>3. exit \notin {0, 1}
      BY <2>1, NoExitYet
    <2>4. exit' \notin {0, 1}
      <3>1. exit' = exit \/ exit' = 2
        BY <2>1
      <3> QED BY ONLY <2>3, <3>1
    <2> QED BY <2>1, <2>2, <2>4 DEF StageInv, Side, Early
  <1>12. CASE DeliverError
    <2>1. /\ stage = "error" /\ UNCHANGED vars /\ stage' \in {"error", "ended"}
          /\ exit' = exit
      BY <1>12 DEF DeliverError, writeVars
    <2>2. side' = side /\ exit' \notin {0, 1}
      BY <2>1, NoExitYet DEF vars
    <2> QED BY <2>1, <2>2 DEF StageInv, Early
  <1>13. CASE CheckHead \/ PostComment
    <2>1. /\ stage \in {"ended", "publish"} /\ UNCHANGED <<vars, strict>>
          /\ stage' \in {"publish", "stale", "published"} /\ exit' = exit
      BY <1>13 DEF CheckHead, PostComment, local
    <2>2. side' = side /\ ExitCode' = ExitCode
      BY <2>1, ExitStays DEF vars
    <2> QED BY <2>1, <2>2 DEF StageInv, Early
  <1>14. CASE UNCHANGED gateVars
    <2>1. stage' = stage /\ UNCHANGED <<vars, strict>> /\ exit' = exit
      BY <1>14 DEF gateVars, local
    <2>2. side' = side /\ ExitCode' = ExitCode
      BY <2>1, ExitStays DEF vars
    <2> QED BY <2>1, <2>2 DEF StageInv
  <1> QED
    BY <1>1, <1>2, <1>3, <1>4, <1>5, <1>6, <1>7, <1>9, <1>10, <1>11, <1>12,
       <1>13, <1>14, StepsAre DEF Engine, Onward

-----------------------------------------------------------------------------
LEMMA RunsStart ==
    ASSUME GateInit PROVE RunInv
  <1>1. CASE world = <<>> /\ stage = "engine"
    BY <1>1 DEF RunInv, WorldInv
  <1>2. CASE /\ LocalInit /\ world \in {<<w>> : w \in Worlds}
             /\ stage = "asked" /\ StartWith(BuildGraph({})) /\ side = "idle"
             /\ decision = "none"
    <2>1. WorldInv
      BY <1>2 DEF WorldInv
    <2>2. TrustInv
      <3>1. refs = Pins /\ pinned = Pins /\ root = "infra" /\ rules = <<>>
        BY <1>2 DEF LocalInit
      <3>2. Pins \in [End -> Commit] /\ Pins["base"] # "head"
        BY DEF Pins, End, Commit
      <3> QED BY <1>2, <3>1, <3>2 DEF TrustInv, Unread, Reading
    <2>3. InputInv
      BY <1>2 DEF InputInv, LocalInit, Unread, Parsed
    <2>4. graph.findings = {}
      BY <1>2, StartsRight
    <2>5. SidesInv
      BY <1>2, <2>4 DEF SidesInv
    <2>6. StageInv
      BY <1>2 DEF StageInv, LocalInit, Side, Early
    <2> QED BY <2>1, <2>2, <2>3, <2>5, <2>6 DEF RunInv
  <1> QED BY <1>1, <1>2 DEF GateInit

LEMMA RunsGoOn ==
    ASSUME RunInv, GateInv, [GateNext]_gateVars PROVE RunInv'
  <1>1. WorldInv' /\ (stage = "engine" <=> stage' = "engine")
    BY WorldStays DEF RunInv
  <1>2. ASSUME stage # "engine"
        PROVE  TrustInv' /\ InputInv' /\ SidesInv' /\ StageInv'
    BY <1>2, TrustGoesOn, InputGoesOn, SidesGoOn, StagesGoOn
       DEF RunInv, GateInv
  <1> QED BY <1>1, <1>2 DEF RunInv

(* What a run compares and decides by: the two sides are parsed from what  *)
(* was pinned, in the root and under the rules of the trusted side, and    *)
(* nothing replaces them on the way to the exit code.                      *)
THEOREM RunInvariant == GateSpec => []RunInv
  <1>1. GateInit => RunInv
    BY RunsStart
  <1>2. RunInv /\ GateInv /\ [GateNext]_gateVars => RunInv'
    BY RunsGoOn
  <1> QED BY <1>1, <1>2, GateInvariant, PTL DEF GateSpec

-----------------------------------------------------------------------------
(* What the parsers make of the two sides.                                 *)

LEMMA ClosedIsLand == Closed \in Landscapes
  <1>1. [g \in Groups |-> {}] \in
           [Groups -> SUBSET {"https", "admin", "range", "all"}]
    OBVIOUS
  <1> HIDE DEF Groups
  <1> QED BY <1>1 DEF Closed, Landscapes

LEMMA TheWorld ==
    ASSUME WorldInv, stage # "engine"
    PROVE  /\ W \in Worlds /\ W.before \in Landscapes
           /\ W.after \in Landscapes /\ W.form \in Form
           /\ FromPlan => Plannable(W.style)
           /\ Git => ~FromPlan
  <1>1. PICK w \in Worlds : W = w
    BY DEF WorldInv, W
  <1> QED BY <1>1, WorldAssumption DEF Plannable, FromPlan, Git

LEMMA TruthIsLand ==
    ASSUME WorldInv, stage # "engine"
    PROVE  \A commit : Truth(commit) \in Landscapes
  <1>1. W.before \in Landscapes /\ W.after \in Landscapes
    BY TheWorld
  <1>2. Older(W.before, W.style) \in Landscapes
    BY <1>1, OlderIs
  <1> QED BY <1>1, <1>2, ClosedIsLand DEF Truth

LEMMA MeantIs ==
    ASSUME WorldInv, TrustInv, stage # "engine", NEW s \in End
    PROVE  Meant(s) = IF ~Git THEN Truth(s)
                      ELSE IF root = "other" THEN Closed
                      ELSE Truth(pinned[s])
  <1>1. ASSUME Git, root = "other"
        PROVE  <<"other">> \in {W.dir, DirOf(W.given),
                                DirOf(PolicyIn(pinned["base"]))}
    <2>1. TrustedDir = <<"other">>
      BY <1>1 DEF TrustInv
    <2> QED BY <2>1 DEF TrustedDir
  <1> QED BY <1>1 DEF Meant

LEMMA MeantIsLand ==
    ASSUME WorldInv, TrustInv, stage # "engine", NEW s \in End
    PROVE  Meant(s) \in Landscapes
  BY MeantIs, TruthIsLand, ClosedIsLand

(* A snapshot holds the blocks of the directory it is one of.              *)
Source(commit) ==
    IF root = "other" THEN Directory(Closed, "plain")
    ELSE Directory(Truth(commit), W.style)

StyleOf == IF root = "other" THEN "plain" ELSE W.style

LEMMA CopyIs ==
    \A commit : /\ Snapshotted(commit).blocks = Source(commit).blocks
                /\ Snapshotted(commit).modules = Source(commit).modules
  <1> TAKE commit
  <1> DEFINE found == Source(commit)
             copy == Files(commit)
  <1>1. copy = found \/ copy = [found EXCEPT !.text = "none"]
    BY DEF Files, Source
  <1>2. DOMAIN found = {"blocks", "modules", "json", "text"}
    BY DEF Source, Directory
  <1> HIDE DEF found
  <1>3. /\ copy.blocks = found.blocks /\ copy.modules = found.modules
        /\ DOMAIN copy = {"blocks", "modules", "json", "text"}
    BY <1>1, <1>2
  <1> HIDE DEF copy
  <1>4. /\ [copy EXCEPT !.json = FALSE].blocks = found.blocks
        /\ [copy EXCEPT !.json = FALSE].modules = found.modules
    BY <1>3
  <1> QED BY <1>4 DEF Snapshotted, copy, found

(* The source of a pinned commit is that of the landscape that is meant.   *)
LEMMA SourceIs ==
    ASSUME WorldInv, TrustInv, stage # "engine", NEW s \in End, Git
    PROVE  Source(pinned[s]) = Directory(Meant(s), StyleOf)
  <1>1. CASE root = "other"
    BY <1>1, MeantIs DEF Source, StyleOf
  <1>2. CASE root # "other"
    BY <1>2, MeantIs DEF Source, StyleOf
  <1> QED BY <1>1, <1>2

LEMMA DirectoryIs ==
    ASSUME NEW l, NEW style
    PROVE  /\ Directory(l, style).modules = (style = "module")
           /\ Directory(l, style).json = (style = "json")
  BY DEF Directory

(* Whatever the form and the style, what is read is of the landscape that  *)
(* is meant.                                                               *)
LEMMA ReadOf ==
    ASSUME WorldInv, TrustInv, InputInv, stage # "engine", configs # <<>>,
           NEW s \in End
    PROVE  \E style : ReadFrom(Range(configs[s].resources), Meant(s), style)
  <1>1. configs[s] = Config(s) /\ input[s] = Seen(s)
    BY DEF InputInv
  <1>2. Meant(s) \in Landscapes
    BY MeantIsLand
  <1>3. CASE Git
    <2>1. configs[s] = ParseDirectory(Snapshotted(pinned[s]))
      BY <1>1, <1>3, TheWorld DEF Seen, Config
    <2>2. Snapshotted(pinned[s]).blocks = Directory(Meant(s), StyleOf).blocks
      BY <1>3, CopyIs, SourceIs
    <2> QED BY <1>2, <2>1, <2>2, DirectoryRead
  <1>4. CASE ~Git /\ ~FromPlan
    <2>1. configs[s] = ParseDirectory(Directory(Truth(s), W.style))
      BY <1>1, <1>4 DEF Seen, Config, Given
    <2> QED BY <1>2, <1>4, <2>1, MeantIs, DirectoryRead
  <1>5. CASE FromPlan
    <2>1. configs[s] = ParsePlan(Plan(W.before, W.after, W.style), Phase(s))
      BY <1>1, <1>5, TheWorld DEF Seen, Config, Given
    <2>2. Meant(s) = SideLand(W.before, W.after, W.style, Phase(s))
      BY <1>5, MeantIs, TheWorld DEF Truth, SideLand, Phase, End
    <2>3. Phase(s) \in {"before", "after"}
      BY DEF Phase
    <2> QED BY <1>5, <2>1, <2>2, <2>3, TheWorld, PlanFaithful DEF Faithful
  <1> QED BY <1>3, <1>4, <1>5

(* Every finding is a candidate: the graph drops none.                     *)
LEMMA FindingsAreCandidates ==
    ASSUME WorldInv, TrustInv, InputInv, stage # "engine", configs # <<>>,
           NEW s \in End
    PROVE  Findings(configs[s]) \subseteq Range(Candidates)
  <1>1. PICK style : ReadFrom(Range(configs[s].resources), Meant(s), style)
    BY ReadOf
  <1>2. Findings(configs[s]) \subseteq RuleFindings
    BY <1>1, MeantIsLand, FindingsBound
  <1> QED BY <1>2, LandscapeAssumption

(* No snapshot of a repository leaves a .tf.json file out.                 *)
Copied == Git => ~Json(W.style)

(* And what is complete is faithful.                                       *)
LEMMA FaithfulTo ==
    ASSUME WorldInv, TrustInv, InputInv, stage # "engine", configs # <<>>,
           NEW s \in End, Copied
    PROVE  \E style : \E gone :
              Faithful(configs[s], Meant(s), style, gone)
              /\ Absent(Meant(s), gone)
  <1>1. configs[s] = Config(s) /\ input[s] = Seen(s)
    BY DEF InputInv
  <1>2. Meant(s) \in Landscapes
    BY MeantIsLand
  <1>3. Absent(Meant(s), {})
    BY <1>2 DEF Absent
  <1>4. CASE Git
    <2> DEFINE dir == Snapshotted(pinned[s])
    <2>1. configs[s] = ParseDirectory(dir)
      BY <1>1, <1>4, TheWorld DEF Seen, Config
    <2>2. /\ dir.blocks = Directory(Meant(s), StyleOf).blocks
          /\ dir.modules = Directory(Meant(s), StyleOf).modules
      BY <1>4, CopyIs, SourceIs
    <2>3. ~Json(StyleOf)
      BY <1>4 DEF Copied, Json, StyleOf
    <2>4. Spread(StyleOf) => dir.modules
      BY <2>2, DirectoryIs DEF Spread
    <2> HIDE DEF dir
    <2>5. Faithful(configs[s], Meant(s), StyleOf, {})
      BY <1>2, <2>1, <2>2, <2>3, <2>4, DirectoryFaithful
    <2> QED BY <1>3, <2>5
  <1>5. CASE ~Git /\ ~FromPlan
    <2> DEFINE dir == Directory(Truth(s), W.style)
    <2>1. configs[s] = ParseDirectory(dir) /\ Meant(s) = Truth(s)
      BY <1>1, <1>5, MeantIs DEF Seen, Config, Given
    <2>2. (Spread(W.style) => dir.modules) /\ (Json(W.style) => dir.json)
      BY DirectoryIs DEF Spread, Json
    <2>3. dir.blocks = Directory(Meant(s), W.style).blocks
      BY <2>1
    <2> HIDE DEF dir
    <2>4. Faithful(configs[s], Meant(s), W.style, {})
      BY <1>2, <2>1, <2>2, <2>3, DirectoryFaithful
    <2> QED BY <1>3, <2>4
  <1>6. CASE FromPlan
    <2> DEFINE gone == SideGone(W.style, Phase(s))
    <2>1. configs[s] = ParsePlan(Plan(W.before, W.after, W.style), Phase(s))
      BY <1>1, <1>6, TheWorld DEF Seen, Config, Given
    <2>2. Meant(s) = SideLand(W.before, W.after, W.style, Phase(s))
      BY <1>6, MeantIs, TheWorld DEF Truth, SideLand, Phase, End
    <2>3. Phase(s) \in {"before", "after"}
      BY DEF Phase
    <2>4. Faithful(configs[s], Meant(s), W.style, gone)
      BY <1>6, <2>1, <2>2, <2>3, TheWorld, PlanFaithful
    <2>5. Absent(Meant(s), gone)
      <3>1. CASE Phase(s) = "after"
        <4>1. gone = {}
          BY <3>1 DEF SideGone
        <4> QED BY <1>3, <4>1
      <3>2. CASE Phase(s) # "after"
        <4>1. gone = Fresh(W.style) /\ Meant(s) = Older(W.before, W.style)
          BY <2>2, <3>2 DEF SideGone, SideLand
        <4> HIDE DEF gone
        <4>2. gone \subseteq {"g2", "b2"}
          BY <4>1, FreshIs
        <4> QED BY <1>2, <4>1, <4>2, TheWorld, OlderIs DEF Absent
      <3> QED BY <3>1, <3>2
    <2> HIDE DEF gone
    <2> QED BY <2>4, <2>5
  <1> QED BY <1>4, <1>5, <1>6

LEMMA SideIsExact ==
    ASSUME WorldInv, TrustInv, InputInv, stage # "engine", configs # <<>>,
           NEW s \in End, Copied, Complete(configs[s])
    PROVE  {EdgeOf(f) : f \in Findings(configs[s])} = TrueEdges(Meant(s))
  BY FaithfulTo, CompleteExact

-----------------------------------------------------------------------------
(* As long as the engine runs alone, its invariant is that of Verdict.     *)
EngineInv == stage = "engine" => VerdictInv

(* Graphs built by hand are analyzed, compared and decided as in Verdict,  *)
(* where nothing of a run gets in between.                                 *)
THEOREM EngineInvariant == GateSpec => []EngineInv
  <1>1. ASSUME GateInit PROVE EngineInv
    BY <1>1, VerdictStarts DEF GateInit, EngineInv
  <1>2. ASSUME EngineInv, WorldInv, [GateNext]_gateVars PROVE EngineInv'
    <2> SUFFICES ASSUME stage' = "engine" PROVE VerdictInv'
      BY DEF EngineInv
    <2>1. stage = "engine" /\ VerdictInv /\ (Engine \/ UNCHANGED gateVars)
      BY <1>2, WorldStays DEF EngineInv
    <2>2. [Next]_vars
      BY <2>1 DEF Engine, gateVars
    <2> QED BY <2>1, <2>2, VerdictGoesOn
  <1>3. RunInv => WorldInv
    BY DEF RunInv
  <1> QED BY <1>1, <1>2, <1>3, RunInvariant, PTL DEF GateSpec

LEMMA RunsAreOfCandidates ==
    ASSUME RunInv, EngineInv
    PROVE  /\ FromCandidates
           /\ side \in {"after", "compared", "decided"} =>
                 before.graph.findings \subseteq Range(Candidates)
  <1>1. CASE stage = "engine"
    BY <1>1 DEF EngineInv, VerdictInv
  <1>2. CASE stage # "engine"
    <2>1. WorldInv /\ TrustInv /\ InputInv /\ SidesInv /\ StageInv
      BY <1>2 DEF RunInv
    <2>2. configs # <<>> =>
             /\ Findings(configs["base"]) \subseteq Range(Candidates)
             /\ Findings(configs["head"]) \subseteq Range(Candidates)
      BY <1>2, <2>1, FindingsAreCandidates DEF End
    <2>3. side \in {"idle", "before", "after", "compared", "decided"}
      BY <2>1 DEF StageInv, Side
    <2> QED BY <2>1, <2>2, <2>3 DEF SidesInv, FromCandidates
  <1> QED BY <1>1, <1>2

(* The decisions of runs are as sound as those of the engine, whatever is  *)
(* pinned, however it is written and whichever parser reads it: a finding  *)
(* build_graph() had no edge for would be one that no search sees, and     *)
(* there is none.                                                          *)
THEOREM GateIsSound == GateSpec => []DecisionIsSound
  <1>1. ASSUME GateInv, RunInv, EngineInv PROVE DecisionIsSound
    <2> USE <1>1 DEF GateInv
    <2>1. ASSUME decision # "none"
          PROVE  before.graph.findings \subseteq Range(Candidates)
      BY <2>1, RunsAreOfCandidates DEF DecisionInv, DecidedInv
    <2> QED BY <2>1, SoundDecisions
  <1> QED BY <1>1, GateInvariant, RunInvariant, EngineInvariant, PTL

-----------------------------------------------------------------------------
LEMMA ExactReport ==
    ASSUME RunInv, Copied, stage = "report"
    PROVE  CompleteIsExact
  <1>1. WorldInv /\ TrustInv /\ InputInv /\ configs # <<>>
    BY DEF RunInv, InputInv, Parsed
  <1> QED BY <1>1, SideIsExact DEF CompleteIsExact

(* Worlds whose repositories hold no .tf.json file in the root: such a file*)
(* is never copied, and no parser can tell that it was there.              *)
CopiedWorlds ==
    \A w \in Worlds : w.form \in {"git", "action"} => ~Json(w.style)

LEMMA CopiedIs ==
    ASSUME CopiedWorlds, WorldInv, stage # "engine" PROVE Copied
  BY TheWorld DEF CopiedWorlds, Copied, Git

(* What coverage.py calls complete is complete, for every landscape, style,*)
(* form of a run and movement of refs: the edges the rules find are those  *)
(* of the landscape. The one thing that is neither read nor diagnosed, a   *)
(* .tf.json file of a repository, is excluded here, and is a finding (run  *)
(* GateJson).                                                              *)
THEOREM CompletenessIsExact ==
    ASSUME CopiedWorlds
    PROVE  GateSpec => []CompleteIsExact
  <1>1. ASSUME RunInv PROVE CompleteIsExact
    <2>1. CASE stage = "report"
      <3>1. WorldInv
        BY <1>1 DEF RunInv
      <3> QED BY <1>1, <2>1, <3>1, CopiedIs, ExactReport
    <2>2. CASE stage # "report"
      BY <2>2 DEF CompleteIsExact
    <2> QED BY <2>1, <2>2
  <1> QED BY <1>1, RunInvariant, PTL

-----------------------------------------------------------------------------
(* A pass.                                                                 *)

LEMMA ExposedPort ==
    ASSUME NEW p \in PortKinds, NEW style, ~IngressGap(Rule(p, style))
    PROVE  /\ p \in Exposing => /\ PortOf(Rule(p, style)) = p
                                /\ IngressRisk(Rule(p, style)) = CRITICAL
           /\ PortOf(Rule(p, style)) \in Exposing =>
                 PortOf(Rule(p, style)) = p
  <1> DEFINE rule == Rule(p, style)
  <1>1. /\ rule.protocol = IF p = "all" THEN "all" ELSE "tcp"
        /\ rule.ports = Ports(p)
    BY RuleIs DEF IngressGap
  <1> HIDE DEF rule
  <1>2. CASE p = "all"
    BY <1>1, <1>2 DEF PortOf, IngressRisk, AdminPort, rule
  <1>3. CASE p = "admin"
    <2>1. rule.protocol = "tcp" /\ rule.ports = <<20, 30>>
      BY <1>1, <1>3 DEF Ports
    <2>2. PortRange(rule) = <<20, 30>>
      BY <2>1 DEF PortRange
    <2>3. PortRange(rule)[1] <= 22 /\ 22 <= PortRange(rule)[2]
      BY <2>2
    <2>4. AdminPort(rule)
      BY <2>1, <2>3 DEF AdminPort, AdminPorts
    <2> QED BY <1>3, <2>1, <2>4 DEF PortOf, IngressRisk, rule
  <1>4. CASE p = "https"
    <2>1. rule.protocol = "tcp" /\ rule.ports = <<443, 443>>
      BY <1>1, <1>4 DEF Ports
    <2>2. PortRange(rule) = <<443, 443>>
      BY <2>1 DEF PortRange
    <2>3. \A port \in AdminPorts : ~(PortRange(rule)[1] <= port
                                     /\ port <= PortRange(rule)[2])
      BY <2>2 DEF AdminPorts
    <2>4. ~AdminPort(rule)
      BY <2>1, <2>3 DEF AdminPort
    <2> QED BY <1>4, <2>1, <2>4 DEF PortOf, Exposing, rule
  <1>5. CASE p = "range"
    <2>1. rule.protocol = "tcp" /\ rule.ports = <<8000, 8200>>
      BY <1>1, <1>5 DEF Ports
    <2>2. PortRange(rule) = <<8000, 8200>>
      BY <2>1 DEF PortRange
    <2>3. \A port \in AdminPorts : ~(PortRange(rule)[1] <= port
                                     /\ port <= PortRange(rule)[2])
      BY <2>2 DEF AdminPorts
    <2>4. ~AdminPort(rule)
      BY <2>1, <2>3 DEF AdminPort
    <2> QED BY <1>5, <2>1, <2>4 DEF PortOf, Exposing, rule
  <1> QED BY <1>2, <1>3, <1>4, <1>5 DEF PortKinds

OpensTo(g, port) == Edge(Internet, g, "INGRESS_ALLOWS", CRITICAL, port)

(* A configuration that is complete has the finding of an administrative   *)
(* port exactly where the landscape opens it.                              *)
LEMMA PortsAreSeen ==
    ASSUME NEW config, NEW l, NEW style, NEW gone,
           Clear(config, l, style, gone), Absent(l, gone),
           NEW g \in Groups, NEW p \in Exposing, p \in l.open[g]
    PROVE  OpensTo(g, p) \in IngressFindings(Range(config.resources))
  <1> DEFINE rs == Range(config.resources)
             x == Group(l, g, style)
  <1>1. g \notin gone
    BY DEF Absent, Groups
  <1>2. x \in BlocksOf(l, style)
    BY DEF BlocksOf, Groups
  <1>3. x.type = "aws_security_group" /\ x.address = g
    BY GroupType
  <1>4. Rules(x) = {Rule(q, style) : q \in l.open[g]} \cup {PrivateRule(style)}
    BY GroupRules DEF Clear, Inside
  <1>5. l.open[g] \subseteq PortKinds
    BY DEF Absent, Landscapes, PortKinds
  <1> HIDE DEF x
  <1>6. PICK sg \in OfType(rs, x.type) :
           /\ Reads(sg, x) /\ ~Gap(config, sg) /\ Rules(sg) = Rules(x)
           /\ sg.address = x.address
    BY <1>1, <1>2, <1>3, BlockRead, Supports
  <1>7. Rule(p, style) \in Rules(sg)
    BY <1>4, <1>6
  <1>8. ~IngressGap(Rule(p, style))
    BY <1>6, <1>7 DEF Gap
  <1>9. Rule(p, style).cidr \in {"public", "expr"}
    BY <1>5, RuleIs
  <1>10. Rule(p, style) \in PublicIngress(sg)
    BY <1>7, <1>8, <1>9 DEF IngressGap, PublicIngress
  <1>11. /\ PortOf(Rule(p, style)) = p
         /\ IngressRisk(Rule(p, style)) = CRITICAL
    BY <1>5, <1>8, ExposedPort
  <1>12. OpensTo(g, p) = Edge(Internet, sg.address, "INGRESS_ALLOWS",
                              IngressRisk(Rule(p, style)),
                              PortOf(Rule(p, style)))
    BY <1>3, <1>6, <1>11 DEF OpensTo
  <1>13. sg \in OfType(rs, "aws_security_group")
    BY <1>3, <1>6
  <1> QED BY <1>10, <1>12, <1>13, IngressAre

LEMMA PortsAreThere ==
    ASSUME NEW config, NEW l, NEW style, NEW gone,
           Clear(config, l, style, gone), Absent(l, gone),
           NEW g, NEW p \in Exposing,
           OpensTo(g, p) \in IngressFindings(Range(config.resources))
    PROVE  p \in l.open[g]
  <1> DEFINE rs == Range(config.resources)
  <1>1. PICK sg \in OfType(rs, "aws_security_group") :
           \E rule \in PublicIngress(sg) :
              OpensTo(g, p) = Edge(Internet, sg.address, "INGRESS_ALLOWS",
                                   IngressRisk(rule), PortOf(rule))
    BY IngressAre
  <1>2. PICK rule \in PublicIngress(sg) :
              OpensTo(g, p) = Edge(Internet, sg.address, "INGRESS_ALLOWS",
                                   IngressRisk(rule), PortOf(rule))
    BY <1>1
  <1>3. sg.address = g /\ PortOf(rule) = p
    BY <1>2 DEF OpensTo, Edge
  <1>4. ReadFrom(rs, l, style) /\ l \in Landscapes
    BY DEF Clear, Absent
  <1>5. /\ Rules(sg) \subseteq {Rule(q, style) : q \in l.open[g]}
                               \cup {PrivateRule(style)}
        /\ l.open[g] \subseteq PortKinds
    BY <1>3, <1>4, GroupsRead
  <1>6. rule \in Rules(sg) /\ rule.cidr = "public"
    BY <1>2 DEF PublicIngress
  <1>7. PrivateRule(style).cidr = "private"
    BY DEF PrivateRule
  <1>8. PICK q \in l.open[g] : rule = Rule(q, style)
    BY <1>5, <1>6, <1>7
  <1>9. ~IngressGap(rule)
    <2>1. sg \in rs
      BY DEF OfType
    <2>2. ~Gap(config, sg)
      BY <2>1 DEF Clear
    <2> QED BY <1>6, <2>2 DEF Gap
  <1>10. PortOf(rule) = q
    BY <1>3, <1>5, <1>8, <1>9, ExposedPort
  <1> QED BY <1>3, <1>8, <1>10

-----------------------------------------------------------------------------
(* No other rule finds an ingress.                                         *)
LEMMA OnlyIngress ==
    ASSUME NEW config, NEW f \in Findings(config),
           f.relationship = "INGRESS_ALLOWS"
    PROVE  f \in IngressFindings(Unambiguous(config))
  <1> DEFINE rs == Unambiguous(config)
  <1>1. \A h \in InstanceFindings(rs) :
           h.relationship \in {"PROTECTS", "ASSUMES_ROLE"}
    BY DEF InstanceFindings, Edge
  <1>2. \A h \in AccessFindings(rs) : h.relationship = "CAN_ACCESS"
    <2> SUFFICES ASSUME NEW h \in AccessFindings(rs)
                 PROVE  h.relationship = "CAN_ACCESS"
      OBVIOUS
    <2>1. IsAccess(rs, h)
      BY AccessesAre
    <2>2. \E source, node, risk :
             h = Edge(source, node, "CAN_ACCESS", risk, "none")
      BY <2>1 DEF IsAccess
    <2> QED BY <2>2 DEF Edge
  <1>3. \A h \in PublicFindings(rs) : h.relationship = "PUBLIC_ACCESS"
    BY DEF PublicFindings, Edge
  <1>4. \A h \in ContainsFindings(rs) : h.relationship = "CONTAINS"
    BY DEF ContainsFindings, Edge
  <1> QED BY <1>1, <1>2, <1>3, <1>4 DEF Findings

-----------------------------------------------------------------------------
(* The landscapes a run may be about are those TrueCriticalPaths knows.    *)
LEMMA TruePathsOf ==
    ASSUME WorldInv, TrustInv, stage # "engine", NEW s \in End
    PROVE  TrueCriticalPaths[Meant(s)] =
              {p \in SimplePaths(TrueEdges(Meant(s))) : ReachesSensitive(p)}
  <1>1. W \in Worlds
    BY TheWorld
  <1>2. Meant(s) \in {Closed, Older(W.before, W.style), W.before, W.after}
    BY MeantIs DEF Truth
  <1>3. Meant(s) \in {Closed} \cup {Older(w.before, w.style) : w \in Worlds}
                     \cup UNION {{w.before, w.after, Repaired(w.after)} :
                                 w \in Worlds}
    BY <1>1, <1>2
  <1> QED BY <1>3 DEF TrueCriticalPaths

(* What a pass has behind it.                                              *)
LEMMA PassIs ==
    ASSUME RunInv, GateInv, stage = "ended", exit = 0, strict \/ diff.complete
    PROVE  /\ \E gap : /\ Outcome(before) /\ Outcome(Result(gap))
                       /\ Result(gap).graph = graph
                       /\ diff = Compared(before, Result(gap))
           /\ diff.complete /\ policy = TrustedRules
           /\ ~Violated(diff, policy) /\ (strict => diff.newPaths = {})
           /\ configs # <<>>
           /\ Complete(configs["base"]) /\ Complete(configs["head"])
           /\ before.graph.findings = Findings(configs["base"])
           /\ graph.findings = Findings(configs["head"])
  <1>1. /\ side = "decided" /\ exit = ExitCode /\ SidesInv
    BY DEF RunInv, StageInv
  <1>2. decision \in {"SAFE", "REVIEW"} /\ (strict => decision = "SAFE")
    BY <1>1 DEF ExitCode
  <1>3. SearchesInv /\ DecisionInv
    BY DEF GateInv
  <1>4. \E gap : /\ Outcome(before) /\ Outcome(Result(gap))
                 /\ Result(gap).graph = graph
                 /\ diff = Compared(before, Result(gap))
                 /\ decision = Decide(diff, policy)
    BY <1>2, <1>3, DecidedIs
  <1>5. decision = Decide(diff, policy)
    BY <1>4
  <1>6. /\ ~Violated(diff, policy)
        /\ decision = "SAFE" => diff.complete /\ diff.newPaths = {}
    BY <1>2, <1>5 DEF Decide, NewExposure
  <1>7. diff.complete
    BY <1>2, <1>6
  <1>8. diff = Compared(before, AfterResult)
    BY <1>1 DEF SidesInv
  <1>9. before.complete /\ AfterResult.complete
    BY <1>7, <1>8, ComparedIs
  <1>10. Complete(configs["head"])
    <2>1. AfterResult.complete => Complete(configs["head"])
      BY DEF AfterResult, Result
    <2> QED BY <1>9, <2>1
  <1> QED BY <1>1, <1>2, <1>4, <1>6, <1>7, <1>9, <1>10 DEF SidesInv

LEMMA Earned ==
    ASSUME RunInv, GateInv, Copied, stage = "ended", exit = 0,
           strict \/ diff.complete
    PROVE  PassIsEarned
  <1>1. PICK gap : /\ Outcome(before) /\ Outcome(Result(gap))
                   /\ Result(gap).graph = graph
                   /\ diff = Compared(before, Result(gap))
    BY PassIs
  <1>2. /\ diff.complete /\ policy = TrustedRules
        /\ ~Violated(diff, policy) /\ (strict => diff.newPaths = {})
        /\ configs # <<>>
        /\ Complete(configs["base"]) /\ Complete(configs["head"])
        /\ before.graph.findings = Findings(configs["base"])
        /\ graph.findings = Findings(configs["head"])
    BY PassIs
  <1>3. WorldInv /\ TrustInv /\ InputInv
    BY DEF RunInv
  <1>4. /\ {EdgeOf(f) : f \in graph.findings} = TrueEdges(Meant("head"))
        /\ {EdgeOf(f) : f \in before.graph.findings} = TrueEdges(Meant("base"))
    BY <1>2, <1>3, SideIsExact DEF End
  <1>5. /\ CriticalPathsOf(graph.findings) = TrueCriticalPaths[Meant("head")]
        /\ CriticalPathsOf(before.graph.findings) =
              TrueCriticalPaths[Meant("base")]
    <2>1. /\ TrueCriticalPaths[Meant("head")] =
                {p \in SimplePaths(TrueEdges(Meant("head"))) :
                    ReachesSensitive(p)}
          /\ TrueCriticalPaths[Meant("base")] =
                {p \in SimplePaths(TrueEdges(Meant("base"))) :
                    ReachesSensitive(p)}
      BY <1>3, TruePathsOf DEF End
    <2> QED BY <1>4, <2>1 DEF CriticalPathsOf, EdgesIn
  <1>6. ASSUME strict \/ TrustedRules.block_new_critical_paths
        PROVE  TrueCriticalPaths[Meant("head")] \subseteq
                  TrueCriticalPaths[Meant("base")]
    <2>1. diff.newPaths = NewPaths(before, Result(gap))
          /\ Result(gap).complete
      BY <1>1, <1>2, ComparedIs
    <2>2. Critical(diff.newPaths) = {}
      BY <1>2, <1>6 DEF Violated, Critical
    <2>3. CriticalPathsOf(graph.findings) \subseteq
             CriticalPathsOf(before.graph.findings)
      BY <1>1, <2>1, <2>2, NoneOpens
    <2> QED BY <1>5, <2>3
  <1>7. ASSUME TrustedRules.block_public_admin_ports, NEW g \in Groups,
               NEW p \in Exposing, p \in Meant("head").open[g]
        PROVE  p \in Meant("base").open[g]
    <2>1. PICK style, gone :
             Faithful(configs["head"], Meant("head"), style, gone)
             /\ Absent(Meant("head"), gone)
      BY <1>2, <1>3, FaithfulTo DEF End
    <2>2. /\ Clear(configs["head"], Meant("head"), style, gone)
          /\ Unambiguous(configs["head"]) = Range(configs["head"].resources)
      BY <1>2, <2>1, ClearIs
    <2>3. OpensTo(g, p) \in IngressFindings(Range(configs["head"].resources))
      BY <1>7, <2>1, <2>2, PortsAreSeen
    <2>4. OpensTo(g, p) \in graph.findings
      BY <1>2, <2>2, <2>3 DEF Findings
    <2>5. /\ OpensTo(g, p).relationship = "INGRESS_ALLOWS"
          /\ OpensTo(g, p).port = p
      BY DEF OpensTo, Edge
    <2>6. diff.newIngress =
             {f \in graph.findings \ before.graph.findings :
                 f.relationship = "INGRESS_ALLOWS"}
      BY <1>1 DEF Compared
    <2>7. \A f \in diff.newIngress : f.port \notin {"admin", "all"}
      BY <1>2, <1>7 DEF Violated
    <2>8. OpensTo(g, p) \in Findings(configs["base"])
      BY <1>2, <2>4, <2>5, <2>6, <2>7 DEF Exposing
    <2>9. PICK then, away :
             Faithful(configs["base"], Meant("base"), then, away)
             /\ Absent(Meant("base"), away)
      BY <1>2, <1>3, FaithfulTo DEF End
    <2>10. /\ Clear(configs["base"], Meant("base"), then, away)
           /\ Unambiguous(configs["base"]) = Range(configs["base"].resources)
      BY <1>2, <2>9, ClearIs
    <2>11. OpensTo(g, p) \in IngressFindings(Range(configs["base"].resources))
      BY <2>5, <2>8, <2>10, OnlyIngress
    <2> QED BY <2>9, <2>10, <2>11, PortsAreThere
  <1>8. TrustedRules.block_public_admin_ports =>
           \A g \in Groups :
              Meant("head").open[g] \cap {"admin", "all"} \subseteq
                 Meant("base").open[g]
    BY <1>7 DEF Exposing
  <1> QED BY <1>6, <1>8 DEF PassIsEarned

(* A run that exits with 0 opens no new path to sensitive data, and no new *)
(* administrative port where the trusted rules forbid one, between the two *)
(* landscapes it pinned: neither refs that move, nor the policy of the     *)
(* candidate, nor text that the parsers cannot read, helps a change        *)
(* through.                                                                *)
THEOREM PassesAreEarned ==
    ASSUME CopiedWorlds
    PROVE  GateSpec => []PassIsEarned
  <1>1. ASSUME RunInv, GateInv PROVE PassIsEarned
    <2>1. CASE stage = "ended" /\ exit = 0 /\ (strict \/ diff.complete)
      <3>1. WorldInv
        BY <1>1 DEF RunInv
      <3> QED BY <1>1, <2>1, <3>1, CopiedIs, Earned
    <2>2. CASE ~(stage = "ended" /\ exit = 0 /\ (strict \/ diff.complete))
      BY <2>2 DEF PassIsEarned
    <2> QED BY <2>1, <2>2
  <1> QED BY <1>1, RunInvariant, GateInvariant, PTL

-----------------------------------------------------------------------------
(* Types.  A policy that decides has been checked when it was loaded.      *)

LEMMA LoadedIsPolicy ==
    ASSUME NEW file, IsPolicyFile(file), ~PolicyBroken(file)
    PROVE  Load(file) \in Policy
  <1>1. /\ DOMAIN FileDefaults = DOMAIN DefaultPolicy
        /\ DOMAIN DefaultPolicy =
              {"block_new_critical_paths", "block_new_sensitive_exposure",
               "block_public_admin_ports", "allow_public_https",
               "minimum_security_score"}
        /\ FileDefaults \in Policy
    <2>1. DefaultPolicy \in Policy
      BY DEF DefaultPolicy, Policy
    <2>2. FileDefaults \in Policy
      BY <2>1 DEF FileDefaults, Policy
    <2> QED BY <2>1, <2>2 DEF FileDefaults, DefaultPolicy
  <1> DEFINE given(key) == key \in DOMAIN file
  <1>2. \A key \in DOMAIN FileDefaults :
           Load(file)[key] = IF given(key) THEN file[key] ELSE FileDefaults[key]
    BY DEF Load
  <1>3. ASSUME NEW key \in {"block_new_critical_paths",
                            "block_new_sensitive_exposure",
                            "block_public_admin_ports", "allow_public_https"}
        PROVE  Load(file)[key] \in BOOLEAN
    <2>1. given(key) => file[key] \in BOOLEAN
      <3>1. ValuesOf(key) = BOOLEAN
        BY DEF ValuesOf
      <3> QED BY <3>1 DEF IsPolicyFile
    <2>2. FileDefaults[key] \in BOOLEAN
      BY <1>1 DEF Policy
    <2> QED BY <1>1, <1>2, <2>1, <2>2
  <1>4. Load(file).minimum_security_score \in 0..100
    BY DEF PolicyBroken
  <1>5. Load(file) = [key \in DOMAIN FileDefaults |-> Load(file)[key]]
    BY DEF Load
  <1> HIDE DEF given
  <1> QED BY <1>1, <1>3, <1>4, <1>5 DEF Policy

LEMMA FilesOf ==
    ASSUME WorldInv, stage # "engine"
    PROVE  /\ \A file \in {W.policy, W.given} :
                 file # <<>> => file = <<file[1]>> /\ IsPolicyFile(file[1])
           /\ W.dir = <<>> \/ W.dir \in {<<name>> : name \in Directories}
  <1>1. PICK w \in Worlds : W = w
    BY DEF WorldInv, W
  <1> QED BY <1>1, WorldAssumption

LEMMA LaxIsFile == IsPolicyFile(LaxPolicy)
  <1> DEFINE flags == {"block_new_critical_paths",
                       "block_new_sensitive_exposure",
                       "block_public_admin_ports"}
  <1>1. DOMAIN LaxPolicy = flags \cup {"terraform_dir"}
    BY DEF LaxPolicy
  <1>2. DOMAIN LaxPolicy \subseteq PolicyKeys
    <2>1. flags \subseteq DOMAIN DefaultPolicy
      BY DEF DefaultPolicy
    <2> QED BY <1>1, <2>1 DEF PolicyKeys
  <1>3. \A key \in flags : ValuesOf(key) = BOOLEAN /\ LaxPolicy[key] = FALSE
    BY DEF ValuesOf, LaxPolicy
  <1>4. /\ ValuesOf("terraform_dir") = Directories
        /\ LaxPolicy["terraform_dir"] = "other"
    BY DEF ValuesOf, LaxPolicy
  <1> HIDE DEF flags
  <1> QED BY <1>1, <1>2, <1>3, <1>4 DEF IsPolicyFile, Directories

LEMMA FoundIsPolicy ==
    ASSUME NEW file, file # <<>> => IsPolicyFile(file[1]),
           ~(file # <<>> /\ PolicyBroken(file[1]))
    PROVE  Found(file) \in Policy
  <1>1. DefaultPolicy \in Policy
    BY DEF DefaultPolicy, Policy
  <1> QED BY <1>1, LoadedIsPolicy DEF Found

LEMMA BaseFile ==
    ASSUME WorldInv, stage # "engine", NEW commit, PolicyIn(commit) # <<>>
    PROVE  IsPolicyFile(PolicyIn(commit)[1])
  BY FilesOf, LaxIsFile DEF PolicyIn

LEMMA DirOfFile ==
    ASSUME NEW file, file # <<>> => IsPolicyFile(file[1])
    PROVE  DirOf(file) = <<>> \/ DirOf(file) \in {<<name>> : name \in Directories}
  <1>1. ASSUME file # <<>>, "terraform_dir" \in DOMAIN file[1]
        PROVE  file[1].terraform_dir \in Directories
    <2>1. ValuesOf("terraform_dir") = Directories
      BY DEF ValuesOf
    <2> QED BY <1>1, <2>1 DEF IsPolicyFile
  <1> QED BY <1>1 DEF DirOf

LEMMA TrustedDirIs ==
    ASSUME WorldInv, stage # "engine", TrustedDir # <<>>
    PROVE  Range(TrustedDir) \subseteq Directories
  <1>1. DirOf(W.given) = <<>>
        \/ DirOf(W.given) \in {<<name>> : name \in Directories}
    BY FilesOf, DirOfFile
  <1>2. \/ DirOf(PolicyIn(pinned["base"])) = <<>>
        \/ DirOf(PolicyIn(pinned["base"])) \in {<<name>> : name \in Directories}
    BY BaseFile, DirOfFile
  <1>3. PICK name \in Directories : TrustedDir = <<name>>
    BY <1>1, <1>2, FilesOf DEF TrustedDir
  <1> QED BY <1>3, RangeOfOne

(* What a run chooses and writes, beside what RunInv and TellInv say of it.*)
ChoiceInv ==
    /\ root \in Directories
    /\ rules = <<>> \/ \E p \in Policy : rules = <<p>>
    /\ policy \in Policy
    /\ strict \in BOOLEAN /\ exit \in 0..3

WordsInv ==
    /\ decision \in {"none", "SAFE", "REVIEW", "BLOCK"}
    /\ left \in Seq(Artifact)
    /\ files \in [Artifact -> Said] /\ comment \in Said

ValuesInv ==
    /\ ChoiceInv /\ WordsInv
    /\ stage = "engine" => LocalInit

LEMMA ValuesStart ==
    ASSUME GateInit PROVE ValuesInv
  <1>1. /\ LocalInit /\ policy = DefaultPolicy /\ decision = "none"
    BY DEF GateInit, VerdictInit
  <1>2. DefaultPolicy \in Policy
    BY DEF DefaultPolicy, Policy
  <1>3. ChoiceInv
    BY <1>1, <1>2 DEF ChoiceInv, LocalInit, Directories
  <1>4. WordsInv
    <2>1. files = [a \in Artifact |-> "nothing"] /\ comment = "nothing"
          /\ left = <<>>
      BY <1>1 DEF LocalInit
    <2>2. "nothing" \in Said
      BY DEF Said
    <2>3. files \in [Artifact -> Said]
      BY <2>1, <2>2
    <2>4. left \in Seq(Artifact)
      BY <2>1
    <2> QED BY <1>1, <2>1, <2>2, <2>3, <2>4 DEF WordsInv
  <1> QED BY <1>1, <1>3, <1>4 DEF ValuesInv

(* The choices of a run: a step leaves them alone or makes one.            *)
LEMMA ChoicesGoOn ==
    ASSUME WorldInv, TrustInv, ChoiceInv, stage # "engine",
           [GateNext]_gateVars
    PROVE  ChoiceInv'
  <1>1. ASSUME UNCHANGED <<root, rules, policy, strict>>, exit' \in {exit, 2}
        PROVE  ChoiceInv'
    <2>1. exit' \in 0..3
      BY <1>1 DEF ChoiceInv
    <2> QED BY <1>1, <2>1 DEF ChoiceInv
  <1>2. CASE Fail
    BY <1>1, <1>2 DEF Fail, vars, verdictVars
  <1>3. CASE Ask /\ ~Fail
    <2>1. /\ UNCHANGED <<root, policy, strict, exit>>
          /\ W.given # <<>> => ~PolicyBroken(W.given[1])
          /\ rules' = IF W.given = <<>> THEN <<>> ELSE <<Load(W.given[1])>>
      BY <1>3 DEF Ask, Go, vars, verdictVars
    <2>2. W.given # <<>> => Load(W.given[1]) \in Policy
      BY <2>1, FilesOf, LoadedIsPolicy
    <2> QED BY <2>1, <2>2 DEF ChoiceInv
  <1>4. CASE SelectRoot /\ ~Fail
    <2>1. /\ UNCHANGED <<rules, policy, strict, exit>>
          /\ root' \in IF TrustedDir # <<>> THEN Range(TrustedDir)
                       ELSE Roots(pinned["base"]) \cup Roots(pinned["head"])
      BY <1>4 DEF SelectRoot, Go, vars, verdictVars
    <2>2. \A commit : Roots(commit) \subseteq Directories
      BY DEF Roots, Directories
    <2>3. root' \in Directories
      BY <2>1, <2>2, TrustedDirIs
    <2> QED BY <2>1, <2>3 DEF ChoiceInv
  <1>5. CASE ReadBasePolicy /\ ~Fail
    <2>1. /\ UNCHANGED <<root, policy, strict, exit>>
          /\ ~(rules = <<>> /\ BasePolicyBroken)
          /\ rules' = IF rules # <<>> THEN rules
                      ELSE <<Found(PolicyIn(pinned["base"]))>>
      BY <1>5 DEF ReadBasePolicy, Go, vars, verdictVars
    <2>2. rules = <<>> => Found(PolicyIn(pinned["base"])) \in Policy
      BY <2>1, BaseFile, FoundIsPolicy DEF BasePolicyBroken
    <2> QED BY <2>1, <2>2 DEF ChoiceInv
  <1>6. CASE Report /\ ~Fail
    <2>1. /\ UNCHANGED <<root, rules, exit>>
          /\ ~(rules = <<>> /\ W.policy # <<>> /\ PolicyBroken(W.policy[1]))
          /\ DecideWith(IF rules # <<>> THEN rules[1] ELSE Found(W.policy))
          /\ strict' \in IF Worker \/ W.form = "action" THEN {TRUE} ELSE BOOLEAN
      BY <1>6, Zenon DEF Report
    <2>2. strict' \in BOOLEAN
      BY <2>1
    <2>3. policy' = IF rules # <<>> THEN rules[1] ELSE Found(W.policy)
      BY <2>1 DEF DecideWith
    <2>4. rules = <<>> => Found(W.policy) \in Policy
      BY <2>1, FilesOf, FoundIsPolicy
    <2>5. rules # <<>> => rules[1] \in Policy
      BY DEF ChoiceInv
    <2>6. policy' \in Policy
      BY <2>3, <2>4, <2>5
    <2> QED BY <2>1, <2>2, <2>6 DEF ChoiceInv
  <1>7. CASE Answer \/ PrintReport
    <2>1. /\ UNCHANGED <<root, rules, policy, strict>>
          /\ exit' \in {2, ExitCode}
      BY <1>7 DEF Answer, PrintReport, Fail, writeVars, vars, verdictVars
    <2>2. ExitCode \in {0, 1}
      BY DEF ExitCode
    <2>3. exit' \in 0..3
      BY <2>1, <2>2
    <2> QED BY <2>1, <2>3 DEF ChoiceInv
  <1>8. CASE Build \/ Analyze \/ CompareSides
    <2>1. /\ UNCHANGED <<root, rules, strict, policy>> /\ exit' \in {exit, 2}
      BY <1>8 DEF Build, Fail, Analyze, Search, StartAfter, CompareSides,
         CompareWith, local, vars, verdictVars
    <2> QED BY <1>1, <2>1
  <1>9. CASE Parse /\ ~Fail
    BY <1>1, <1>9 DEF Parse, Go, vars, verdictVars
  <1>10. ASSUME NEW s \in End, PinRef(s) \/ Materialize(s), ~Fail
         PROVE  ChoiceInv'
    BY <1>1, <1>10 DEF PinRef, Materialize, Go, vars, verdictVars
  <1>11. CASE MoveRef
    BY <1>1, <1>11 DEF MoveRef, vars, verdictVars
  <1>12. CASE WriteCommentFile \/ Deliver \/ DeliverError
    BY <1>1, <1>12 DEF WriteCommentFile, Deliver, DeliverError, Interrupted,
       writeVars, vars, verdictVars
  <1>13. CASE CheckHead \/ PostComment
    BY <1>1, <1>13 DEF CheckHead, PostComment, local, vars, verdictVars
  <1>14. CASE UNCHANGED gateVars
    BY <1>1, <1>14 DEF gateVars, local, vars, verdictVars
  <1> QED
    BY <1>2, <1>3, <1>4, <1>5, <1>6, <1>7, <1>8, <1>9, <1>10, <1>11, <1>12,
       <1>13, <1>14 DEF GateNext, Engine

LEMMA SaidIs ==
    /\ {"nothing", "partial", "SAFE", "REVIEW", "BLOCK", "ERROR",
        "refused"} \subseteq Said
    /\ files \in [Artifact -> Said] =>
          \A said \in Said : \A a :
             [files EXCEPT ![a] = said] \in [Artifact -> Said]
  BY DEF Said

LEMMA DecidedBy ==
    ASSUME SidesInv, StageInv, WordsInv,
           stage \in {"answer", "comment file", "deliver", "print"}
    PROVE  decision \in Said /\ decision # "none"
  BY DEF SidesInv, StageInv, WordsInv, Said

(* What is written is one of the words.                                    *)
LEMMA WordsGoOn ==
    ASSUME SidesInv, StageInv, WriteInv, WordsInv, stage # "engine",
           [GateNext]_gateVars
    PROVE  WordsInv'
  <1>1. ASSUME UNCHANGED <<decision, comment>>, left' \in {left, Deliverables},
               \/ files' = files
               \/ \E a : \E said \in Said :
                     files' = [files EXCEPT ![a] = said]
        PROVE  WordsInv'
    <2>1. left' \in Seq(Artifact)
      BY <1>1, DeliverablesAre DEF WordsInv
    <2>2. files' \in [Artifact -> Said]
      BY <1>1, SaidIs DEF WordsInv
    <2> QED BY <1>1, <2>1, <2>2 DEF WordsInv
  <1>2. CASE Fail
    BY <1>1, <1>2, SaidIs DEF Fail, vars, verdictVars
  <1>3. ASSUME UNCHANGED <<decision, comment, left, files>>
        PROVE  WordsInv'
    BY <1>1, <1>3
  <1>4. CASE (Ask \/ SelectRoot \/ ReadBasePolicy \/ Parse) /\ ~Fail
    BY <1>3, <1>4 DEF Ask, SelectRoot, ReadBasePolicy, Parse, Go, vars,
       verdictVars
  <1>5. ASSUME NEW s \in End, PinRef(s) \/ Materialize(s), ~Fail
        PROVE  WordsInv'
    BY <1>3, <1>5 DEF PinRef, Materialize, Go, vars, verdictVars
  <1>6. CASE (Build \/ Analyze \/ CompareSides) /\ ~Fail
    <2>1. UNCHANGED <<decision, comment, left, files>>
      BY <1>6 DEF Build, Analyze, Search, StartAfter, CompareSides,
         CompareWith, local, verdictVars
    <2> QED BY <1>3, <2>1
  <1>7. CASE Report /\ ~Fail
    <2>1. /\ UNCHANGED <<files, comment>>
          /\ DecideWith(IF rules # <<>> THEN rules[1] ELSE Found(W.policy))
          /\ left' = IF Worker THEN <<>> ELSE Deliverables
      BY <1>7, Zenon DEF Report
    <2>2. decision' \in {"SAFE", "REVIEW", "BLOCK"}
      BY <2>1 DEF DecideWith, Decide
    <2>3. left' \in Seq(Artifact)
      BY <2>1, DeliverablesAre
    <2> QED BY <2>1, <2>2, <2>3 DEF WordsInv
  <1>8. CASE Answer
    <2>1. /\ files' = [files EXCEPT !["answer"] =
                          IF ResultRefused THEN "refused" ELSE decision]
          /\ UNCHANGED <<decision, comment, left>>
          /\ stage = "answer"
      BY <1>8 DEF Answer, vars, verdictVars
    <2>2. (IF ResultRefused THEN "refused" ELSE decision) \in Said
      BY <2>1, SaidIs, DecidedBy
    <2> QED BY <1>1, <2>1, <2>2
  <1>9. ASSUME NEW a, Interrupted(a) PROVE WordsInv'
    <2>1. /\ UNCHANGED <<decision, comment>> /\ left' = Deliverables
          /\ files' \in {files, [files EXCEPT ![a] = "partial"]}
      BY <1>9 DEF Interrupted, NotWritten, writeVars, vars, verdictVars
    <2> QED BY <1>1, <2>1, SaidIs
  <1>10. CASE WriteCommentFile
    <2>1. CASE Interrupted("comment.md")
      BY <1>9, <2>1
    <2>2. CASE ~Interrupted("comment.md")
      <3>1. /\ UNCHANGED <<decision, comment, left>>
            /\ \/ files' = files
               \/ files' = [files EXCEPT !["comment.md"] = decision]
            /\ stage = "comment file"
        BY <1>10, <2>2 DEF WriteCommentFile, Written, writeVars, vars,
           verdictVars
      <3>2. decision \in Said
        BY <3>1, DecidedBy
      <3> QED BY <1>1, <3>1, <3>2
    <2> QED BY <2>1, <2>2
  <1>11. ASSUME NEW said \in Said, Written(Head(left), said), left # <<>>,
                left' = Tail(left), UNCHANGED <<decision, comment>>
         PROVE  WordsInv'
    <2>1. files' \in [Artifact -> Said]
      BY <1>11, SaidIs DEF WordsInv, Written
    <2>2. left' \in Seq(Artifact)
      BY <1>11 DEF WordsInv
    <2> QED BY <1>11, <2>1, <2>2 DEF WordsInv
  <1>12. CASE Deliver
    <2>1. CASE Interrupted(Head(left))
      BY <1>9, <2>1
    <2>2. CASE ~Interrupted(Head(left))
      <3>1. /\ UNCHANGED <<decision, comment>> /\ left' = Tail(left)
            /\ Written(Head(left), decision) /\ stage = "deliver"
        BY <1>12, <2>2 DEF Deliver, writeVars, vars, verdictVars
      <3>2. decision \in Said
        BY <3>1, DecidedBy
      <3>3. left # <<>>
        BY <3>1 DEF WriteInv, SaysOrLeft
      <3> QED BY <1>11, <3>1, <3>2, <3>3
    <2> QED BY <2>1, <2>2
  <1>13. CASE DeliverError
    <2>1. UNCHANGED <<decision, comment>> /\ stage = "error"
      BY <1>13 DEF DeliverError, writeVars, vars, verdictVars
    <2>2. CASE NotWritten(Head(left)) /\ UNCHANGED left
      BY <1>1, <2>1, <2>2, SaidIs DEF NotWritten
    <2>3. CASE Written(Head(left), "ERROR") /\ left' = Tail(left)
      <3>1. left # <<>>
        BY <2>1 DEF WriteInv, SaysOrLeft
      <3> QED BY <1>11, <2>1, <2>3, <3>1, SaidIs
    <2> QED BY <1>13, <2>2, <2>3 DEF DeliverError
  <1>14. CASE PrintReport /\ ~Fail
    BY <1>3, <1>14 DEF PrintReport, writeVars, vars, verdictVars
  <1>15. CASE MoveRef \/ CheckHead
    BY <1>3, <1>15 DEF MoveRef, CheckHead, local, vars, verdictVars
  <1>16. CASE PostComment
    <2>1. /\ UNCHANGED <<decision, left, files>>
          /\ comment' \in {comment, files["report.md"]}
      BY <1>16 DEF PostComment, vars, verdictVars
    <2>2. files["report.md"] \in Said
      BY DEF WordsInv, Artifact
    <2> QED BY <2>1, <2>2 DEF WordsInv
  <1>17. CASE UNCHANGED gateVars
    BY <1>3, <1>17 DEF gateVars, local, vars, verdictVars
  <1> QED
    BY <1>2, <1>4, <1>5, <1>6, <1>7, <1>8, <1>10, <1>12, <1>13, <1>14, <1>15,
       <1>16, <1>17 DEF GateNext, Engine

LEMMA ValuesGoOn ==
    ASSUME ValuesInv, RunInv, EngineInv', TellInv, [GateNext]_gateVars
    PROVE  ValuesInv'
  <1>1. WorldInv /\ (stage = "engine" <=> stage' = "engine")
    BY WorldStays DEF RunInv
  <1>2. CASE stage = "engine"
    <2>1. UNCHANGED local
      BY <1>2, WorldStays DEF RunInv, Engine, gateVars
    <2>2. LocalInit'
      BY <1>2, <2>1 DEF ValuesInv, LocalInit, local
    <2>3. VerdictInv'
      BY <1>1, <1>2 DEF EngineInv
    <2>4. policy' \in Policy /\ decision' \in {"none", "SAFE", "REVIEW", "BLOCK"}
      BY <2>3 DEF VerdictInv
    <2>5. ChoiceInv' /\ WordsInv'
      BY <2>1, <2>4 DEF local, ChoiceInv, WordsInv, ValuesInv
    <2> QED BY <2>2, <2>5 DEF ValuesInv
  <1>3. CASE stage # "engine"
    <2>1. WorldInv /\ TrustInv /\ SidesInv /\ StageInv /\ WriteInv
      BY <1>3 DEF RunInv, TellInv
    <2>2. ChoiceInv' /\ WordsInv'
      BY <1>3, <2>1, ChoicesGoOn, WordsGoOn DEF ValuesInv
    <2> QED BY <1>1, <1>3, <2>2 DEF ValuesInv
  <1> QED BY <1>2, <1>3

(* A run only ever has refs, commits, directories, policies, words and exit*)
(* codes that the code has a name for: what load_policy_data() accepts is a*)
(* policy, and every write is one of the artifacts.                        *)
THEOREM ValuesInvariant == GateSpec => []ValuesInv
  <1>1. GateInit => ValuesInv
    BY ValuesStart
  <1>2. ValuesInv /\ RunInv /\ EngineInv' /\ TellInv /\ [GateNext]_gateVars
        => ValuesInv'
    BY ValuesGoOn
  <1> QED BY <1>1, <1>2, RunInvariant, EngineInvariant, TellingInvariant, PTL
      DEF GateSpec

LEMMA TypesOfRun ==
    ASSUME GateInv, RunInv, EngineInv, ValuesInv
    PROVE  GateTypeOK
  <1>1. SearchesInv /\ DecisionInv /\ ChoiceInv /\ WordsInv
    BY DEF GateInv, ValuesInv
  <1>2. TypeOK
    <2>1. SearchTypeOK
      BY <1>1, RunsAreOfCandidates, SearchTypes DEF SearchesInv
    <2>2. side \in Side
      BY DEF RunInv, StageInv, EngineInv, VerdictInv, Side
    <2>3. ASSUME side \notin {"idle", "before"} PROVE before.score \in 0..100
      <3> DEFINE here == \E p \in before.paths : ReachesSensitive(p)
      <3>1. Outcome(before)
        BY <1>1, <2>2, <2>3 DEF DecisionInv, BaselineInv, Side
      <3>2. before.score = Score(before.graph, here) /\ Built(before.graph)
        BY <3>1 DEF Outcome
      <3> HIDE DEF here
      <3> QED BY <3>2, ScoreInRange
    <2> QED BY <1>1, <2>1, <2>2, <2>3 DEF TypeOK, ChoiceInv, WordsInv
  <1>3. Len(world) \in 0..1
    <2>1. world = <<>> \/ \E w : world = <<w>>
      BY DEF RunInv, WorldInv
    <2> QED BY <2>1
  <1>4. /\ refs \in [End -> Commit] /\ pinned \in [End -> Commit]
        /\ DOMAIN input = End /\ DOMAIN configs \in {{}, End}
    <2>1. CASE stage = "engine"
      <3>1. LocalInit
        BY <2>1 DEF ValuesInv
      <3>2. Pins \in [End -> Commit]
        BY DEF Pins, End, Commit
      <3>3. DOMAIN configs = {}
        BY <3>1 DEF LocalInit
      <3> QED BY <3>1, <3>2, <3>3 DEF LocalInit
    <2>2. CASE stage # "engine"
      <3>1. TrustInv /\ InputInv
        BY <2>2 DEF RunInv
      <3>2. CASE configs = <<>>
        <4>1. DOMAIN configs = {}
          BY <3>2
        <4> QED BY <3>1, <4>1 DEF TrustInv, InputInv
      <3>3. CASE configs # <<>>
        BY <3>1, <3>3 DEF TrustInv, InputInv
      <3> QED BY <3>2, <3>3
    <2> QED BY <2>1, <2>2
  <1>5. Len(rules) \in 0..1 /\ Range(rules) \subseteq Policy
    <2>1. CASE rules = <<>>
      BY <2>1 DEF Range
    <2>2. CASE rules # <<>>
      <3>1. PICK p \in Policy : rules = <<p>>
        BY <1>1, <2>2 DEF ChoiceInv
      <3> QED BY <3>1, RangeOfOne
    <2> QED BY <2>1, <2>2
  <1>6. Range(left) \subseteq Artifact
    BY <1>1, RangeOfSeq DEF WordsInv
  <1> QED BY <1>1, <1>2, <1>3, <1>4, <1>5, <1>6
      DEF GateTypeOK, ChoiceInv, WordsInv

(* Types of a run from end to end; and the graphs of both sides drop       *)
(* nothing that the rules find in a text, since each finding is one of the *)
(* candidates (build_graph() adds an edge for each).                       *)
THEOREM GateTypes == GateSpec => []GateTypeOK
  <1> QED BY TypesOfRun, GateInvariant, RunInvariant, EngineInvariant,
             ValuesInvariant, PTL

-----------------------------------------------------------------------------
(* The landscapes the edits aim at, field by field.                        *)
LEMMA RepairedIs ==
    ASSUME NEW l \in Landscapes
    PROVE  LET m == Repaired(l) IN
           /\ \A g \in Groups : m.open[g] = l.open[g] \ Exposing
           /\ m.public = l.public \ {"acl"} /\ m.blocked = l.blocked
           /\ m.attached = l.attached /\ m.access = l.access
           /\ m.sensitive = l.sensitive
  BY DEF Repaired, Landscapes, Exposing

LEMMA OpenedIs ==
    ASSUME NEW l \in Landscapes
    PROVE  LET m == Opened(l) IN
           /\ \A g \in Groups : m.open[g] = l.open[g] \cup {"admin"}
           /\ m.public = l.public /\ m.blocked = l.blocked
           /\ m.attached = l.attached /\ m.access = l.access
           /\ m.sensitive = l.sensitive
  BY DEF Opened, Landscapes

(* The edges of a landscape: to its groups, to its public bucket, inside.  *)
LEMMA EdgesOfLand ==
    ASSUME NEW l \in Landscapes, NEW e
    PROVE  e \in TrueEdges(l) <=>
              \/ \E g \in Groups : l.open[g] # {} /\ e = <<Internet, g>>
              \/ ~l.blocked /\ l.public # {} /\ e = <<Internet, "b1">>
              \/ e \in InnerEdges(l)
  BY DEF TrueEdges, InnerEdges

LEMMA InnerByFields ==
    ASSUME NEW l, NEW m, m.attached = l.attached, m.access = l.access,
           m.sensitive = l.sensitive
    PROVE  InnerEdges(m) = InnerEdges(l)
  BY DEF InnerEdges

(* The same parts of the findings of a configuration.                      *)
LEMMA IngressEdges ==
    ASSUME NEW rs, NEW e
    PROVE  (\E f \in IngressFindings(rs) : EdgeOf(f) = e) <=>
              \E sg \in OfType(rs, "aws_security_group") :
                 PublicIngress(sg) # {} /\ e = <<Internet, sg.address>>
  BY IngressAre, EdgeEnds

LEMMA PublicEdge ==
    ASSUME NEW rs, NEW b \in OfType(rs, "aws_s3_bucket"), NEW risk,
           IsPublic(rs, Edge(Internet, b.address, "PUBLIC_ACCESS", risk,
                             "none"))
    PROVE  \E f \in PublicFindings(rs) : EdgeOf(f) = <<Internet, b.address>>
  <1> DEFINE f == Edge(Internet, b.address, "PUBLIC_ACCESS", risk, "none")
  <1>1. EdgeOf(f) = <<Internet, b.address>> /\ IsPublic(rs, f)
    BY EdgeEnds
  <1> HIDE DEF f
  <1> QED BY <1>1, PublicsAre

LEMMA PublicEdgesOf ==
    ASSUME NEW rs, NEW e
    PROVE  (\E f \in PublicFindings(rs) : EdgeOf(f) = e) <=>
              \E b \in OfType(rs, "aws_s3_bucket") :
                 /\ OpenByPolicy(rs, b) \/ OpenByAcl(rs, b)
                 /\ e = <<Internet, b.address>>
  <1>1. ASSUME NEW f \in PublicFindings(rs), EdgeOf(f) = e
        PROVE  \E b \in OfType(rs, "aws_s3_bucket") :
                  /\ OpenByPolicy(rs, b) \/ OpenByAcl(rs, b)
                  /\ e = <<Internet, b.address>>
    <2>1. IsPublic(rs, f)
      BY <1>1, PublicsAre
    <2>2. PICK b \in OfType(rs, "aws_s3_bucket") :
            /\ OpenByPolicy(rs, b) \/ OpenByAcl(rs, b)
            /\ \E risk : f = Edge(Internet, b.address, "PUBLIC_ACCESS", risk,
                                  "none")
      BY <2>1 DEF IsPublic, OpenByPolicy, OpenByAcl
    <2> QED BY <1>1, <2>2, EdgeEnds
  <1>2. ASSUME NEW b \in OfType(rs, "aws_s3_bucket"),
               OpenByPolicy(rs, b) \/ OpenByAcl(rs, b),
               e = <<Internet, b.address>>
        PROVE  \E f \in PublicFindings(rs) : EdgeOf(f) = e
    <2>1. CASE OpenByPolicy(rs, b)
      <3>1. IsPublic(rs, Edge(Internet, b.address, "PUBLIC_ACCESS", CRITICAL,
                              "none"))
        BY <2>1 DEF OpenByPolicy, IsPublic
      <3> QED BY <1>2, <3>1, PublicEdge
    <2>2. CASE OpenByAcl(rs, b)
      <3>1. PICK acl \in PublicAcls(rs, b) : TRUE
        BY <2>2 DEF OpenByAcl
      <3> DEFINE risk == IF acl[2] = "public-read-write" THEN CRITICAL ELSE HIGH
      <3>2. IsPublic(rs, Edge(Internet, b.address, "PUBLIC_ACCESS", risk,
                              "none"))
        BY <2>2, <3>1 DEF OpenByAcl, IsPublic
      <3> HIDE DEF risk
      <3> QED BY <1>2, <3>2, PublicEdge
    <2> QED BY <1>2, <2>1, <2>2
  <1> QED BY <1>1, <1>2

LEMMA FoundEdges ==
    ASSUME NEW config, NEW e
    PROVE  LET rs == Unambiguous(config) IN
           (\E f \in Findings(config) : EdgeOf(f) = e) <=>
              \/ \E f \in IngressFindings(rs) : EdgeOf(f) = e
              \/ \E f \in PublicFindings(rs) : EdgeOf(f) = e
              \/ e \in {EdgeOf(f) : f \in InnerFindings(rs)}
  <1> DEFINE rs == Unambiguous(config)
  <1>1. Findings(config) = IngressFindings(rs) \cup PublicFindings(rs)
                           \cup InnerFindings(rs)
    BY DEF Findings, InnerFindings
  <1> HIDE DEF rs
  <1> QED BY <1>1 DEF rs

-----------------------------------------------------------------------------
(* A repaired configuration leads to the repaired landscape.               *)
LEMMA RepairLeads ==
    ASSUME NEW c, NEW d, EditedFrom(c, d, "restrict"),
           NEW l \in Landscapes, Repairable(c, l)
    PROVE  {EdgeOf(f) : f \in Findings(d)} = TrueEdges(Repaired(l))
  <1> DEFINE rs == Unambiguous(c)  ss == Unambiguous(d)  m == Repaired(l)
             S == OfType(rs, "aws_security_group")
             T == OfType(ss, "aws_security_group")
             B == OfType(rs, "aws_s3_bucket")
             D == OfType(ss, "aws_s3_bucket")
  <1>0. "restrict" \in Edits /\ m \in Landscapes
    BY DEF Edits, Repaired, Landscapes
  <1>1. ASSUME NEW e
        PROVE  (\E f \in IngressFindings(ss) : EdgeOf(f) = e) <=>
                  \E g \in Groups : m.open[g] # {} /\ e = <<Internet, g>>
    <2>1. (\E f \in IngressFindings(ss) : EdgeOf(f) = e) <=>
             \E s \in T : PublicIngress(s) # {} /\ e = <<Internet, s.address>>
      BY IngressEdges
    <2>2. /\ \A r \in S : /\ EditBlock(r, "restrict") \in T
                          /\ EditBlock(r, "restrict").address = r.address
                          /\ PublicIngress(EditBlock(r, "restrict"))
                                = PlainPublic(r)
          /\ \A s \in T : \E r \in S : s = EditBlock(r, "restrict")
      BY <1>0, EditedType, RestrictIngress
    <2>3. \A g : g \in PlainOpen(rs) <=>
             \E r \in S : PlainPublic(r) # {} /\ g = r.address
      BY DEF PlainOpen
    <2>4. PlainOpen(rs) = {g \in Groups : l.open[g] \ Exposing # {}}
      BY DEF Repairable
    <2>5. \A g \in Groups : m.open[g] = l.open[g] \ Exposing
      BY RepairedIs
    <2> HIDE DEF rs, ss, m, S, T
    <2>6. (\E s \in T : PublicIngress(s) # {} /\ e = <<Internet, s.address>>)
             <=> \E r \in S : PlainPublic(r) # {} /\ e = <<Internet, r.address>>
      BY <2>2
    <2>7. (\E r \in S : PlainPublic(r) # {} /\ e = <<Internet, r.address>>)
             <=> \E g \in PlainOpen(rs) : e = <<Internet, g>>
      BY <2>3
    <2> QED BY <2>1, <2>4, <2>5, <2>6, <2>7
  <1>2. ASSUME NEW e
        PROVE  (\E f \in PublicFindings(ss) : EdgeOf(f) = e) <=>
                  ~m.blocked /\ m.public # {} /\ e = <<Internet, "b1">>
    <2>1. (\E f \in PublicFindings(ss) : EdgeOf(f) = e) <=>
             \E s \in D : /\ OpenByPolicy(ss, s) \/ OpenByAcl(ss, s)
                          /\ e = <<Internet, s.address>>
      BY PublicEdgesOf
    <2>2. ASSUME NEW s \in D PROVE ~OpenByAcl(ss, s)
      <3>1. PICK b \in B : s = EditBlock(b, "restrict")
        BY <1>0, EditedType
      <3>2. \A x \in PublicAcls(ss, s) :
               x \in PublicAcls(rs, b) /\ PrivateAcl(x) = x
        BY <3>1, RestrictAcls
      <3>3. \A x \in PublicAcls(rs, b) : PrivateAcl(x) # x
        BY <3>1 DEF Repairable
      <3> QED BY <3>2, <3>3 DEF OpenByAcl
    <2>3. PolicyOpen(ss) = PolicyOpen(rs)
      BY <1>0, PolicySame
    <2>4. PolicyOpen(rs) =
             IF ~l.blocked /\ "policy" \in l.public THEN {"b1"} ELSE {}
      BY DEF Repairable
    <2>5. \A a : a \in PolicyOpen(ss) <=>
             \E s \in D : OpenByPolicy(ss, s) /\ a = s.address
      BY DEF PolicyOpen
    <2>6. m.public = l.public \ {"acl"} /\ m.blocked = l.blocked
      BY RepairedIs
    <2>7. l.public \subseteq {"acl", "policy"}
      BY DEF Landscapes
    <2>8. m.public # {} <=> "policy" \in l.public
      BY <2>6, <2>7
    <2> HIDE DEF rs, ss, m, D
    <2>9. (\E f \in PublicFindings(ss) : EdgeOf(f) = e) <=>
             \E a \in PolicyOpen(rs) : e = <<Internet, a>>
      BY <2>1, <2>2, <2>3, <2>5
    <2> QED BY <2>4, <2>6, <2>8, <2>9
  <1>3. {EdgeOf(f) : f \in InnerFindings(ss)} = InnerEdges(m)
    <2>1. InnerFindings(ss) = InnerFindings(rs)
      BY <1>0, InnerSame
    <2>2. {EdgeOf(f) : f \in InnerFindings(rs)} = InnerEdges(l)
      BY DEF Repairable
    <2> QED BY <2>1, <2>2, RepairedIs, InnerByFields
  <1>4. ASSUME NEW e
        PROVE  (\E f \in Findings(d) : EdgeOf(f) = e) <=> e \in TrueEdges(m)
    BY <1>0, <1>1, <1>2, <1>3, FoundEdges, EdgesOfLand
  <1> QED BY <1>4

(* A configuration with SSH opened leads to the landscape with SSH opened. *)
LEMMA WidenLeads ==
    ASSUME NEW c, NEW d, EditedFrom(c, d, "widen"), NEW l, NEW style,
           Clear(c, l, style, {}), Absent(l, {}),
           Unambiguous(c) = Range(c.resources)
    PROVE  {EdgeOf(f) : f \in Findings(d)} = TrueEdges(Opened(l))
  <1> DEFINE rs == Unambiguous(c)  ss == Unambiguous(d)  m == Opened(l)
             S == OfType(rs, "aws_security_group")
             T == OfType(ss, "aws_security_group")
             B == OfType(rs, "aws_s3_bucket")
             D == OfType(ss, "aws_s3_bucket")
  <1>0. "widen" \in Edits /\ l \in Landscapes /\ m \in Landscapes
    <2>1. l \in Landscapes
      BY DEF Absent
    <2> QED BY <2>1 DEF Edits, Opened, Landscapes
  <1>1. ASSUME NEW e
        PROVE  (\E f \in IngressFindings(ss) : EdgeOf(f) = e) <=>
                  \E g \in Groups : m.open[g] # {} /\ e = <<Internet, g>>
    <2>1. (\E f \in IngressFindings(ss) : EdgeOf(f) = e) <=>
             \E s \in T : PublicIngress(s) # {} /\ e = <<Internet, s.address>>
      BY IngressEdges
    <2>2. /\ \A r \in S : /\ EditBlock(r, "widen") \in T
                          /\ EditBlock(r, "widen").address = r.address
                          /\ WellMade(r)
          /\ \A s \in T : \E r \in S : s = EditBlock(r, "widen")
      BY <1>0, EditedType
    <2>3. ASSUME NEW r \in S
          PROVE  /\ PublicIngress(EditBlock(r, "widen")) # {}
                 /\ r.address \in Groups
      <3>1. /\ r.address \in Groups
            /\ PrivateRule(style) \in Rules(r)
        BY GroupIs
      <3>2. /\ PrivateRule(style).ports # <<"expr">>
            /\ ReachesAdminPort(PrivateRule(style))
        <4>1. PrivateRule(style).ports = <<22, 22>>
          BY DEF PrivateRule
        <4>2. <<22, 22>>[1] = 22 /\ <<22, 22>>[2] = 22
          OBVIOUS
        <4>3. PrivateRule(style).ports \notin {<<>>, <<"expr">>}
          BY <4>1
        <4> QED BY <4>1, <4>2, <4>3 DEF ReachesAdminPort, AdminPorts
      <3> QED BY <2>2, <3>1, <3>2, WidenPlain
    <2>4. \A g \in Groups : \E r \in S : r.address = g
      BY GroupThere
    <2>5. \A g \in Groups : m.open[g] # {}
      BY <1>0, OpenedIs
    <2> HIDE DEF rs, ss, m, S, T
    <2> QED BY <2>1, <2>2, <2>3, <2>4, <2>5
  <1>2. ASSUME NEW e
        PROVE  (\E f \in PublicFindings(ss) : EdgeOf(f) = e) <=>
                  ~m.blocked /\ m.public # {} /\ e = <<Internet, "b1">>
    <2>1. (\E f \in PublicFindings(ss) : EdgeOf(f) = e) <=>
             \E s \in D : /\ OpenByPolicy(ss, s) \/ OpenByAcl(ss, s)
                          /\ e = <<Internet, s.address>>
      BY PublicEdgesOf
    <2>2. (\E f \in PublicFindings(rs) : EdgeOf(f) = e) <=>
             \E b \in B : /\ OpenByPolicy(rs, b) \/ OpenByAcl(rs, b)
                          /\ e = <<Internet, b.address>>
      BY PublicEdgesOf
    <2>3. ASSUME NEW b \in B
          PROVE  LET s == EditBlock(b, "widen") IN
                 /\ s \in D /\ s.address = b.address
                 /\ OpenByPolicy(ss, s) <=> OpenByPolicy(rs, b)
                 /\ OpenByAcl(ss, s) <=> OpenByAcl(rs, b)
      <3>1. /\ EditBlock(b, "widen") \in D
            /\ EditBlock(b, "widen").address = b.address
        BY <1>0, EditedType
      <3>2. OpenByPolicy(ss, EditBlock(b, "widen")) <=> OpenByPolicy(rs, b)
        BY <1>0, PolicySame
      <3>3. \A flag \in Flags :
               Controlled(ss, EditBlock(b, "widen"), flag)
                  <=> Controlled(rs, b, flag)
        BY <1>0, BucketEdited
      <3>4. PublicAcls(ss, EditBlock(b, "widen")) = PublicAcls(rs, b)
        BY WidenAcls
      <3> QED BY <3>1, <3>2, <3>3, <3>4 DEF OpenByAcl, Flags
    <2>4. \A s \in D : \E b \in B : s = EditBlock(b, "widen")
      BY <1>0, EditedType
    <2>5. (\E f \in PublicFindings(rs) : EdgeOf(f) = e) <=>
             ~l.blocked /\ l.public # {} /\ e = <<Internet, "b1">>
      BY PublicExact
    <2>6. m.public = l.public /\ m.blocked = l.blocked
      BY <1>0, OpenedIs
    <2> HIDE DEF rs, ss, m, B, D
    <2>7. (\E f \in PublicFindings(ss) : EdgeOf(f) = e) <=>
             \E f \in PublicFindings(rs) : EdgeOf(f) = e
      BY <2>1, <2>2, <2>3, <2>4
    <2> QED BY <2>5, <2>6, <2>7
  <1>3. {EdgeOf(f) : f \in InnerFindings(ss)} = InnerEdges(m)
    <2>1. InnerFindings(ss) = InnerFindings(rs)
      BY <1>0, InnerSame
    <2>2. {EdgeOf(f) : f \in InnerFindings(rs)} = InnerEdges(l)
      BY InnerIs
    <2> QED BY <1>0, <2>1, <2>2, OpenedIs, InnerByFields
  <1>4. ASSUME NEW e
        PROVE  (\E f \in Findings(d) : EdgeOf(f) = e) <=> e \in TrueEdges(m)
    BY <1>0, <1>1, <1>2, <1>3, FoundEdges, EdgesOfLand
  <1> QED BY <1>4

-----------------------------------------------------------------------------
(* The limit of the graph holds all the edges a landscape can have.        *)
AllEdgesFit == Cardinality({EdgeOf(f) : f \in RuleFindings}) <= MaxGraphEdges

LEMMA NoneDropped ==
    ASSUME AllEdgesFit, NEW config \in SUBSET RuleFindings
    PROVE  ~EdgeLimitReached(BuildGraph(config))
  <1> DEFINE g == BuildGraph(config)
             X == {EdgeOf(f) : f \in RuleFindings}
             N == Len(Candidates)
  <1>1. RuleFindings \subseteq Range(Candidates)
    BY LandscapeAssumption
  <1>2. IsFiniteSet(X)
    <2> DEFINE h == [f \in RuleFindings |-> EdgeOf(f)]
    <2>1. IsFiniteSet(DOMAIN h)
      BY <1>1, CandidatesAreFinite, FS_Subset
    <2>2. Range(h) = X
      BY DEF Range
    <2> HIDE DEF h, X
    <2> QED BY <2>1, <2>2, ImageFinite
  <1>3. DOMAIN Candidates = 1..N /\ MaxGraphEdges \in Nat
    BY GraphAssumption, LenProperties
  <1>4. g.findings = config /\ Worst(config, g.edges, N)
    BY BuiltWorst
  <1>5. Cardinality(X) <= MaxGraphEdges
    BY DEF AllEdgesFit
  <1> HIDE DEF g, N
  <1> SUFFICES ASSUME NEW f \in config, EdgeOf(f) \notin DOMAIN g.edges
               PROVE  FALSE
    BY <1>4 DEF EdgeLimitReached, g
  <1>6. PICK j \in 1..N : f = Candidates[j]
    BY <1>1, <1>3 DEF Range
  <1>7. Cardinality(DOMAIN g.edges) >= MaxGraphEdges
    BY <1>4, <1>6 DEF Worst
  <1>8. DOMAIN g.edges \subseteq X \ {EdgeOf(f)}
    <2>1. \A e \in DOMAIN g.edges : g.edges[e] \in config
                                    /\ EdgeOf(g.edges[e]) = e
      BY <1>4 DEF Worst
    <2> QED BY <2>1
  <1>9. EdgeOf(f) \in X
    OBVIOUS
  <1> DEFINE Y == X \ {EdgeOf(f)}
  <1> HIDE DEF X
  <1>10. /\ IsFiniteSet(Y)
         /\ Cardinality(Y) = Cardinality(X) - 1
    BY <1>2, <1>9, FS_RemoveElement
  <1>11. /\ Cardinality(DOMAIN g.edges) <= Cardinality(Y)
         /\ IsFiniteSet(DOMAIN g.edges)
    BY <1>8, <1>10, FS_Subset
  <1>12. /\ Cardinality(X) \in Nat /\ Cardinality(DOMAIN g.edges) \in Nat
    BY <1>2, <1>11, FS_CardinalityType
  <1> QED BY <1>3, <1>5, <1>7, <1>10, <1>11, <1>12

-----------------------------------------------------------------------------
(* The advice.                                                             *)
LEMMA AdviceHas ==
    ASSUME NEW config, NEW g
    PROVE  /\ \A sg \in OfType(Range(config.resources),
                               "aws_security_group") :
                 \A rule \in PublicIngress(sg) :
                    [resource |-> sg.address, severity |-> IngressRisk(rule)]
                       \in Advice(config, g)
           /\ \A b \in ReachableSensitive(g) :
                 [resource |-> b, severity |-> HIGH] \in Advice(config, g)
  BY DEF Advice

(* The advice has one of high severity for a resource.                     *)
Advised(config, graphOf, n) ==
    \E a \in Advice(config, graphOf) : a.resource = n /\ a.severity >= HIGH

LEMMA GroupAdvised ==
    ASSUME NEW config, NEW l, NEW style,
           Clear(config, l, style, {}), Absent(l, {}),
           NEW g \in Groups, NEW p \in Exposing, p \in l.open[g], NEW graphOf
    PROVE  Advised(config, graphOf, g)
  <1> DEFINE rs == Range(config.resources)
  <1>1. PICK sg \in OfType(rs, "aws_security_group") : sg.address = g
    BY GroupThere
  <1>2. /\ Rules(sg) = {Rule(q, style) : q \in l.open[g]}
                       \cup {PrivateRule(style)}
        /\ l.open[g] \subseteq PortKinds
        /\ \A rule \in Rules(sg) : ~IngressGap(rule)
    BY <1>1, GroupIs
  <1>3. Rule(p, style) \in Rules(sg) /\ ~IngressGap(Rule(p, style))
    BY <1>2
  <1>4. Rule(p, style).cidr \in {"public", "expr"} /\ p \in PortKinds
    BY <1>2, RuleIs
  <1>5. Rule(p, style) \in PublicIngress(sg)
    BY <1>3, <1>4 DEF IngressGap, PublicIngress
  <1>6. IngressRisk(Rule(p, style)) = CRITICAL
    BY <1>3, <1>4, ExposedPort
  <1> DEFINE a == [resource |-> sg.address,
                   severity |-> IngressRisk(Rule(p, style))]
  <1>7. a \in Advice(config, graphOf)
    BY <1>1, <1>5, AdviceHas
  <1>8. a.resource = g /\ a.severity = CRITICAL
    BY <1>1, <1>6
  <1> HIDE DEF a
  <1> QED BY <1>7, <1>8 DEF Advised, CRITICAL, HIGH

(* A bucket at the end of a critical path that only some of the findings   *)
(* lead to is one the graph reaches.                                       *)
LEMMA BucketAdvised ==
    ASSUME AllEdgesFit, NEW config, NEW found \in SUBSET Findings(config),
           Findings(config) \subseteq RuleFindings,
           NEW g, Built(g), g.findings = Findings(config),
           NEW p, Simple(EdgesIn(found), p), ReachesSensitive(p)
    PROVE  Advised(config, g, p[Len(p) - 1])
  <1>1. g = BuildGraph(Findings(config))
    BY DEF Built
  <1>2. ~EdgeLimitReached(g)
    BY <1>1, NoneDropped
  <1>3. EdgesIn(found) \subseteq DOMAIN g.edges
    <2>1. EdgesIn(g.findings) = DOMAIN g.edges
      BY <1>2, BuiltHas
    <2> QED BY <2>1 DEF EdgesIn
  <1>4. p[Len(p) - 1] \in ReachableSensitive(g)
    BY <1>3, SimpleOver, CriticalCounts
  <1> DEFINE a == [resource |-> p[Len(p) - 1], severity |-> HIGH]
  <1>5. a \in Advice(config, g)
    BY <1>4, AdviceHas
  <1>6. a.resource = p[Len(p) - 1] /\ a.severity = HIGH
    OBVIOUS
  <1> HIDE DEF a
  <1> QED BY <1>5, <1>6 DEF Advised, HIGH

-----------------------------------------------------------------------------
(* The three edits of a directory.                                         *)
LEMMA EditsAre ==
    ASSUME NEW dir, IsSource(dir)
    PROVE  LET c == ParseDirectory(dir)
               s == ParseDirectory(SaferConfig(dir))
               w == ParseDirectory(Simulated(dir))
               b == ParseDirectory(SaferConfig(Simulated(dir)))
           IN  /\ EditedFrom(c, s, "restrict") /\ EditedFrom(c, w, "widen")
               /\ EditedFrom(w, b, "restrict")
  <1>1. "restrict" \in Edits /\ "widen" \in Edits
    BY DEF Edits
  <1>2. IsSource(Simulated(dir))
    BY <1>1, DirectoryEdited DEF Simulated
  <1>3. EditedFrom(ParseDirectory(dir), ParseDirectory(SaferConfig(dir)),
                   "restrict")
    BY <1>1, DirectoryEdited DEF SaferConfig
  <1>4. EditedFrom(ParseDirectory(dir), ParseDirectory(Simulated(dir)),
                   "widen")
    BY <1>1, DirectoryEdited DEF Simulated
  <1> DEFINE w == Simulated(dir)
  <1> HIDE DEF w
  <1>5. EditedFrom(ParseDirectory(w), ParseDirectory(SaferConfig(w)),
                   "restrict")
    BY <1>1, <1>2, DirectoryEdited DEF SaferConfig, w
  <1> QED BY <1>3, <1>4, <1>5 DEF w

(* What the edits of a complete directory lead to.                         *)
LEMMA EditsLead ==
    ASSUME NEW l \in Landscapes, NEW style,
           Complete(ParseDirectory(Directory(l, style)))
    PROVE  LET dir == Directory(l, style)
               c == ParseDirectory(dir)
               s == ParseDirectory(SaferConfig(dir))
               w == ParseDirectory(Simulated(dir))
               b == ParseDirectory(SaferConfig(Simulated(dir)))
           IN  /\ Complete(s) /\ Complete(w) /\ Complete(b)
               /\ {EdgeOf(f) : f \in Findings(s)} = TrueEdges(Repaired(l))
               /\ {EdgeOf(f) : f \in Findings(w)} = TrueEdges(Opened(l))
               /\ {EdgeOf(f) : f \in Findings(b)} = TrueEdges(Repaired(l))
               /\ Clear(c, l, style, {}) /\ Absent(l, {})
  <1> DEFINE dir == Directory(l, style)
             c == ParseDirectory(dir)
             s == ParseDirectory(SaferConfig(dir))
             w == ParseDirectory(Simulated(dir))
             b == ParseDirectory(SaferConfig(Simulated(dir)))
  <1>1. /\ Spread(style) => dir.modules
        /\ Json(style) => dir.json
    BY DirectoryIs DEF Spread, Json
  <1>2. Faithful(c, l, style, {})
    BY <1>1, DirectoryFaithful
  <1>3. IsSource(dir)
    BY DirectorySource
  <1>4. /\ EditedFrom(c, s, "restrict") /\ EditedFrom(c, w, "widen")
        /\ EditedFrom(w, b, "restrict")
    BY <1>3, EditsAre
  <1>5. Absent(l, {}) /\ "restrict" \in Edits /\ "widen" \in Edits
    BY DEF Absent, Edits
  <1>6. Complete(c)
    OBVIOUS
  <1> HIDE DEF dir, c, s, w, b
  <1>7. Clear(c, l, style, {}) /\ Unambiguous(c) = Range(c.resources)
    BY <1>2, <1>6, ClearIs
  <1>8. Repairable(c, l) /\ Repairable(w, l)
    BY <1>4, <1>5, <1>7, RepairableIs, RepairableWidened
  <1>9. Complete(s) /\ Complete(w) /\ Complete(b)
    BY <1>4, <1>5, <1>6, CompleteEdited
  <1>10. /\ {EdgeOf(f) : f \in Findings(s)} = TrueEdges(Repaired(l))
         /\ {EdgeOf(f) : f \in Findings(b)} = TrueEdges(Repaired(l))
    BY <1>4, <1>8, RepairLeads
  <1>11. {EdgeOf(f) : f \in Findings(w)} = TrueEdges(Opened(l))
    BY <1>4, <1>5, <1>7, WidenLeads
  <1> QED BY <1>5, <1>7, <1>9, <1>10, <1>11 DEF dir, c, s, w, b

-----------------------------------------------------------------------------
(* What the repair, the simulation and the advice come to in a run.        *)
LEMMA RepairedPaths ==
    ASSUME WorldInv, stage # "engine"
    PROVE  TrueCriticalPaths[Repaired(W.after)] =
              {p \in SimplePaths(TrueEdges(Repaired(W.after))) :
                  ReachesSensitive(p)}
  <1>1. W \in Worlds
    BY TheWorld
  <1>2. Repaired(W.after) \in
           {Closed} \cup {Older(w.before, w.style) : w \in Worlds}
           \cup UNION {{w.before, w.after, Repaired(w.after)} : w \in Worlds}
    BY <1>1
  <1> QED BY <1>2 DEF TrueCriticalPaths

(* What a report is about where Terraform itself can be edited.            *)
OnDirectory == W.form \in {"dirs", "worker files"}

LEMMA ReportIs ==
    ASSUME RunInv, GateInv, stage = "report", OnDirectory
    PROVE  /\ WorldInv /\ W.after \in Landscapes
           /\ input["head"] = Directory(W.after, W.style)
           /\ configs["head"] = ParseDirectory(input["head"])
           /\ Findings(configs["head"]) \subseteq RuleFindings
           /\ Built(graph) /\ graph.findings = Findings(configs["head"])
  <1>1. WorldInv /\ TrustInv /\ InputInv /\ SidesInv /\ StageInv
    BY DEF RunInv
  <1>2. configs # <<>> /\ "head" \in End
    BY <1>1 DEF InputInv, Parsed, End
  <1>3. ~Git /\ ~FromPlan
    BY DEF Git, FromPlan, OnDirectory
  <1>4. configs["head"] = Config("head") /\ input["head"] = Seen("head")
    BY <1>1, <1>2 DEF InputInv
  <1>5. Truth("head") = W.after
    BY DEF Truth
  <1>6. /\ input["head"] = Directory(W.after, W.style)
        /\ configs["head"] = ParseDirectory(input["head"])
    BY <1>3, <1>4, <1>5 DEF Seen, Given, Config
  <1>7. Findings(configs["head"]) \subseteq RuleFindings
    <2>1. PICK style : ReadFrom(Range(configs["head"].resources),
                                Meant("head"), style)
      BY <1>1, <1>2, ReadOf
    <2> QED BY <1>1, <1>2, <2>1, MeantIsLand, FindingsBound
  <1>8. graph.findings = Findings(configs["head"])
    BY <1>1 DEF StageInv, SidesInv
  <1> QED BY <1>1, <1>6, <1>7, <1>8, TheWorld DEF GateInv, SearchesInv

LEMMA Remedied ==
    ASSUME AllEdgesFit, RunInv, GateInv, stage = "report", OnDirectory
    PROVE  RemedyHolds
  <1> DEFINE text == input["head"]
             config == configs["head"]
             l == W.after
             edit == [repair |-> SaferConfig(text),
                      simulation |-> Simulated(text),
                      both |-> SaferConfig(Simulated(text))]
             aim(e) == IF e = "simulation" THEN Opened(l) ELSE Repaired(l)
             changed == {g \in Groups : l.open[g] # Repaired(l).open[g]}
             critical == TrueCriticalPaths[Repaired(l)]
  <1>1. /\ WorldInv /\ l \in Landscapes
        /\ text = Directory(l, W.style) /\ config = ParseDirectory(text)
        /\ Findings(config) \subseteq RuleFindings
        /\ Built(graph) /\ graph.findings = Findings(config)
    BY ReportIs
  <1>2. /\ DOMAIN edit = {"repair", "simulation", "both"}
        /\ edit["repair"] = SaferConfig(text)
        /\ edit["simulation"] = Simulated(text)
        /\ edit["both"] = SaferConfig(Simulated(text))
    OBVIOUS
  <1>3. /\ aim("repair") = Repaired(l) /\ aim("both") = Repaired(l)
        /\ aim("simulation") = Opened(l)
    OBVIOUS
  <1>4. Findings(ParseDirectory(SaferConfig(text))) \subseteq Findings(config)
    <2>1. IsSource(text)
      BY <1>1, DirectorySource
    <2> HIDE DEF text, config
    <2>2. EditedFrom(ParseDirectory(text), ParseDirectory(SaferConfig(text)),
                     "restrict")
      BY <2>1, EditsAre
    <2>3. Findings(ParseDirectory(SaferConfig(text)))
             \subseteq Findings(ParseDirectory(text))
      BY <2>2, RepairFinds
    <2> QED BY <1>1, <2>3
  <1>5. Complete(config) =>
           /\ \A e \in DOMAIN edit :
                 /\ Complete(ParseDirectory(edit[e]))
                 /\ {EdgeOf(f) : f \in Findings(ParseDirectory(edit[e]))}
                       = TrueEdges(aim(e))
           /\ Clear(config, l, W.style, {}) /\ Absent(l, {})
    <2> HIDE DEF aim, edit, text, config, l
    <2>1. ASSUME Complete(config)
          PROVE  /\ Complete(ParseDirectory(SaferConfig(text)))
                 /\ Complete(ParseDirectory(Simulated(text)))
                 /\ Complete(ParseDirectory(SaferConfig(Simulated(text))))
                 /\ {EdgeOf(f) : f \in
                        Findings(ParseDirectory(SaferConfig(text)))}
                       = TrueEdges(Repaired(l))
                 /\ {EdgeOf(f) : f \in
                        Findings(ParseDirectory(Simulated(text)))}
                       = TrueEdges(Opened(l))
                 /\ {EdgeOf(f) : f \in
                        Findings(ParseDirectory(
                           SaferConfig(Simulated(text))))}
                       = TrueEdges(Repaired(l))
                 /\ Clear(config, l, W.style, {}) /\ Absent(l, {})
      BY <1>1, <2>1, EditsLead
    <2> QED BY <1>2, <1>3, <2>1
  <1>0. Complete(config) => Clear(config, l, W.style, {}) /\ Absent(l, {})
    <2> HIDE DEF aim, edit, text, config, l
    <2> QED BY <1>5
  <1>6. ASSUME Complete(config), NEW g \in changed
        PROVE  Advised(config, graph, g)
    <2>1. l.open[g] # l.open[g] \ Exposing
      BY <1>1, RepairedIs
    <2>2. PICK p \in Exposing : p \in l.open[g]
      BY <2>1 DEF Exposing
    <2>3. g \in Groups
      OBVIOUS
    <2> HIDE DEF l, config, text, edit, aim, changed, critical
    <2>4. Clear(config, l, W.style, {}) /\ Absent(l, {})
      BY <1>0, <1>6
    <2> QED BY <2>2, <2>3, <2>4, GroupAdvised
  <1>7. ASSUME Complete(config), NEW p \in critical
        PROVE  Advised(config, graph, p[Len(p) - 1])
    <2> DEFINE found == Findings(ParseDirectory(SaferConfig(text)))
    <2>1. EdgesIn(found) = TrueEdges(Repaired(l))
      BY <1>2, <1>3, <1>5, <1>7 DEF EdgesIn
    <2>2. p \in SimplePaths(TrueEdges(Repaired(l))) /\ ReachesSensitive(p)
      BY <1>1, RepairedPaths
    <2>3. Simple(EdgesIn(found), p)
      <3> HIDE DEF found, l, critical
      <3> QED BY <2>1, <2>2, SimplePathsAre
    <2>4. found \subseteq Findings(config)
      BY <1>4
    <2> HIDE DEF found, l, config, text, edit, aim, changed, critical
    <2> QED BY <1>1, <2>2, <2>3, <2>4, BucketAdvised
  <1>8. \A e \in DOMAIN edit :
           LET found == Findings(ParseDirectory(edit[e])) IN
           /\ e = "repair" => found \subseteq Findings(config)
           /\ Complete(config) =>
                 /\ Complete(ParseDirectory(edit[e]))
                 /\ {EdgeOf(f) : f \in found} = TrueEdges(aim(e))
    <2> HIDE DEF edit, text, config, aim, l
    <2> QED BY <1>2, <1>4, <1>5
  <1>9. Complete(config) =>
           \A n \in changed \cup {p[Len(p) - 1] : p \in critical} :
              \E a \in Advice(config, graph) :
                 a.resource = n /\ a.severity >= HIGH
    <2> HIDE DEF changed, critical, config, text, edit, aim, l
    <2>1. ASSUME Complete(config),
                 NEW n \in changed \cup {p[Len(p) - 1] : p \in critical}
          PROVE  Advised(config, graph, n)
      <3>1. n \in changed \/ \E p \in critical : n = p[Len(p) - 1]
        OBVIOUS
      <3> QED BY <2>1, <3>1, <1>6, <1>7
    <2> QED BY <2>1 DEF Advised
  <1> QED BY <1>8, <1>9 DEF RemedyHolds

(* The repair the program offers, and the change it tries out, do what they*)
(* say, in every landscape and style of a directory: no repair adds a      *)
(* finding; one of a complete configuration is complete and leads to the   *)
(* landscape without administrative ports and public ACLs; and what is     *)
(* changed, or stays open all the same, is named by an advice of high      *)
(* severity.                                                               *)
THEOREM RemediesHold ==
    ASSUME AllEdgesFit
    PROVE  GateSpec => []RemedyHolds
  <1>1. ASSUME RunInv, GateInv PROVE RemedyHolds
    <2>1. CASE stage = "report" /\ OnDirectory
      BY <1>1, <2>1, Remedied
    <2>2. CASE ~(stage = "report" /\ OnDirectory)
      BY <2>2 DEF RemedyHolds, OnDirectory
    <2> QED BY <2>1, <2>2
  <1> QED BY <1>1, RunInvariant, GateInvariant, PTL
=============================================================================
