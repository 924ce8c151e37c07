------------------------------ MODULE Spend_proofs ------------------------------
(***************************************************************************)
(* That what is read back out of the log of a card is what was spent, for  *)
(* any cards, prices, faults, caps and bounds: by role, by card, by day,   *)
(* and on the board; that no run starts over a cap; and that an attempt    *)
(* that is over is said to have ended the way it did.                      *)
(*                                                                         *)
(* Four invariants carry it.  Money: what the results of a card cost and   *)
(* what is due for its agent's work since the last of them is what it was  *)
(* paid for, and today's share is what was told of today.  RolesTold: of   *)
(* whose result comes next, the log says the same by what it ends with,    *)
(* and by what is written after.  RoleSums: what RolesTold makes of the    *)
(* results adds up, role by role.  OutcomesTold: the log has one start for *)
(* each attempt that ended and for the one that goes on, tells the outcome *)
(* of each that ended, and nothing after a start says that the one that    *)
(* goes on is over; what that one says of reasons and limits is what its   *)
(* agent stands at.                                                        *)
(*                                                                         *)
(* A sum is over a finite set of events, in no order.  That it grows by    *)
(* what is added, and is the sum of its parts, is proved by taking a least *)
(* set of those it fails for (LeastSubset).                                *)
(***************************************************************************)
EXTENDS Spend, FiniteSetTheorems, SequenceTheorems, WellFoundedInduction, TLAPS

-----------------------------------------------------------------------------
(* sums over finite sets *)

\* Among the subsets of a finite set some have no smaller one beside them: induction over finite
\* sets, for a set of them.
LEMMA LeastSubset ==
  ASSUME NEW D, IsFiniteSet(D), NEW U \in SUBSET SUBSET D, U # {}
  PROVE  \E u \in U : \A v \in U : v \subseteq u => v = u
<1>1. U \subseteq FiniteSubsetsOf(D)
  BY FS_Subset DEF FiniteSubsetsOf
<1>2. PICK u \in U : \A v \in U : ~(<<v, u>> \in StrictSubsetOrdering(D))
  BY <1>1, FS_StrictSubsetOrderingWellFounded, WFMin
<1>3. ASSUME NEW v \in U, v \subseteq u, v # u
      PROVE  FALSE
  BY <1>2, <1>3 DEF StrictSubsetOrdering
<1> QED
  BY <1>3

\* h sums up f over every part of D, whichever of its members is taken first
Additive(h, f, D) ==
  /\ h \in [SUBSET D -> Nat] /\ h[{}] = 0
  /\ \A S \in SUBSET D : \A x \in S : h[S] = f[x] + h[S \ {x}]

\* There are sums over finite sets.
LEMMA SumExists ==
  ASSUME NEW D, IsFiniteSet(D), NEW f \in [D -> Nat]
  PROVE  \E h : Additive(h, f, D)
<1> DEFINE U == {S \in SUBSET D : ~\E h : Additive(h, f, S)}
<1> SUFFICES ASSUME D \in U
             PROVE  FALSE
  OBVIOUS
<1>0. U \in SUBSET SUBSET D /\ U # {}
  OBVIOUS
<1> HIDE DEF U
<1>1. PICK u \in U : \A v \in U : v \subseteq u => v = u
  BY <1>0, LeastSubset
<1> USE DEF U
<1>2. u # {}
  <2>1. Additive([S \in SUBSET {} |-> 0], f, {})
    BY DEF Additive
  <2> QED
    BY <2>1
<1>3. PICK z \in u : TRUE
  BY <1>2
<1> DEFINE v == u \ {z}
<1>4. PICK h : Additive(h, f, v)
  BY <1>1, <1>3
<1> DEFINE g == [S \in SUBSET u |-> IF z \in S THEN f[z] + h[S \ {z}] ELSE h[S]]
<1>5. /\ h \in [SUBSET v -> Nat] /\ h[{}] = 0
      /\ \A S \in SUBSET v : \A x \in S : h[S] = f[x] + h[S \ {x}]
  BY <1>4 DEF Additive
<1>6. \A x \in u : f[x] \in Nat
  OBVIOUS
<1>7. \A S \in SUBSET u : S \ {z} \in SUBSET v /\ (z \notin S => S \in SUBSET v)
  OBVIOUS
<1>8. g \in [SUBSET u -> Nat]
  BY <1>5, <1>6, <1>7, <1>3
<1>9. g[{}] = 0
  BY <1>5
<1>10. ASSUME NEW S \in SUBSET u, NEW x \in S
       PROVE  g[S] = f[x] + g[S \ {x}]
  <2>0. S \ {x} \in SUBSET u /\ f[x] \in Nat /\ f[z] \in Nat
    BY <1>6, <1>3
  <2>1. CASE x = z
    <3>1. z \notin S \ {x}
      BY <2>1
    <3>2. g[S] = f[z] + h[S \ {z}] /\ g[S \ {x}] = h[S \ {x}]
      BY <2>0, <2>1, <3>1
    <3> QED
      BY <2>1, <3>2
  <2>2. CASE x # z /\ z \in S
    <3>1. g[S] = f[z] + h[S \ {z}] /\ g[S \ {x}] = f[z] + h[(S \ {x}) \ {z}]
      BY <2>0, <2>2
    <3>2. S \ {z} \in SUBSET v /\ x \in S \ {z} /\ (S \ {z}) \ {x} = (S \ {x}) \ {z}
      BY <2>2
    <3>3. h[S \ {z}] = f[x] + h[(S \ {x}) \ {z}]
      BY <1>5, <3>2
    <3>4. h[(S \ {x}) \ {z}] \in Nat
      BY <1>5, <3>2
    <3> QED
      BY <2>0, <3>1, <3>3, <3>4
  <2>3. CASE z \notin S
    <3>1. g[S] = h[S] /\ g[S \ {x}] = h[S \ {x}] /\ S \in SUBSET v
      BY <2>0, <2>3
    <3> QED
      BY <1>5, <3>1
  <2> QED
    BY <2>1, <2>2, <2>3
<1> HIDE DEF g
<1>11. Additive(g, f, u)
  BY <1>8, <1>9, <1>10 DEF Additive
<1> QED
  BY <1>11

\* SumFunction adds up in an order of its own, which makes no difference.
LEMMA SumIs ==
  ASSUME NEW D, IsFiniteSet(D), NEW f \in [D -> Nat], NEW h, Additive(h, f, D)
  PROVE  SumFunction(f) = h[D]
<1> DEFINE Rec(g) == g = [S \in SUBSET D |->
                           IF S = {} THEN 0
                           ELSE f[CHOOSE x \in S : TRUE] + g[S \ {CHOOSE x \in S : TRUE}]]
           sum == CHOOSE g : Rec(g)
<1>1. SumFunction(f) = sum[D]
  BY DEF SumFunction, SumFunctionOnSet, FoldFunctionOnSet, MapThenFoldSet
<1>2. \A S \in SUBSET D : S # {} => (CHOOSE x \in S : TRUE) \in S
  OBVIOUS
<1>3. Rec(h)
  <2>1. h = [S \in SUBSET D |-> h[S]]
    BY DEF Additive
  <2>2. \A S \in SUBSET D : S # {} =>
          h[S] = f[CHOOSE x \in S : TRUE] + h[S \ {CHOOSE x \in S : TRUE}]
    BY <1>2 DEF Additive
  <2>3. h[{}] = 0
    BY DEF Additive
  <2>4. \A S \in SUBSET D : h[S] = IF S = {} THEN 0
          ELSE f[CHOOSE x \in S : TRUE] + h[S \ {CHOOSE x \in S : TRUE}]
    BY <2>2, <2>3
  <2> QED
    BY <2>1, <2>4
<1>4. Rec(sum)
  <2> HIDE DEF Rec
  <2> QED
    BY <1>3
<1> HIDE DEF sum
<1> DEFINE U == {S \in SUBSET D : sum[S] # h[S]}
<1>5. U = {}
  <2> SUFFICES ASSUME U # {}
               PROVE  FALSE
    OBVIOUS
  <2>0. U \in SUBSET SUBSET D
    OBVIOUS
  <2> HIDE DEF U
  <2>1. PICK u \in U : \A v \in U : v \subseteq u => v = u
    BY <2>0, LeastSubset
  <2> USE DEF U
  <2>2. u # {}
    BY <1>3, <1>4
  <2> DEFINE x == CHOOSE x \in u : TRUE
  <2>3. x \in u
    BY <2>2
  <2>4. sum[u] = f[x] + sum[u \ {x}] /\ h[u] = f[x] + h[u \ {x}]
    BY <1>3, <1>4, <2>2
  <2> HIDE DEF x
  <2>5. u \ {x} \in SUBSET D /\ u \ {x} # u /\ u \ {x} \subseteq u
    BY <2>3
  <2>6. sum[u \ {x}] = h[u \ {x}]
    BY <2>1, <2>5
  <2> QED
    BY <2>1, <2>4, <2>6
<1> QED
  BY <1>1, <1>5

\* A function without one of its arguments
Without(f, x) == [y \in DOMAIN f \ {x} |-> f[y]]

\* A sum is that of all but one, and the one.
LEMMA SumAdds ==
  ASSUME NEW D, IsFiniteSet(D), NEW f \in [D -> Nat]
  PROVE  /\ SumFunction(f) \in Nat
         /\ D = {} => SumFunction(f) = 0
         /\ \A x \in D : SumFunction(f) = f[x] + SumFunction(Without(f, x))
<1>1. PICK h : Additive(h, f, D)
  BY SumExists
<1>2. SumFunction(f) = h[D]
  BY <1>1, SumIs
<1>3. h \in [SUBSET D -> Nat] /\ h[{}] = 0
  BY <1>1 DEF Additive
<1>4. ASSUME NEW x \in D
      PROVE  SumFunction(f) = f[x] + SumFunction(Without(f, x))
  <2> DEFINE E == D \ {x}
             g == Without(f, x)
             k == [S \in SUBSET E |-> h[S]]
  <2>1. IsFiniteSet(E)
    BY FS_Subset
  <2>2. g \in [E -> Nat] /\ \A y \in E : g[y] = f[y]
    BY DEF Without
  <2>3. k \in [SUBSET E -> Nat] /\ k[{}] = 0
    BY <1>3
  <2>4. ASSUME NEW S \in SUBSET E, NEW y \in S
        PROVE  k[S] = g[y] + k[S \ {y}]
    <3>1. S \in SUBSET D /\ S \ {y} \in SUBSET E
      OBVIOUS
    <3>2. h[S] = f[y] + h[S \ {y}]
      BY <1>1, <3>1 DEF Additive
    <3> QED
      BY <2>2, <3>1, <3>2
  <2>5. k[E] = h[E]
    OBVIOUS
  <2> HIDE DEF k, g, E
  <2>6. Additive(k, g, E)
    BY <2>3, <2>4 DEF Additive
  <2>7. SumFunction(g) = k[E]
    BY <2>1, <2>2, <2>6, SumIs
  <2>8. h[D] = f[x] + h[D \ {x}]
    BY <1>1 DEF Additive
  <2> QED
    BY <1>2, <2>5, <2>7, <2>8 DEF g, E
<1> QED
  BY <1>2, <1>3, <1>4

-----------------------------------------------------------------------------
(* costs *)

\* Costs add up in any order, and one that is unknown stays unknown.
LEMMA PlusIs ==
  ASSUME NEW a \in Price, NEW b \in Price, NEW d \in Price
  PROVE  /\ Plus(a, b) \in Price
         /\ Plus(a, b) = Plus(b, a)
         /\ Plus(Plus(a, b), d) = Plus(a, Plus(b, d))
         /\ Plus(a, 0) = a /\ Plus(0, a) = a
         /\ Plus(a, NoPrice) = NoPrice /\ Plus(NoPrice, a) = NoPrice
BY DEF Plus, Price, NoPrice

\* The cost of nothing, of all but one and the one, and of one.
LEMMA CostAdds ==
  ASSUME NEW D, IsFiniteSet(D), NEW f \in [D -> Price]
  PROVE  /\ CostSum(f) \in Price
         /\ D = {} => CostSum(f) = 0
         /\ \A x \in D : /\ Without(f, x) \in [D \ {x} -> Price]
                         /\ CostSum(f) = Plus(f[x], CostSum(Without(f, x)))
<1>0. Range(f) = {f[x] : x \in D}
  BY DEF Range
<1>1. CASE NoPrice \notin Range(f)
  <2>1. f \in [D -> Nat]
    BY <1>0, <1>1 DEF Price
  <2>2. CostSum(f) = SumFunction(f)
    BY <1>1 DEF CostSum
  <2>3. ASSUME NEW x \in D
        PROVE  CostSum(f) = Plus(f[x], CostSum(Without(f, x)))
    <3>1. Without(f, x) \in [D \ {x} -> Nat] /\ IsFiniteSet(D \ {x})
      BY <2>1, FS_Subset DEF Without
    <3>2. NoPrice \notin Range(Without(f, x))
      BY <3>1 DEF Range, NoPrice
    <3>3. CostSum(Without(f, x)) = SumFunction(Without(f, x))
      BY <3>2 DEF CostSum
    <3>4. SumFunction(f) = f[x] + SumFunction(Without(f, x))
      BY <2>1, SumAdds
    <3>5. SumFunction(Without(f, x)) \in Nat
      BY <3>1, SumAdds
    <3> QED
      BY <2>1, <2>2, <3>3, <3>4, <3>5 DEF Plus, NoPrice
  <2>4. SumFunction(f) \in Nat /\ (D = {} => SumFunction(f) = 0)
    BY <2>1, SumAdds
  <2> QED
    BY <2>2, <2>3, <2>4 DEF Price, Without
<1>2. CASE NoPrice \in Range(f)
  <2>1. CostSum(f) = NoPrice /\ D # {}
    BY <1>0, <1>2 DEF CostSum
  <2>2. ASSUME NEW x \in D, f[x] # NoPrice
        PROVE  CostSum(Without(f, x)) = NoPrice
    <3>1. PICK y \in D : f[y] = NoPrice
      BY <1>0, <1>2
    <3>2. y \in DOMAIN Without(f, x) /\ Without(f, x)[y] = NoPrice
      BY <2>2, <3>1 DEF Without
    <3> QED
      BY <3>2 DEF Range, CostSum
  <2> QED
    BY <2>1, <2>2 DEF Price, Plus, Without
<1> QED
  BY <1>1, <1>2

\* One more cost
LEMMA CostMore ==
  ASSUME NEW D, IsFiniteSet(D), NEW f \in [D -> Price], NEW x, x \notin D, NEW p \in Price,
         NEW g \in [D \cup {x} -> Price], g[x] = p, \A y \in D : g[y] = f[y]
  PROVE  CostSum(g) = Plus(CostSum(f), p)
<1>1. IsFiniteSet(D \cup {x})
  BY FS_AddElement
<1>2. Without(g, x) = f
  BY DEF Without
<1>3. CostSum(g) = Plus(g[x], CostSum(Without(g, x)))
  BY <1>1, CostAdds
<1>4. CostSum(f) \in Price
  BY CostAdds
<1> QED
  BY <1>2, <1>3, <1>4, PlusIs

\* One cost that grows, or is another one
LEMMA CostGrows ==
  ASSUME NEW D, IsFiniteSet(D), NEW f \in [D -> Price], NEW x \in D, NEW p \in Price,
         NEW g \in [D -> Price], g[x] = Plus(f[x], p), \A y \in D \ {x} : g[y] = f[y]
  PROVE  CostSum(g) = Plus(CostSum(f), p)
<1> DEFINE h == Without(f, x)
<1>1. Without(g, x) = h
  BY DEF Without
<1>2. CostSum(f) = Plus(f[x], CostSum(h)) /\ h \in [D \ {x} -> Price]
  BY CostAdds
<1>2a. CostSum(g) = Plus(g[x], CostSum(Without(g, x)))
  BY CostAdds
<1> HIDE DEF h
<1>3. IsFiniteSet(D \ {x})
  BY FS_Subset
<1>4. CostSum(h) \in Price /\ f[x] \in Price
  BY <1>2, <1>3, CostAdds
<1>5. Plus(f[x], p) \in Price
  BY <1>4, PlusIs
<1>6. /\ Plus(Plus(f[x], p), CostSum(h)) = Plus(f[x], Plus(p, CostSum(h)))
      /\ Plus(p, CostSum(h)) = Plus(CostSum(h), p)
      /\ Plus(Plus(f[x], CostSum(h)), p) = Plus(f[x], Plus(CostSum(h), p))
  BY <1>4, PlusIs
<1> QED
  BY <1>1, <1>2, <1>2a, <1>6

\* Nothing costs nothing, also in several parts.
LEMMA CostOfNone ==
  ASSUME NEW D, IsFiniteSet(D), NEW f \in [D -> Price], \A x \in D : f[x] = 0
  PROVE  CostSum(f) = 0
<1> DEFINE U == {S \in SUBSET D : CostSum([x \in S |-> f[x]]) # 0}
<1>0. U \in SUBSET SUBSET D
  OBVIOUS
<1>1. U = {}
  <2> SUFFICES ASSUME U # {}
               PROVE  FALSE
    OBVIOUS
  <2> HIDE DEF U
  <2>1. PICK u \in U : \A v \in U : v \subseteq u => v = u
    BY <1>0, LeastSubset
  <2> USE DEF U
  <2> DEFINE e == [x \in u |-> f[x]]
  <2>2. IsFiniteSet(u) /\ e \in [u -> Price]
    BY FS_Subset
  <2>3. CostSum(e) # 0
    BY <2>1
  <2>4. u # {}
    BY <2>2, <2>3, CostAdds
  <2>5. PICK z \in u : TRUE
    BY <2>4
  <2>6. u \ {z} \in SUBSET D /\ u \ {z} # u
    BY <2>1, <2>5
  <2>7. CostSum([x \in u \ {z} |-> f[x]]) = 0
    BY <2>1, <2>6
  <2>8. Without(e, z) = [x \in u \ {z} |-> f[x]]
    BY DEF Without
  <2>9. CostSum(e) = Plus(e[z], CostSum(Without(e, z)))
    BY <2>2, <2>5, CostAdds
  <2>10. e[z] = 0
    BY <2>5
  <2> QED
    BY <2>3, <2>7, <2>8, <2>9, <2>10 DEF Plus, NoPrice
<1>2. f = [x \in D |-> f[x]]
  OBVIOUS
<1> QED
  BY <1>1, <1>2

\* A sum over a set in parts: those without a member in common
LEMMA CostOfParts ==
  ASSUME NEW P, IsFiniteSet(P), NEW D, IsFiniteSet(D), NEW f \in [D -> Price],
         \A I \in P : I \subseteq D, UNION P = D,
         \A I, J \in P : I # J => I \cap J = {}
  PROVE  CostSum([I \in P |-> CostSum([x \in I |-> f[x]])]) = CostSum(f)
<1> DEFINE part(I) == CostSum([x \in I |-> f[x]])
           all(Q) == CostSum([I \in Q |-> part(I)])
           U == {Q \in SUBSET P : all(Q) # part(UNION Q)}
<1>0. U \in SUBSET SUBSET P
  OBVIOUS
<1>00. \A S \in SUBSET D : IsFiniteSet(S) /\ part(S) \in Price
  <2> SUFFICES ASSUME NEW S \in SUBSET D
               PROVE  IsFiniteSet(S) /\ part(S) \in Price
    OBVIOUS
  <2>1. IsFiniteSet(S) /\ [x \in S |-> f[x]] \in [S -> Price]
    BY FS_Subset
  <2> QED
    BY <2>1, CostAdds
<1>1. ASSUME NEW S \in SUBSET D, NEW R \in SUBSET D, S \cap R = {}
      PROVE  part(S \cup R) = Plus(part(S), part(R))
  <2> DEFINE V == {T \in SUBSET R : part(S \cup T) # Plus(part(S), part(T))}
  <2>0. V \in SUBSET SUBSET R /\ IsFiniteSet(R)
    BY <1>00
  <2>1. V = {}
    <3> SUFFICES ASSUME V # {}
                 PROVE  FALSE
      OBVIOUS
    <3> HIDE DEF V
    <3>1. PICK u \in V : \A v \in V : v \subseteq u => v = u
      BY <2>0, LeastSubset
    <3> USE DEF V
    <3>2. u # {}
      <4>1. [x \in {} |-> f[x]] \in [{} -> Price] /\ IsFiniteSet({})
        BY FS_EmptySet
      <4>2. part({}) = 0
        BY <4>1, CostAdds
      <4>3. S \cup {} = S /\ part(S) \in Price
        BY <1>00
      <4>4. part(S \cup {}) = Plus(part(S), part({}))
        BY <4>2, <4>3, PlusIs
      <4> QED
        BY <3>1, <4>4
    <3>3. PICK z \in u : TRUE
      BY <3>2
    <3> DEFINE v == u \ {z}
    <3>4. part(S \cup v) = Plus(part(S), part(v))
      <4>1. v \in SUBSET R /\ v # u /\ v \subseteq u
        BY <3>1, <3>3
      <4> HIDE DEF v
      <4>2. v \notin V
        <5> HIDE DEF V
        <5> QED
          BY <3>1, <4>1
      <4> HIDE DEF part
      <4> QED
        BY <4>1, <4>2
    <3>5. z \notin v /\ z \notin S \cup v /\ u = v \cup {z} /\ z \in D /\ f[z] \in Price
      BY <1>1, <3>1, <3>3
    <3>6. v \in SUBSET D /\ S \cup v \in SUBSET D
      BY <3>1
    <3> HIDE DEF v
    <3>7. part(v \cup {z}) = Plus(part(v), f[z])
      <4> DEFINE a == [x \in v |-> f[x]]
                 b == [x \in v \cup {z} |-> f[x]]
      <4>1. a \in [v -> Price]
        BY <3>6
      <4>2. /\ b \in [v \cup {z} -> Price] /\ b[z] = f[z]
            /\ \A x \in v : b[x] = a[x]
        BY <3>5, <3>6
      <4>3. IsFiniteSet(v)
        BY <1>00, <3>6
      <4>4. z \notin v /\ f[z] \in Price
        BY <3>5
      <4> HIDE DEF a, b, V, part
      <4>5. CostSum(b) = Plus(CostSum(a), f[z])
        BY <4>1, <4>2, <4>3, <4>4, CostMore
      <4> QED
        BY <4>5 DEF a, b, part
    <3>8. part((S \cup v) \cup {z}) = Plus(part(S \cup v), f[z])
      <4> DEFINE W == S \cup v
                 a == [x \in W |-> f[x]]
                 b == [x \in W \cup {z} |-> f[x]]
      <4>0. W \in SUBSET D /\ z \notin W
        BY <3>5, <3>6
      <4> HIDE DEF W
      <4>1. a \in [W -> Price]
        BY <4>0
      <4>2. /\ b \in [W \cup {z} -> Price] /\ b[z] = f[z]
            /\ \A x \in W : b[x] = a[x]
        BY <3>5, <4>0
      <4>3. IsFiniteSet(W)
        BY <1>00, <4>0
      <4> HIDE DEF a, b
      <4>4. CostSum(b) = Plus(CostSum(a), f[z])
        BY <3>5, <4>0, <4>1, <4>2, <4>3, CostMore
      <4> QED
        BY <4>4 DEF a, b, W
    <3>9. S \cup u = (S \cup v) \cup {z}
      BY <3>5
    <3>10. part(S \cup u) = Plus(part(S), part(u))
      <4>1. part(S) \in Price /\ part(v) \in Price /\ f[z] \in Price
        BY <1>00, <3>5, <3>6
      <4> HIDE DEF part
      <4>2. part(S \cup u) = Plus(Plus(part(S), part(v)), f[z])
        BY <3>4, <3>8, <3>9
      <4>3. part(u) = Plus(part(v), f[z])
        BY <3>5, <3>7
      <4> QED
        BY <4>1, <4>2, <4>3, PlusIs
    <3> QED
      BY <3>1, <3>10
  <2> QED
    BY <2>1
<1>2. U = {}
  <2> SUFFICES ASSUME U # {}
               PROVE  FALSE
    OBVIOUS
  <2> HIDE DEF U
  <2>1. PICK u \in U : \A v \in U : v \subseteq u => v = u
    BY <1>0, LeastSubset
  <2> USE DEF U
  <2>2. all({}) = 0 /\ part(UNION {}) = 0
    <3>1. [I \in {} |-> part(I)] \in [{} -> Price] /\ IsFiniteSet({})
      BY FS_EmptySet
    <3>2. [x \in {} |-> f[x]] \in [{} -> Price]
      OBVIOUS
    <3>3. CostSum([I \in {} |-> part(I)]) = 0
      BY <3>1, CostAdds
    <3>4. CostSum([x \in {} |-> f[x]]) = 0
      BY <3>1, <3>2, CostAdds
    <3>5. UNION {} = {}
      OBVIOUS
    <3> QED
      BY <3>3, <3>4, <3>5
  <2>3. u # {}
    BY <2>1, <2>2
  <2>4. PICK Z \in u : TRUE
    BY <2>3
  <2> DEFINE v == u \ {Z}
  <2>5. all(v) = part(UNION v)
    <3>1. v \in SUBSET P /\ v # u /\ v \subseteq u
      BY <2>1, <2>4
    <3> HIDE DEF v
    <3>2. v \notin U
      <4> HIDE DEF U
      <4> QED
        BY <2>1, <3>1
    <3> HIDE DEF part, all
    <3> QED
      BY <3>1, <3>2
  <2>6. v \in SUBSET P /\ Z \notin v /\ u = v \cup {Z} /\ Z \in P
    BY <2>1, <2>4
  <2>6a. Z \subseteq D /\ \A I \in v : I \subseteq D /\ I \cap Z = {}
    <3>1. \A I \in v : I \in P /\ I # Z
      BY <2>6
    <3> HIDE DEF v
    <3> QED
      BY <2>6, <3>1
  <2>7. IsFiniteSet(v)
    BY <2>6, FS_Subset
  <2> HIDE DEF v, U, part, all
  <2> DEFINE N == UNION v
  <2>8. /\ \A x \in N : x \in D /\ x \notin Z
        /\ \A x : x \in UNION u <=> x \in N \/ x \in Z
    <3>1. \A x : x \in N <=> \E I \in v : x \in I
      OBVIOUS
    <3>2. \A x : x \in UNION u <=> \E I \in u : x \in I
      OBVIOUS
    <3> HIDE DEF N
    <3>3. \A x \in N : x \in D /\ x \notin Z
      BY <2>6a, <3>1
    <3>4. \A x : x \in UNION u <=> x \in N \/ x \in Z
      BY <2>6, <3>1, <3>2
    <3> QED
      BY <3>3, <3>4
  <2> HIDE DEF N
  <2>9. UNION u = N \cup Z /\ N \in SUBSET D /\ Z \in SUBSET D /\ N \cap Z = {}
    <3>1. N \subseteq D /\ Z \subseteq D
      BY <2>6a, <2>8
    <3>2. N \cap Z = {}
      BY <2>8
    <3>3. UNION u = N \cup Z
      BY <2>8
    <3> QED
      BY <3>1, <3>2, <3>3
  <2>10. part(UNION u) = Plus(part(N), part(Z))
    BY <1>1, <2>9
  <2> DEFINE a == [I \in v |-> part(I)]
             b == [I \in v \cup {Z} |-> part(I)]
  <2>11. a \in [v -> Price]
    BY <1>00, <2>6
  <2>12. b \in [v \cup {Z} -> Price] /\ b[Z] = part(Z) /\ \A I \in v : b[I] = a[I]
    BY <1>00, <2>6
  <2>13. part(Z) \in Price
    BY <1>00, <2>9
  <2> HIDE DEF a, b, part
  <2>14. CostSum(b) = Plus(CostSum(a), part(Z))
    BY <2>6, <2>7, <2>11, <2>12, <2>13, CostMore
  <2>15. all(u) = CostSum(b) /\ all(v) = CostSum(a)
    BY <2>6 DEF a, b, all
  <2> QED
    BY <2>1, <2>5, <2>10, <2>14, <2>15 DEF N, U
<1>3. f = [x \in D |-> f[x]]
  OBVIOUS
<1> HIDE DEF part
<1>4. all(P) = part(D)
  BY <1>2
<1> QED
  BY <1>3, <1>4 DEF part

-----------------------------------------------------------------------------
(* types, and what a step writes *)

\* The kinds of events
Kinds == {"lifecycle_started", "worker_skipped", "worker_summary", "test_gate", "review_gate",
          "review_reused", "fix_round", "base_red", "usage", "result", "rate_limit",
          "merge_request", "run_refused", "run_stopped", "run_crashed", "run_orphaned",
          "merge_conflict", "rebase_conflict"}

\* The reasons they carry
Whys == Fault \cup {"none", "at once", "approved", "failed", "REVIEW_REJECTED"}
\* How an attempt may end
Hows == Fault \cup {"pull request", "refused", "stopped", "MERGE_CONFLICT", "OUTDATED",
                    "TESTS_FAILED", "BASE_RED", "REVIEW_REJECTED"}

\* An event of a log
EventState == [kind : Kinds, why : Whys, day : Nat, cost : Price, used : Price,
               role : Roles \cup {"unsaid"}]

\* What run_process holds of an agent
AgentState == [pending : Seq(Price), finals : {0, 1}, why : Fault \cup {"none"}, limited : BOOLEAN]
\* How far a run may be
Stages == {"idle", "begun", "worker", "worked", "tests", "reviewer", "reviewed", "opening"}

\* The types of the variables; only a worker or reviewer at work has an agent
Typed ==
  /\ log \in [Cards -> Seq(EventState)] /\ turns \in Seq([cost : Price, day : Nat])
  /\ day \in Nat /\ tagged \in BOOLEAN /\ at \in [Cards -> Stages]
  /\ agent \in [Cards -> AgentState]
  /\ rounds \in [Cards -> 0..MaxFixRounds] /\ reuse \in [Cards -> BOOLEAN]
  /\ paid \in [Cards -> [Roles -> Price]] /\ due \in [Cards -> Price] /\ today \in Price
  /\ ends \in [Cards -> Seq([how : Hows, odd : BOOLEAN])]
  /\ astray \in [Cards -> BOOLEAN] /\ unheard \in BOOLEAN /\ happened \in 0..MaxHappens
  /\ \A c \in Cards : at[c] \notin Roles =>
       agent[c].pending = <<>> /\ agent[c].finals = 0 /\ ~agent[c].limited

\* How an agent that came back with a reason is said to have ended
Reason(why) == IF why = "capped" THEN "CRASH" ELSE why

\* What an attempt writes as it goes on: to the worker, the tests, the reviewer, the pull request.
\* `off` is whether its log reads from then on as if it had ended.
Onward(c, to, es, off) ==
  \/ at[c] = "begun" /\ to = "worker" /\ es = <<>>
  \/ at[c] = "begun" /\ to = "tests" /\ es = <<Event("worker_skipped", "none")>>
  \/ /\ at[c] = "worked" /\ to = "tests" /\ es = <<Event("worker_summary", "none")>>
     /\ agent[c].why # "none" => off
  \/ /\ at[c] = "tests" /\ to = "opening"
     /\ es = <<Event("test_gate", "none"), Event("review_reused", "none")>>
  \/ at[c] = "tests" /\ to = "reviewer" /\ es = <<Event("test_gate", "none")>>
  \/ at[c] = "reviewer" /\ to = "opening" /\ es = <<Event("review_gate", "approved")>> /\ Silent(c)
     /\ ~agent[c].limited
  \/ /\ at[c] = "reviewed" /\ to = "opening" /\ es = <<Event("review_gate", "approved")>>
     /\ agent[c].why # "none" => off
  \/ /\ at[c] = "reviewed" /\ to = "worker"
     /\ es = <<Event("review_gate", "REVIEW_REJECTED"), Event("fix_round", "none")>>
     /\ agent[c].why # "none" => off

\* A step by which the run goes on
GoesOn(c) ==
  \E to \in Stages, es \in Seq(EventState), off \in BOOLEAN :
    /\ Onward(c, to, es, off) /\ Goes(c, to) /\ Writes(c, es)
    /\ astray' = [astray EXCEPT ![c] = @ \/ off]
    /\ UNCHANGED <<Told, ends>>

\* What an attempt writes as it ends: a mark of the end; nothing, or a verdict, where its agent
\* came back with a reason; or a gate that failed
MarkOf(kind) ==
  CASE kind = "merge_request" -> "pull request"
    [] kind = "run_refused" -> "refused"
    [] kind = "run_stopped" -> "stopped"
    [] kind = "run_crashed" -> "CRASH"
    [] kind = "merge_conflict" -> "MERGE_CONFLICT"
    [] kind = "rebase_conflict" -> "OUTDATED"

\* The marks there are
EndKinds == {"merge_request", "run_refused", "run_stopped", "run_crashed", "merge_conflict",
             "rebase_conflict"}

\* The run ends with a mark, which may follow a summary or a gate ...
Marked(c, how, es) ==
  \E kind \in EndKinds, before \in Seq(EventState) :
    /\ es = Append(before, Event(kind, "none")) /\ how = MarkOf(kind)
    /\ \/ before = <<>>
       \/ before = <<Event("worker_summary", "none")>> /\ at[c] = "worked"
       \/ before = <<Event("test_gate", "none")>> /\ at[c] = "tests"
       \/ at[c] = "reviewed" /\ \E says \in Whys : before = <<Event("review_gate", says)>>

\* ... with the reason its agent came back with ...
Reasoned(c, how, odd, es) ==
  /\ agent[c].why # "none" /\ (~odd => how = Reason(agent[c].why))
  /\ \/ at[c] = "worked" /\ es = <<>>
     \/ at[c] = "reviewed" /\ \E says \in Whys : es = <<Event("review_gate", says)>>

\* ... rejected by the reviewer, or with no verdict of its to be read ...
Rejected(c, how, odd, es) ==
  /\ how \in {"REVIEW_REJECTED", "CRASH"} /\ es = <<Event("review_gate", how)>>
  /\ at[c] = "reviewed" /\ (~odd => agent[c].why = "none")

\* ... or on tests that fail.
FailedAs(c, how, odd, es) ==
  /\ at[c] \in {"tests", "opening"}
  /\ ~odd => \A i \in Kind(c, Latest(c), {"review_gate"}) : log[c][i].why = "approved"
  /\ \/ how = "TESTS_FAILED" /\ es = <<Event("test_gate", "failed")>>
     \/ how = "BASE_RED" /\ es = <<Event("test_gate", "failed"), Event("base_red", "none")>>

\* A run ends where it acts itself, and a reviewer's only where there is none
MayEnd(c) ==
  /\ at[c] \in {"begun", "worked", "tests", "reviewer", "reviewed", "opening"}
  /\ at[c] = "reviewer" => Silent(c) /\ ~agent[c].limited

\* A step by which the run ends
Ending(c) ==
  \E how \in Hows, odd \in BOOLEAN, es \in Seq(EventState) :
    /\ \/ Marked(c, how, es)
       \/ Reasoned(c, how, odd, es)
       \/ Rejected(c, how, odd, es)
       \/ FailedAs(c, how, odd, es)
       \/ odd /\ es = <<>>
    /\ MayEnd(c) /\ (at[c] = "reviewer" => Marked(c, how, es))
    /\ EndsOddly(c, how, odd) /\ Writes(c, es) /\ UNCHANGED Told

\* Events are well formed.
LEMMA EventTypes == \A kind \in Kinds, why \in Whys : Event(kind, why) \in EventState
BY DEF Event, EventState, Price, Roles

\* Sequences of none, one or two of them
LEMMA EventSeqs ==
  /\ <<>> \in Seq(EventState)
  /\ \A kind \in Kinds, why \in Whys : <<Event(kind, why)>> \in Seq(EventState)
  /\ \A kind, next \in Kinds, why, reason \in Whys :
       <<Event(kind, why), Event(next, reason)>> \in Seq(EventState)
<1>1. ASSUME NEW kind \in Kinds, NEW why \in Whys
      PROVE  <<Event(kind, why)>> \in Seq(EventState)
  <2> DEFINE e == Event(kind, why)
  <2>1. e \in EventState
    BY EventTypes
  <2> HIDE DEF e
  <2>2. <<e>> \in Seq(EventState)
    BY <2>1
  <2> QED
    BY <2>2 DEF e
<1>2. ASSUME NEW kind \in Kinds, NEW why \in Whys, NEW next \in Kinds, NEW reason \in Whys
      PROVE  <<Event(kind, why), Event(next, reason)>> \in Seq(EventState)
  <2> DEFINE e == Event(kind, why)
             f == Event(next, reason)
  <2>1. e \in EventState /\ f \in EventState
    BY EventTypes
  <2> HIDE DEF e, f
  <2>2. <<e, f>> \in Seq(EventState)
    BY <2>1
  <2> QED
    BY <2>2 DEF e, f
<1>3. <<>> \in Seq(EventState)
  OBVIOUS
<1> QED
  BY <1>1, <1>2, <1>3

\* Names only, no more of them
LEMMA PlainIs ==
  /\ Plain(<<>>) = <<>>
  /\ \A k : Plain(<<k>>) = <<Event(k, "none")>>
  /\ \A k, l : Plain(<<k, l>>) = <<Event(k, "none"), Event(l, "none")>>
<1>1. Plain(<<>>) = <<>>
  BY DEF Plain
<1>2. ASSUME NEW k
      PROVE  Plain(<<k>>) = <<Event(k, "none")>>
  <2>1. DOMAIN <<k>> = {1} /\ DOMAIN <<Event(k, "none")>> = {1} /\ <<k>>[1] = k
    OBVIOUS
  <2> QED
    BY <2>1 DEF Plain
<1>3. ASSUME NEW k, NEW l
      PROVE  Plain(<<k, l>>) = <<Event(k, "none"), Event(l, "none")>>
  <2> QED
    BY DEF Plain
<1> QED
  BY <1>1, <1>2, <1>3

\* A log and what is written after it
LEMMA Longer ==
  ASSUME NEW q \in Seq(EventState), NEW es \in Seq(EventState), NEW r, r = q \o es
  PROVE  /\ r \in Seq(EventState) /\ Len(q) \in Nat /\ Len(es) \in Nat /\ DOMAIN q = 1..Len(q)
         /\ Len(r) = Len(q) + Len(es) /\ DOMAIN r = 1..(Len(q) + Len(es))
         /\ \A i \in DOMAIN q : i \in DOMAIN r /\ r[i] = q[i]
         /\ \A i \in DOMAIN r \ DOMAIN q : i - Len(q) \in 1..Len(es) /\ r[i] = es[i - Len(q)]
         /\ \A k \in 1..Len(es) : r[Len(q) + k] = es[k]
OBVIOUS

\* What is written comes after what there is, and on that card alone.
LEMMA Wrote ==
  ASSUME NEW c \in Cards, log \in [Cards -> Seq(EventState)], NEW es \in Seq(EventState),
         Writes(c, es)
  PROVE  /\ log' \in [Cards -> Seq(EventState)]
         /\ log'[c] = log[c] \o es
         /\ \A d \in Cards \ {c} : log'[d] = log[d]
         /\ Len(log[c]) \in Nat /\ Len(es) \in Nat
         /\ DOMAIN log[c] = 1..Len(log[c])
         /\ DOMAIN log'[c] = 1..(Len(log[c]) + Len(es))
         /\ \A i \in DOMAIN log[c] : i \in DOMAIN log'[c] /\ log'[c][i] = log[c][i]
         /\ \A i \in DOMAIN log'[c] \ DOMAIN log[c] :
              i - Len(log[c]) \in 1..Len(es) /\ log'[c][i] = es[i - Len(log[c])]
         /\ \A k \in 1..Len(es) : log'[c][Len(log[c]) + k] = es[k]
<1>1. log[c] \in Seq(EventState)
  OBVIOUS
<1>2. log'[c] = log[c] \o es /\ \A d \in Cards \ {c} : log'[d] = log[d]
  BY DEF Writes
<1>3. log[c] \o es \in Seq(EventState)
  BY <1>1
<1>4. log' = [log EXCEPT ![c] = log[c] \o es]
  BY DEF Writes
<1>5. log' \in [Cards -> Seq(EventState)]
  BY <1>3, <1>4
<1>6. /\ Len(log[c]) \in Nat /\ Len(es) \in Nat /\ DOMAIN log[c] = 1..Len(log[c])
      /\ DOMAIN log'[c] = 1..(Len(log[c]) + Len(es))
      /\ \A i \in DOMAIN log[c] : i \in DOMAIN log'[c] /\ log'[c][i] = log[c][i]
      /\ \A i \in DOMAIN log'[c] \ DOMAIN log[c] :
           i - Len(log[c]) \in 1..Len(es) /\ log'[c][i] = es[i - Len(log[c])]
      /\ \A k \in 1..Len(es) : log'[c][Len(log[c]) + k] = es[k]
  BY <1>1, <1>2, Longer
<1> QED
  BY <1>2, <1>5, <1>6

\* Nothing is written where the log stays as it is.
LEMMA WroteNothing ==
  ASSUME log \in [Cards -> Seq(EventState)], UNCHANGED log
  PROVE  \A c \in Cards : Writes(c, <<>>)
<1> SUFFICES ASSUME NEW c \in Cards
             PROVE  Writes(c, <<>>)
  OBVIOUS
<1>1. log[c] \o <<>> = log[c]
  OBVIOUS
<1>2. log = [log EXCEPT ![c] = log[c]]
  OBVIOUS
<1> QED
  BY <1>1, <1>2 DEF Writes

-----------------------------------------------------------------------------
(* the steps of a run *)

\* What each mark says; and two events in a row
LEMMA MarkNames ==
  /\ "merge_request" \in EndKinds /\ MarkOf("merge_request") = "pull request"
  /\ "run_refused" \in EndKinds /\ MarkOf("run_refused") = "refused"
  /\ "run_stopped" \in EndKinds /\ MarkOf("run_stopped") = "stopped"
  /\ "run_crashed" \in EndKinds /\ MarkOf("run_crashed") = "CRASH"
  /\ "merge_conflict" \in EndKinds /\ MarkOf("merge_conflict") = "MERGE_CONFLICT"
  /\ "rebase_conflict" \in EndKinds /\ MarkOf("rebase_conflict") = "OUTDATED"
BY DEF MarkOf, EndKinds

\* Each is an event, and the mark of an end.
LEMMA MarkTypes == \A kind \in EndKinds : kind \in Kinds /\ MarkOf(kind) \in Hows
<1> SUFFICES ASSUME NEW kind \in EndKinds
             PROVE  kind \in Kinds /\ MarkOf(kind) \in Hows
  OBVIOUS
<1>1. kind \in Kinds
  BY DEF EndKinds, Kinds
<1>2. \/ kind = "merge_request" \/ kind = "run_refused" \/ kind = "run_stopped"
      \/ kind = "run_crashed" \/ kind = "merge_conflict" \/ kind = "rebase_conflict"
  BY DEF EndKinds
<1>3. /\ "pull request" \in Hows /\ "refused" \in Hows /\ "stopped" \in Hows /\ "CRASH" \in Hows
      /\ "MERGE_CONFLICT" \in Hows /\ "OUTDATED" \in Hows
  BY DEF Hows, Fault
<1> QED
  BY <1>1, <1>2, <1>3, MarkNames

\* Two or three of them in a row are the events they are made of.
LEMMA InARow ==
  ASSUME NEW e, NEW f
  PROVE  <<e>> \o <<f>> = <<e, f>> /\ Append(<<e>>, f) = <<e, f>>
<1>1. <<e>> \in Seq({e, f}) /\ <<f>> \in Seq({e, f}) /\ <<e, f>> \in Seq({e, f})
  OBVIOUS
<1>2. /\ Len(<<e>>) = 1 /\ Len(<<f>>) = 1 /\ Len(<<e, f>>) = 2
      /\ <<e>>[1] = e /\ <<f>>[1] = f /\ <<e, f>>[1] = e /\ <<e, f>>[2] = f
  OBVIOUS
<1> DEFINE a == <<e>>
           b == <<f>>
           ab == <<e, f>>
<1>3. a \o b = ab
  <2>1. \A i \in 1..2 : (a \o b)[i] = IF i <= 1 THEN a[i] ELSE b[i - 1]
    BY <1>1, <1>2, ConcatProperties
  <2>2. a \o b \in Seq({e, f}) /\ Len(a \o b) = 2
    BY <1>1, <1>2, ConcatProperties
  <2>3. (a \o b)[1] = e /\ (a \o b)[2] = f
    BY <1>2, <2>1
  <2> HIDE DEF a, b, ab
  <2>4. \A i \in 1..Len(a \o b) : (a \o b)[i] = ab[i]
    BY <1>2, <2>2, <2>3 DEF ab
  <2>5. ab \in Seq({e, f}) /\ Len(ab) = Len(a \o b)
    BY <1>1, <1>2, <2>2 DEF ab
  <2> QED
    BY <2>2, <2>4, <2>5, SeqEqual
<1>4. Append(a, f) = ab
  BY <1>1, <1>2, <1>3, AppendIsConcat
<1> QED
  BY <1>3, <1>4

\* An attempt ends
LEMMA EndsSo ==
  ASSUME NEW c \in Cards, NEW how \in Hows, NEW odd \in BOOLEAN, NEW es \in Seq(EventState),
         \/ Marked(c, how, es)
         \/ Reasoned(c, how, odd, es)
         \/ Rejected(c, how, odd, es)
         \/ FailedAs(c, how, odd, es)
         \/ odd /\ es = <<>>,
         MayEnd(c), at[c] = "reviewer" => Marked(c, how, es),
         EndsOddly(c, how, odd), Writes(c, es), UNCHANGED Told
  PROVE  Ending(c)
BY DEF Ending

\* An attempt ends with a mark, alone or after what it said before
LEMMA EndsMarked ==
  ASSUME NEW c \in Cards, NEW kind \in EndKinds, MayEnd(c),
         NEW before \in Seq(EventState),
         \/ before = <<>>
         \/ before = <<Event("worker_summary", "none")>> /\ at[c] = "worked"
         \/ before = <<Event("test_gate", "none")>> /\ at[c] = "tests"
         \/ at[c] = "reviewed" /\ \E says \in Whys : before = <<Event("review_gate", says)>>,
         Ends(c, MarkOf(kind)), Writes(c, Append(before, Event(kind, "none"))), UNCHANGED Told
  PROVE  Ending(c)
<1> DEFINE es == Append(before, Event(kind, "none"))
           how == MarkOf(kind)
<1>1. how \in Hows /\ kind \in Kinds
  BY MarkTypes
<1>2. Event(kind, "none") \in EventState
  BY <1>1, EventTypes DEF Whys
<1>3. es \in Seq(EventState)
  BY <1>2
<1>4. Marked(c, how, es)
  BY DEF Marked
<1>5. EndsOddly(c, how, FALSE) /\ Writes(c, es)
  BY DEF Ends
<1> HIDE DEF es, how
<1> QED
  BY <1>1, <1>3, <1>4, <1>5, EndsSo

\* An attempt ends with one mark
LEMMA EndsWithMark ==
  ASSUME NEW c \in Cards, NEW kind \in EndKinds, MayEnd(c),
         EndsWith(c, MarkOf(kind), <<kind>>), UNCHANGED Told
  PROVE  Ending(c)
<1>1. Append(<<>>, Event(kind, "none")) = <<Event(kind, "none")>>
  OBVIOUS
<1>2. Ends(c, MarkOf(kind)) /\ Writes(c, Append(<<>>, Event(kind, "none")))
  BY <1>1, PlainIs DEF EndsWith
<1>3. <<>> \in Seq(EventState)
  BY EventSeqs DEF Kinds, Whys
<1> QED
  BY <1>2, <1>3, EndsMarked

\* ... or after one event
LEMMA EndsAfter ==
  ASSUME NEW c \in Cards, NEW kind \in EndKinds, NEW first,
         \/ first = "worker_summary" /\ at[c] = "worked"
         \/ first = "test_gate" /\ at[c] = "tests",
         EndsWith(c, MarkOf(kind), <<first, kind>>), UNCHANGED Told
  PROVE  Ending(c)
<1> DEFINE before == <<Event(first, "none")>>
<1>1. Append(before, Event(kind, "none")) = <<Event(first, "none"), Event(kind, "none")>>
  BY InARow
<1>2. Ends(c, MarkOf(kind)) /\ Writes(c, Append(before, Event(kind, "none")))
  BY <1>1, PlainIs DEF EndsWith
<1>3. before \in Seq(EventState)
  <2>1. first \in Kinds /\ "none" \in Whys
    BY DEF Kinds, Whys
  <2> QED
    BY <2>1, EventSeqs
<1>4. \/ before = <<Event("worker_summary", "none")>> /\ at[c] = "worked"
      \/ before = <<Event("test_gate", "none")>> /\ at[c] = "tests"
  <2>1. CASE first = "worker_summary" /\ at[c] = "worked"
    BY <2>1
  <2>2. CASE first = "test_gate" /\ at[c] = "tests"
    BY <2>2
  <2> QED
    BY <2>1, <2>2
<1>5. MayEnd(c)
  BY DEF MayEnd
<1> HIDE DEF before
<1> QED
  BY <1>2, <1>3, <1>4, <1>5, EndsMarked

\* An attempt goes on
LEMMA GoesOnSo ==
  ASSUME NEW c \in Cards, astray \in [Cards -> BOOLEAN], NEW to \in Stages,
         NEW es \in Seq(EventState),
         NEW off \in BOOLEAN, Onward(c, to, es, off), Goes(c, to), Writes(c, es),
         astray' = [astray EXCEPT ![c] = @ \/ off], UNCHANGED <<Told, ends>>
  PROVE  GoesOn(c)
BY DEF GoesOn

\* An attempt goes on as well as ever
LEMMA GoesOnWell ==
  ASSUME NEW c \in Cards, astray \in [Cards -> BOOLEAN], NEW to \in Stages,
         NEW es \in Seq(EventState),
         Onward(c, to, es, FALSE), Goes(c, to), Writes(c, es), UNCHANGED history, UNCHANGED Told
  PROVE  GoesOn(c)
<1>1. astray' = astray /\ ends' = ends
  BY DEF history
<1>2. (astray[c] \/ FALSE) = astray[c]
  OBVIOUS
<1>3. astray = [astray EXCEPT ![c] = astray[c]]
  OBVIOUS
<1>4. astray' = [astray EXCEPT ![c] = @ \/ FALSE]
  BY <1>1, <1>2, <1>3
<1> QED
  BY <1>1, <1>4, GoesOnSo

\* _run_attempt up to the agent
LEMMA PrepareIs ==
  ASSUME Typed, NEW c \in Cards, Prepare(c)
  PROVE  GoesOn(c) \/ Ending(c)
<1>0. at[c] = "begun" /\ UNCHANGED Told /\ astray \in [Cards -> BOOLEAN]
  BY DEF Prepare, Typed
<1>1. CASE EndsWith(c, "refused", <<"run_refused">>)
  BY <1>0, <1>1, MarkNames, EndsWithMark DEF MayEnd
<1>2. CASE EndsWith(c, "OUTDATED", <<"rebase_conflict">>)
  BY <1>0, <1>2, MarkNames, EndsWithMark DEF MayEnd
<1>3. CASE EndsOddly(c, "TESTS_FAILED", TRUE) /\ UNCHANGED log
  <2>1. Writes(c, <<>>) /\ <<>> \in Seq(EventState)
    BY <1>3, WroteNothing DEF Typed
  <2> QED
    BY <1>0, <1>3, <2>1, EndsSo DEF Hows, MayEnd
<1>4. CASE Goes(c, "worker") /\ UNCHANGED <<log, rounds, reuse, history>>
  <2>1. Writes(c, <<>>) /\ <<>> \in Seq(EventState)
    BY <1>4, WroteNothing DEF Typed
  <2>2. Onward(c, "worker", <<>>, FALSE) /\ "worker" \in Stages
    BY <1>0 DEF Onward, Stages
  <2> QED
    BY <1>0, <1>4, <2>1, <2>2, GoesOnWell
<1>5. CASE Goes(c, "tests") /\ Writes(c, Plain(<<"worker_skipped">>)) /\ UNCHANGED history
  <2> DEFINE es == <<Event("worker_skipped", "none")>>
  <2>1. Writes(c, es) /\ es \in Seq(EventState)
    BY <1>5, PlainIs, EventSeqs DEF Kinds, Whys
  <2>2. Onward(c, "tests", es, FALSE) /\ "tests" \in Stages
    BY <1>0 DEF Onward, Stages
  <2> HIDE DEF es
  <2> QED
    BY <1>0, <1>5, <2>1, <2>2, GoesOnWell
<1> QED
  BY <1>1, <1>2, <1>3, <1>4, <1>5 DEF Prepare

\* what becomes of a worker
LEMMA WorkedIs ==
  ASSUME Typed, NEW c \in Cards, Worked(c)
  PROVE  GoesOn(c) \/ Ending(c)
<1> DEFINE why == agent[c].why
<1>0. /\ at[c] = "worked" /\ UNCHANGED Told
      /\ astray \in [Cards -> BOOLEAN] /\ why \in Fault \cup {"none"}
  BY DEF Worked, Typed, AgentState
<1>1. CASE EndsWith(c, "stopped", <<"run_stopped">>)
  BY <1>0, <1>1, MarkNames, EndsWithMark DEF MayEnd
<1>2. CASE EndsWith(c, "refused", <<"run_refused">>)
  BY <1>0, <1>2, MarkNames, EndsWithMark DEF MayEnd
<1>3. CASE why \notin {"none", "capped"} /\ Ends(c, why) /\ UNCHANGED log
  <2>1. Writes(c, <<>>) /\ <<>> \in Seq(EventState)
    BY <1>3, WroteNothing DEF Typed
  <2>2. Reasoned(c, why, FALSE, <<>>)
    BY <1>0, <1>3 DEF Reasoned, Reason
  <2>3. EndsOddly(c, why, FALSE) /\ why \in Hows
    BY <1>0, <1>3 DEF Ends, Hows
  <2> HIDE DEF why
  <2> QED
    BY <1>0, <2>1, <2>2, <2>3, EndsSo DEF MayEnd
<1>4. CASE why = "capped" /\ Ends(c, "CRASH") /\ UNCHANGED log
  <2>1. Writes(c, <<>>) /\ <<>> \in Seq(EventState)
    BY <1>4, WroteNothing DEF Typed
  <2>2. Reasoned(c, "CRASH", FALSE, <<>>)
    BY <1>0, <1>4 DEF Reasoned, Reason
  <2>3. EndsOddly(c, "CRASH", FALSE) /\ "CRASH" \in Hows
    BY <1>4 DEF Ends, Hows, Fault
  <2> QED
    BY <1>0, <2>1, <2>2, <2>3, EndsSo DEF MayEnd
<1>5. ASSUME NEW off \in BOOLEAN, why # "none" => off,
             Goes(c, "tests"), Writes(c, Plain(<<"worker_summary">>)),
             astray' = [astray EXCEPT ![c] = @ \/ off], UNCHANGED ends
      PROVE  GoesOn(c)
  <2> DEFINE es == <<Event("worker_summary", "none")>>
  <2>1. Writes(c, es) /\ es \in Seq(EventState)
    BY <1>5, PlainIs, EventSeqs DEF Kinds, Whys
  <2>2. Onward(c, "tests", es, off) /\ "tests" \in Stages
    BY <1>0, <1>5 DEF Onward, Stages
  <2> HIDE DEF es
  <2> QED
    BY <1>0, <1>5, <2>1, <2>2, GoesOnSo
<1>6. CASE EndsWith(c, "refused", <<"worker_summary", "run_refused">>)
  BY <1>0, <1>6, MarkNames, EndsAfter
<1>7. CASE /\ Goes(c, "tests") /\ Writes(c, Plain(<<"worker_summary">>))
           /\ astray' = [astray EXCEPT ![c] = @ \/ TRUE] /\ UNCHANGED ends
  BY <1>5, <1>7
<1>8. CASE /\ why = "none" /\ Goes(c, "tests") /\ Writes(c, Plain(<<"worker_summary">>))
           /\ astray' = [astray EXCEPT ![c] = @ \/ FALSE] /\ UNCHANGED ends
  BY <1>5, <1>8
<1>9. CASE EndsOddly(c, "LEASE_CONFLICT", TRUE) /\ UNCHANGED log
  <2>1. Writes(c, <<>>) /\ <<>> \in Seq(EventState)
    BY <1>9, WroteNothing DEF Typed
  <2> QED
    BY <1>0, <1>9, <2>1, EndsSo DEF Hows, Fault, MayEnd
<1> QED
  BY <1>1, <1>2, <1>3, <1>4, <1>6, <1>7, <1>8, <1>9 DEF Worked

\* a gate that failed
LEMMA FailingIs ==
  ASSUME NEW c \in Cards, at[c] \in {"tests", "opening"}, UNCHANGED Told,
         Failing(c, "TESTS_FAILED", <<>>) \/ Failing(c, "BASE_RED", <<"base_red">>)
  PROVE  Ending(c)
<1> DEFINE odd == \E i \in Kind(c, Latest(c), {"review_gate"}) : log[c][i].why # "approved"
           one == <<Event("test_gate", "failed")>>
           two == <<Event("test_gate", "failed"), Event("base_red", "none")>>
<1>1. one \in Seq(EventState) /\ two \in Seq(EventState)
  BY EventSeqs DEF Kinds, Whys
<1>2. one \o Plain(<<>>) = one /\ one \o Plain(<<"base_red">>) = two
  <2>1. one \o Plain(<<"base_red">>) = two
    BY PlainIs, InARow
  <2> HIDE DEF one
  <2>2. one \o <<>> = one
    BY <1>1
  <2> QED
    BY <2>1, <2>2, PlainIs
<1>3. odd \in BOOLEAN
  OBVIOUS
<1>4. /\ FailedAs(c, "TESTS_FAILED", odd, one)
      /\ FailedAs(c, "BASE_RED", odd, two)
  BY DEF FailedAs
<1>7. "TESTS_FAILED" \in Hows /\ "BASE_RED" \in Hows /\ MayEnd(c) /\ at[c] # "reviewer"
  BY DEF Hows, MayEnd
<1>5. CASE Failing(c, "TESTS_FAILED", <<>>)
  <2>1. EndsOddly(c, "TESTS_FAILED", odd) /\ Writes(c, one)
    BY <1>2, <1>5 DEF Failing
  <2> HIDE DEF odd, one, two
  <2> QED
    BY <1>1, <1>3, <1>4, <1>7, <2>1, EndsSo
<1>6. CASE Failing(c, "BASE_RED", <<"base_red">>)
  <2>1. EndsOddly(c, "BASE_RED", odd) /\ Writes(c, two)
    BY <1>2, <1>6 DEF Failing
  <2> HIDE DEF odd, one, two
  <2> QED
    BY <1>1, <1>3, <1>4, <1>7, <2>1, EndsSo
<1> QED
  BY <1>5, <1>6

\* the tests
LEMMA TestIs ==
  ASSUME Typed, NEW c \in Cards, Test(c)
  PROVE  GoesOn(c) \/ Ending(c)
<1>0. at[c] = "tests" /\ UNCHANGED Told /\ astray \in [Cards -> BOOLEAN]
  BY DEF Test, Typed
<1>1. CASE EndsWith(c, "refused", <<"run_refused">>)
  BY <1>0, <1>1, MarkNames, EndsWithMark DEF MayEnd
<1>2. CASE EndsWith(c, "stopped", <<"test_gate", "run_stopped">>)
  BY <1>0, <1>2, MarkNames, EndsAfter
<1>3. CASE Failing(c, "TESTS_FAILED", <<>>) \/ Failing(c, "BASE_RED", <<"base_red">>)
  BY <1>0, <1>3, FailingIs
<1>4. CASE /\ Goes(c, "opening") /\ Writes(c, Plain(<<"test_gate", "review_reused">>))
           /\ UNCHANGED history
  <2> DEFINE es == <<Event("test_gate", "none"), Event("review_reused", "none")>>
  <2>1. Writes(c, es) /\ es \in Seq(EventState)
    BY <1>4, PlainIs, EventSeqs DEF Kinds, Whys
  <2>2. Onward(c, "opening", es, FALSE) /\ "opening" \in Stages
    BY <1>0 DEF Onward, Stages
  <2> HIDE DEF es
  <2> QED
    BY <1>0, <1>4, <2>1, <2>2, GoesOnWell
<1>5. CASE Goes(c, "reviewer") /\ Writes(c, Plain(<<"test_gate">>)) /\ UNCHANGED history
  <2> DEFINE es == <<Event("test_gate", "none")>>
  <2>1. Writes(c, es) /\ es \in Seq(EventState)
    BY <1>5, PlainIs, EventSeqs DEF Kinds, Whys
  <2>2. Onward(c, "reviewer", es, FALSE) /\ "reviewer" \in Stages
    BY <1>0 DEF Onward, Stages
  <2> HIDE DEF es
  <2> QED
    BY <1>0, <1>5, <2>1, <2>2, GoesOnWell
<1> QED
  BY <1>1, <1>2, <1>3, <1>4, <1>5 DEF Test

\* the verdict
LEMMA VerdictIs ==
  ASSUME Typed, NEW c \in Cards, Verdict(c)
  PROVE  GoesOn(c) \/ Ending(c)
<1> DEFINE why == agent[c].why
           outage == IF why \in {"USAGE_LIMIT", "API_UNREACHABLE"} THEN why ELSE "CRASH"
           gate(says) == <<Event("review_gate", says)>>
<1>0. /\ at[c] = "reviewed" /\ UNCHANGED Told
      /\ astray \in [Cards -> BOOLEAN] /\ why \in Fault \cup {"none"}
  BY DEF Verdict, Typed, AgentState
<1>00. /\ outage \in Whys /\ outage \in Hows /\ (why = "none" => outage = "CRASH")
       /\ outage = why \/ why = "capped" => outage = Reason(why)
  BY <1>0 DEF Reason, Whys, Hows, Fault
<1>000. \A says \in Whys : gate(says) \in Seq(EventState)
  BY EventSeqs DEF Kinds, Whys
<1>1. ASSUME NEW says \in Whys, Ends(c, "stopped"),
             Writes(c, gate(says) \o Plain(<<"run_stopped">>))
      PROVE  Ending(c)
  <2> DEFINE before == <<Event("review_gate", says)>>
  <2>1. gate(says) \o Plain(<<"run_stopped">>) = Append(before, Event("run_stopped", "none"))
    BY PlainIs, InARow
  <2>2. before \in Seq(EventState)
    BY <1>000
  <2> HIDE DEF outage
  <2> QED
    BY <1>0, <1>1, <2>1, <2>2, MarkNames, EndsMarked DEF MayEnd
<1>2. CASE /\ Goes(c, "opening") /\ Writes(c, gate("approved")) /\ UNCHANGED ends
           /\ astray' = [astray EXCEPT ![c] = @ \/ why # "none"]
  <2>1. Onward(c, "opening", gate("approved"), why # "none") /\ "opening" \in Stages
    BY <1>0 DEF Onward, Stages
  <2>2. gate("approved") \in Seq(EventState) /\ (why # "none") \in BOOLEAN
    BY <1>000 DEF Whys
  <2> HIDE DEF gate, outage
  <2> QED
    BY <1>0, <1>2, <2>1, <2>2, GoesOnSo
<1>3. CASE /\ Writes(c, gate(outage))
           /\ EndsOddly(c, outage, outage # why /\ why \notin {"none", "capped"})
  <2> DEFINE odd == outage # why /\ why \notin {"none", "capped"}
  <2>1. Reasoned(c, outage, odd, gate(outage)) \/ Rejected(c, outage, odd, gate(outage))
    <3>1. CASE why = "none"
      <4>1. outage = "CRASH"
        BY <1>00, <3>1
      <4> HIDE DEF outage, odd
      <4> QED
        BY <1>0, <3>1, <4>1 DEF Rejected
    <3>2. CASE why # "none"
      <4>1. ~odd => outage = Reason(why)
        BY <1>00, <3>2
      <4> HIDE DEF outage, odd
      <4> QED
        BY <1>0, <1>00, <3>2, <4>1 DEF Reasoned
    <3> QED
      BY <3>1, <3>2
  <2>2. odd \in BOOLEAN
    OBVIOUS
  <2>3. gate(outage) \in Seq(EventState)
    BY <1>00, <1>000
  <2>4. EndsOddly(c, outage, odd)
    BY <1>3
  <2> HIDE DEF gate, odd, outage, why
  <2> QED
    BY <1>0, <1>00, <1>3, <2>1, <2>2, <2>3, <2>4, EndsSo DEF MayEnd
<1>4. CASE /\ Writes(c, gate("REVIEW_REJECTED"))
           /\ EndsOddly(c, "REVIEW_REJECTED", why # "none")
  <2> DEFINE odd == why # "none"
  <2>1. Rejected(c, "REVIEW_REJECTED", odd, gate("REVIEW_REJECTED"))
    BY <1>0 DEF Rejected
  <2>2. odd \in BOOLEAN /\ gate("REVIEW_REJECTED") \in Seq(EventState)
    BY <1>000 DEF Whys
  <2>3. EndsOddly(c, "REVIEW_REJECTED", odd) /\ "REVIEW_REJECTED" \in Hows
    BY <1>4 DEF Hows
  <2> HIDE DEF gate, odd, outage
  <2> QED
    BY <1>0, <1>4, <2>1, <2>2, <2>3, EndsSo DEF MayEnd
<1>5. CASE /\ Goes(c, "worker") /\ UNCHANGED ends
           /\ Writes(c, gate("REVIEW_REJECTED") \o Plain(<<"fix_round">>))
           /\ astray' = [astray EXCEPT ![c] = @ \/ why # "none"]
  <2> DEFINE es == <<Event("review_gate", "REVIEW_REJECTED"), Event("fix_round", "none")>>
  <2>1. gate("REVIEW_REJECTED") \o Plain(<<"fix_round">>) = es
    <3>1. Plain(<<"fix_round">>) = <<Event("fix_round", "none")>>
      BY PlainIs
    <3> QED
      BY <3>1, InARow
  <2>2. Onward(c, "worker", es, why # "none") /\ "worker" \in Stages
    BY <1>0 DEF Onward, Stages
  <2>3. es \in Seq(EventState) /\ (why # "none") \in BOOLEAN
    BY EventSeqs DEF Kinds, Whys
  <2>4. Writes(c, es)
    BY <1>5, <2>1
  <2> HIDE DEF es, gate, outage
  <2> QED
    BY <1>0, <1>5, <2>2, <2>3, <2>4, GoesOnSo
<1>6. \/ \E says \in {"approved", "REVIEW_REJECTED", outage} :
           Ends(c, "stopped") /\ Writes(c, gate(says) \o Plain(<<"run_stopped">>))
      \/ /\ Goes(c, "opening") /\ Writes(c, gate("approved")) /\ UNCHANGED ends
         /\ astray' = [astray EXCEPT ![c] = @ \/ why # "none"]
      \/ /\ Writes(c, gate(outage))
         /\ EndsOddly(c, outage, outage # why /\ why \notin {"none", "capped"})
      \/ /\ Writes(c, gate("REVIEW_REJECTED"))
         /\ EndsOddly(c, "REVIEW_REJECTED", why # "none")
      \/ /\ Goes(c, "worker") /\ UNCHANGED ends
         /\ Writes(c, gate("REVIEW_REJECTED") \o Plain(<<"fix_round">>))
         /\ astray' = [astray EXCEPT ![c] = @ \/ why # "none"]
  BY Zenon DEF Verdict
<1>7. {"approved", "REVIEW_REJECTED", outage} \subseteq Whys
  <2> HIDE DEF outage
  <2> QED
    BY <1>00 DEF Whys
<1> HIDE DEF outage, gate, why
<1> QED
  BY <1>1, <1>2, <1>3, <1>4, <1>5, <1>6, <1>7

\* no reviewer, the pull request, and a run that raised
LEMMA LateStepsAre ==
  ASSUME Typed, NEW c \in Cards, NoReviewer(c) \/ Open(c) \/ Raises(c)
  PROVE  GoesOn(c) \/ Ending(c)
<1>1. CASE NoReviewer(c)
  <2>0. /\ at[c] = "reviewer" /\ Silent(c) /\ ~agent[c].limited /\ UNCHANGED Told
        /\ astray \in [Cards -> BOOLEAN]
    BY <1>1 DEF NoReviewer, Typed
  <2>1. CASE EndsWith(c, "refused", <<"run_refused">>)
    BY <2>0, <2>1, MarkNames, EndsWithMark DEF MayEnd
  <2>2. CASE /\ Goes(c, "opening") /\ Writes(c, <<Event("review_gate", "approved")>>)
             /\ UNCHANGED history
    <3> DEFINE es == <<Event("review_gate", "approved")>>
    <3>1. es \in Seq(EventState)
      BY EventSeqs DEF Kinds, Whys
    <3>2. Onward(c, "opening", es, FALSE) /\ "opening" \in Stages
      BY <2>0 DEF Onward, Stages
    <3>3. Writes(c, es)
      BY <2>2
    <3> HIDE DEF es
    <3> QED
      BY <2>0, <2>2, <3>1, <3>2, <3>3, GoesOnWell
  <2> QED
    BY <1>1, <2>1, <2>2 DEF NoReviewer
<1>2. CASE Open(c)
  <2>0. at[c] = "opening" /\ UNCHANGED Told
    BY <1>2 DEF Open
  <2>1. CASE EndsWith(c, "stopped", <<"run_stopped">>)
    BY <2>0, <2>1, MarkNames, EndsWithMark DEF MayEnd
  <2>2. CASE EndsWith(c, "MERGE_CONFLICT", <<"merge_conflict">>)
    BY <2>0, <2>2, MarkNames, EndsWithMark DEF MayEnd
  <2>3. CASE EndsWith(c, "refused", <<"run_refused">>)
    BY <2>0, <2>3, MarkNames, EndsWithMark DEF MayEnd
  <2>4. CASE EndsWith(c, "pull request", <<"merge_request">>)
    BY <2>0, <2>4, MarkNames, EndsWithMark DEF MayEnd
  <2>5. CASE Failing(c, "TESTS_FAILED", <<>>) \/ Failing(c, "BASE_RED", <<"base_red">>)
    BY <2>0, <2>5, FailingIs
  <2> QED
    BY <1>2, <2>1, <2>2, <2>3, <2>4, <2>5 DEF Open
<1>3. CASE Raises(c)
  BY <1>3, MarkNames, EndsWithMark DEF Raises, MayEnd
<1> QED
  BY <1>1, <1>2, <1>3

\* Whatever a run does: it starts, is refused at once, goes on or ends.
LEMMA RunSteps ==
  ASSUME Typed, NEW c \in Cards, RunNext(c)
  PROVE  Start(c) \/ RefusedAtOnce(c) \/ GoesOn(c) \/ Ending(c)
BY PrepareIs, WorkedIs, TestIs, VerdictIs, LateStepsAre DEF RunNext

\* The price of what an agent used is that of all of it.
LEMMA PendingIs ==
  ASSUME Typed, NEW c \in Cards
  PROVE  /\ agent[c] \in AgentState /\ agent[c].pending \in Seq(Price) /\ Pending(c) \in Price
         /\ agent[c].pending = <<>> => Pending(c) = 0
<1>1. agent[c] \in AgentState /\ agent[c].pending \in Seq(Price)
  BY DEF Typed, AgentState
<1> DEFINE p == agent[c].pending
<1>2. p \in [1..Len(p) -> Price] /\ Len(p) \in Nat
  BY <1>1
<1>3. IsFiniteSet(1..Len(p))
  BY <1>2, FS_Interval
<1>4. p = <<>> => 1..Len(p) = {}
  OBVIOUS
<1> HIDE DEF p
<1>5. CostSum(p) \in Price /\ (p = <<>> => CostSum(p) = 0)
  BY <1>2, <1>3, <1>4, CostAdds
<1> QED
  BY <1>1, <1>5 DEF Pending, p

\* A cost is charged to whoever is at work, and to nobody else.
LEMMA Charged ==
  ASSUME Typed, NEW c \in Cards, at[c] \in Roles, NEW cost \in Price, Charge(c, cost)
  PROVE  /\ paid' \in [Cards -> [Roles -> Price]]
         /\ paid'[c][at[c]] = Plus(paid[c][at[c]], cost)
         /\ \A r \in Roles \ {at[c]} : paid'[c][r] = paid[c][r]
         /\ \A d \in Cards \ {c} : paid'[d] = paid[d]
<1>1. paid \in [Cards -> [Roles -> Price]] /\ paid[c] \in [Roles -> Price]
  BY DEF Typed
<1>2. paid[c][at[c]] \in Price
  BY <1>1
<1>3. Plus(paid[c][at[c]], cost) \in Price
  BY <1>2, PlusIs
<1> DEFINE p == Plus(paid[c][at[c]], cost)
<1>4. paid' = [paid EXCEPT ![c] = [paid[c] EXCEPT ![at[c]] = p]]
  BY DEF Charge
<1> HIDE DEF p
<1> QED
  BY <1>1, <1>3, <1>4 DEF p

\* The parts of a result are well formed.
LEMMA ResultIs ==
  ASSUME Typed, NEW c \in Cards, at[c] \in Roles, NEW cost \in Price, NEW used \in Price,
         NEW why \in Whys
  PROVE  LET e == Result(c, cost, used, why) IN
         /\ e \in EventState /\ e.kind = "result" /\ e.why = why /\ e.cost = cost
         /\ e.used = used /\ e.day = day /\ (e.role = "unsaid" \/ e.role = at[c])
         /\ tagged => e.role = at[c]
<1>1. "result" \in Kinds /\ day \in Nat /\ at[c] \in Roles
  BY DEF Kinds, Typed
<1> QED
  BY <1>1 DEF Result, Event, EventState, Roles

\* What the agent writes and holds
LEMMA TypedLine ==
  ASSUME Typed, NEW c \in Cards, SpendConstants, Line(c), at' = at,
         NEW e \in EventState, Writes(c, <<e>>), NEW a \in AgentState,
           agent' = [agent EXCEPT ![c] = a],
         paid' \in [Cards -> [Roles -> Price]], due' \in [Cards -> Price], today' \in Price,
         astray' \in [Cards -> BOOLEAN]
  PROVE  Typed'
<1>1. log' \in [Cards -> Seq(EventState)]
  <2>1. <<e>> \in Seq(EventState) /\ log \in [Cards -> Seq(EventState)]
    BY DEF Typed
  <2> QED
    BY <2>1, Wrote
<1>2. agent' \in [Cards -> AgentState] /\ \A d \in Cards \ {c} : agent'[d] = agent[d]
  BY DEF Typed
<1>3. happened' \in 0..MaxHappens
  BY DEF Line, Happens, Typed, SpendConstants
<1>4. UNCHANGED <<turns, day, tagged, rounds, reuse, ends, unheard>> /\ at[c] \in Roles
  BY DEF Line, control
<1>5. \A d \in Cards : at'[d] \notin Roles =>
         agent'[d].pending = <<>> /\ agent'[d].finals = 0 /\ ~agent'[d].limited
  BY <1>2, <1>4 DEF Typed
<1> QED
  BY <1>1, <1>2, <1>3, <1>4, <1>5 DEF Typed

\* An agent that has come back
LEMMA TypedExit ==
  ASSUME Typed, NEW c \in Cards, SpendConstants, NEW why \in Fault \cup {"none"}, Exit(c, why),
         log' \in [Cards -> Seq(EventState)],
         paid' \in [Cards -> [Roles -> Price]], due' \in [Cards -> Price], today' \in Price,
         astray' \in [Cards -> BOOLEAN], unheard' \in BOOLEAN, happened' \in 0..MaxHappens
  PROVE  /\ Typed'
         /\ at' \in [Cards -> Stages] /\ at'[c] \notin Roles /\ at'[c] # "idle"
         /\ \A d \in Cards \ {c} : at'[d] = at[d] /\ agent'[d] = agent[d]
         /\ agent'[c] = [NoAgent EXCEPT !.why = why]
<1> DEFINE a == [NoAgent EXCEPT !.why = why]
<1>1. a \in AgentState /\ a.pending = <<>> /\ a.finals = 0 /\ ~a.limited /\ a.why = why
  <2>1. <<>> \in Seq(Price) /\ FALSE \in BOOLEAN
    OBVIOUS
  <2>2. NoAgent \in AgentState
    BY <2>1 DEF NoAgent, AgentState
  <2>3. a \in AgentState
    BY <2>2 DEF AgentState
  <2>4. a.pending = <<>> /\ a.finals = 0
    BY DEF NoAgent
  <2>5. a.limited = FALSE
    BY DEF NoAgent
  <2>6. a.why = why
    BY DEF NoAgent
  <2> QED
    BY <2>3, <2>4, <2>5, <2>6
<1>2. /\ agent' = [agent EXCEPT ![c] = a] /\ agent \in [Cards -> AgentState]
      /\ at \in [Cards -> Stages]
      /\ UNCHANGED <<turns, day, tagged, rounds, reuse, ends>>
  BY DEF Exit, Typed
<1> HIDE DEF a
<1>3. PICK to \in {"worked", "reviewed"} : at' = [at EXCEPT ![c] = to]
  BY DEF Exit, Goes
<1>4. to \in Stages /\ to \notin Roles /\ to # "idle"
  BY <1>3 DEF Stages, Roles
<1>5. /\ at' \in [Cards -> Stages] /\ at'[c] = to
      /\ \A d \in Cards \ {c} : at'[d] = at[d] /\ agent'[d] = agent[d]
      /\ agent' \in [Cards -> AgentState] /\ agent'[c] = a
  BY <1>1, <1>2, <1>3, <1>4
<1>6. \A d \in Cards : at'[d] \notin Roles =>
         agent'[d].pending = <<>> /\ agent'[d].finals = 0 /\ ~agent'[d].limited
  BY <1>1, <1>5 DEF Typed
<1>7. Typed'
  BY <1>2, <1>5, <1>6 DEF Typed
<1> QED
  BY <1>4, <1>5, <1>7 DEF a

\* Whatever an agent does, the types are kept.
LEMMA TypedAgent ==
  ASSUME Typed, NEW c \in Cards, SpendConstants, AgentNext(c)
  PROVE  Typed'
<1>0. /\ agent[c] \in AgentState /\ agent[c].pending \in Seq(Price) /\ Pending(c) \in Price
      /\ Prices \subseteq Price /\ Faults \subseteq Fault /\ log \in [Cards -> Seq(EventState)]
  BY PendingIs DEF SpendConstants, Price, Typed
<1>1. /\ paid \in [Cards -> [Roles -> Price]] /\ due \in [Cards -> Price] /\ today \in Price
      /\ astray \in [Cards -> BOOLEAN] /\ unheard \in BOOLEAN /\ happened \in 0..MaxHappens
      /\ agent \in [Cards -> AgentState] /\ due[c] \in Price /\ agent[c].why \in Fault \cup {"none"}
      /\ agent[c].limited \in BOOLEAN /\ agent[c].finals \in {0, 1} /\ MaxHappens \in Nat
  BY <1>0 DEF Typed, AgentState, SpendConstants
<1>2. CASE Uses(c)
  <2>1. PICK cost \in Prices :
          /\ Line(c) /\ Writes(c, <<[Event("usage", "none") EXCEPT !.used = cost]>>)
          /\ agent' = [agent EXCEPT ![c].pending = Append(@, cost)]
          /\ Charge(c, cost) /\ due' = [due EXCEPT ![c] = Plus(@, cost)]
          /\ UNCHANGED <<today, astray>>
    BY <1>2 DEF Uses
  <2>2. cost \in Price /\ Plus(due[c], cost) \in Price /\ at[c] \in Roles
    BY <1>0, <1>1, <2>1, PlusIs DEF Line
  <2> DEFINE a == [agent[c] EXCEPT !.pending = Append(@, cost)]
             e == [Event("usage", "none") EXCEPT !.used = cost]
  <2>3. a \in AgentState
    <3>1. Append(agent[c].pending, cost) \in Seq(Price)
      BY <1>0, <2>2
    <3> QED
      BY <1>0, <3>1 DEF AgentState
  <2>4. e \in EventState
    <3>1. Event("usage", "none") \in EventState
      BY EventTypes DEF Kinds, Whys
    <3> QED
      BY <2>2, <3>1 DEF EventState
  <2>5. agent' = [agent EXCEPT ![c] = a] /\ at' = at
    BY <2>1 DEF Line, control
  <2>6. due' \in [Cards -> Price] /\ paid' \in [Cards -> [Roles -> Price]]
    BY <1>1, <2>1, <2>2, Charged
  <2> HIDE DEF a
  <2> QED
    BY <1>1, <2>1, <2>3, <2>4, <2>5, <2>6, TypedLine
<1>3. CASE Reports(c)
  <2>1. PICK cost \in Prices, why \in {"none"} \cup Faults :
          /\ Line(c)
          /\ Writes(c, <<Result(c, Plus(Pending(c), cost), cost,
                               IF why = "capped" THEN "CRASH" ELSE why)>>)
          /\ agent' = [agent EXCEPT ![c] = [@ EXCEPT !.pending = <<>>, !.finals = 1, !.why = why]]
          /\ Charge(c, cost) /\ Settle(c, Plus(due[c], cost))
          /\ astray' = [astray EXCEPT ![c] =
                  @ \/ (agent[c].finals = 1 /\ agent[c].why # "none" /\ why = "none")]
    BY <1>3 DEF Reports
  <2>2. /\ cost \in Price /\ Plus(due[c], cost) \in Price /\ at[c] \in Roles
        /\ Plus(Pending(c), cost) \in Price /\ why \in Fault \cup {"none"}
    BY <1>0, <1>1, <2>1, PlusIs DEF Line
  <2> DEFINE a == [agent[c] EXCEPT !.pending = <<>>, !.finals = 1, !.why = why]
             e == Result(c, Plus(Pending(c), cost), cost, IF why = "capped" THEN "CRASH" ELSE why)
             off == agent[c].finals = 1 /\ agent[c].why # "none" /\ why = "none"
  <2>3. a \in AgentState
    <3>1. <<>> \in Seq(Price)
      OBVIOUS
    <3> QED
      BY <1>0, <2>2, <3>1 DEF AgentState
  <2>4. e \in EventState
    <3>1. (IF why = "capped" THEN "CRASH" ELSE why) \in Whys
      BY <2>2 DEF Whys, Fault
    <3> QED
      BY <2>2, <3>1, ResultIs
  <2>5. agent' = [agent EXCEPT ![c] = a] /\ at' = at
    BY <2>1 DEF Line, control
  <2>6. due' \in [Cards -> Price] /\ paid' \in [Cards -> [Roles -> Price]] /\ today' \in Price
    <3>1. Plus(today, Plus(due[c], cost)) \in Price /\ 0 \in Price
      BY <1>1, <2>2, PlusIs DEF Price
    <3> QED
      BY <1>1, <2>1, <2>2, <3>1, Charged DEF Settle
  <2>7. astray' \in [Cards -> BOOLEAN]
    <3>1. off \in BOOLEAN
      OBVIOUS
    <3>2. astray' = [astray EXCEPT ![c] = @ \/ off]
      BY <2>1
    <3> HIDE DEF off
    <3> QED
      BY <1>1, <3>1, <3>2
  <2> HIDE DEF a, e
  <2> QED
    BY <2>1, <2>3, <2>4, <2>5, <2>6, <2>7, TypedLine DEF e
<1>4. CASE Limited(c)
  <2> DEFINE a == [agent[c] EXCEPT !.limited = TRUE]
             e == Event("rate_limit", "none")
  <2>1. /\ Line(c) /\ Writes(c, <<e>>) /\ agent' = [agent EXCEPT ![c] = a]
        /\ UNCHANGED <<paid, due, today, astray>> /\ at' = at
    BY <1>4, PlainIs DEF Limited, Line, control
  <2>2. a \in AgentState /\ e \in EventState
    BY <1>0, EventTypes DEF AgentState, Kinds, Whys
  <2> HIDE DEF a, e
  <2> QED
    BY <1>1, <2>1, <2>2, TypedLine
<1>5. ASSUME LeftOver(c)
      PROVE  due' \in [Cards -> Price] /\ unheard' \in BOOLEAN /\ UNCHANGED <<paid, today,
               happened>>
  <2>1. 0 \in Price
    BY DEF Price
  <2> QED
    BY <1>1, <1>5, <2>1 DEF LeftOver
<1>6. CASE Finishes(c)
  <2> DEFINE off == agent[c].limited /\ agent[c].why \notin {"none", "USAGE_LIMIT"}
  <2>1. astray' \in [Cards -> BOOLEAN]
    <3>1. off \in BOOLEAN
      BY <1>1
    <3>2. astray' = [astray EXCEPT ![c] = @ \/ off]
      BY <1>6 DEF Finishes
    <3> HIDE DEF off
    <3> QED
      BY <1>1, <3>1, <3>2
  <2>2. PICK why \in Fault \cup {"none"} : Exit(c, why)
    BY <1>1, <1>6 DEF Finishes, Fault
  <2>3. LeftOver(c) /\ UNCHANGED log
    BY <1>6 DEF Finishes
  <2> QED
    BY <1>0, <1>1, <1>5, <2>1, <2>2, <2>3, TypedExit
<1>7. CASE Stalls(c)
  <2>1. /\ LeftOver(c) /\ UNCHANGED log /\ Exit(c, "API_UNREACHABLE")
        /\ astray' = [astray EXCEPT ![c] = TRUE] /\ "API_UNREACHABLE" \in Fault
    BY <1>7 DEF Stalls, Fault
  <2>2. astray' \in [Cards -> BOOLEAN]
    BY <1>1, <2>1
  <2> QED
    BY <1>0, <1>1, <1>5, <2>1, <2>2, TypedExit
<1>8. ASSUME Happens
      PROVE  happened' \in 0..MaxHappens
  BY <1>1, <1>8 DEF Happens
<1>9. ASSUME NEW cost \in Price, Settle(c, cost)
      PROVE  today' \in Price /\ due' \in [Cards -> Price]
  <2>1. Plus(today, cost) \in Price /\ 0 \in Price
    BY <1>1, <1>9, PlusIs DEF Price
  <2> QED
    BY <1>1, <1>9, <2>1 DEF Settle
<1>10. NoPrice \in Price
  BY DEF Price
<1>11. ASSUME NEW cost \in Price, NEW why \in Whys, at[c] \in Roles,
              Writes(c, <<Result(c, cost, 0, why)>>)
       PROVE  log' \in [Cards -> Seq(EventState)]
  <2> DEFINE e == Result(c, cost, 0, why)
  <2>1. 0 \in Price
    BY DEF Price
  <2>2. e \in EventState
    BY <1>11, <2>1, ResultIs
  <2> HIDE DEF e
  <2>3. <<e>> \in Seq(EventState)
    BY <2>2
  <2> QED
    BY <1>0, <1>11, <2>3, Wrote DEF e
<1>12. CASE Dies(c)
  <2>1. PICK stalled \in BOOLEAN :
          LET cost == IF agent[c].pending = <<>> THEN NoPrice ELSE Pending(c)
              why == IF stalled THEN "API_UNREACHABLE"
                     ELSE IF agent[c].limited THEN "USAGE_LIMIT" ELSE "CRASH" IN
          /\ agent[c].finals = 0 /\ Happens
          /\ Exit(c, why) /\ Writes(c, <<Result(c, cost, 0, why)>>)
          /\ IF Silent(c) THEN Charge(c, NoPrice) /\ Settle(c, NoPrice)
             ELSE Settle(c, due[c]) /\ UNCHANGED paid
          /\ astray' = [astray EXCEPT ![c] = @ \/ (stalled /\ agent[c].limited)]
          /\ UNCHANGED unheard
    BY <1>12 DEF Dies
  <2> DEFINE cost == IF agent[c].pending = <<>> THEN NoPrice ELSE Pending(c)
             why == IF stalled THEN "API_UNREACHABLE"
                    ELSE IF agent[c].limited THEN "USAGE_LIMIT" ELSE "CRASH"
  <2>2. cost \in Price /\ why \in Fault /\ at[c] \in Roles
    BY <1>0, <1>10, <2>1 DEF Fault, Exit
  <2>3. astray' \in [Cards -> BOOLEAN]
    <3>1. (stalled /\ agent[c].limited) \in BOOLEAN
      BY <1>1
    <3> QED
      BY <1>1, <2>1, <3>1
  <2>4. /\ Happens /\ Exit(c, why) /\ Writes(c, <<Result(c, cost, 0, why)>>)
        /\ \/ Charge(c, NoPrice) /\ Settle(c, NoPrice)
           \/ Settle(c, due[c]) /\ UNCHANGED paid
        /\ UNCHANGED unheard
    BY <2>1
  <2> HIDE DEF cost, why
  <2>5. log' \in [Cards -> Seq(EventState)]
    BY <1>11, <2>2, <2>4 DEF Whys
  <2>6. paid' \in [Cards -> [Roles -> Price]] /\ due' \in [Cards -> Price] /\ today' \in Price
    BY <1>1, <1>9, <1>10, <2>2, <2>4, Charged
  <2> QED
    BY <1>1, <1>8, <2>2, <2>3, <2>4, <2>5, <2>6, TypedExit
<1>13. CASE Capped(c)
  <2>1. /\ Happens /\ Exit(c, "capped") /\ Writes(c, <<Result(c, Rest(c), 0, "CRASH")>>)
        /\ \/ Charge(c, NoPrice) /\ Settle(c, NoPrice) /\ unheard' = TRUE
           \/ Settle(c, due[c]) /\ UNCHANGED <<paid, unheard>>
        /\ UNCHANGED astray
    BY <1>13 DEF Capped
  <2>2. Rest(c) \in Price /\ "capped" \in Fault /\ "CRASH" \in Whys /\ at[c] \in Roles
    BY <1>0, <2>1 DEF Fault, Exit, Whys, Rest
  <2>3. log' \in [Cards -> Seq(EventState)]
    BY <1>11, <2>1, <2>2
  <2>4. paid' \in [Cards -> [Roles -> Price]] /\ due' \in [Cards -> Price] /\ today' \in Price
    BY <1>1, <1>9, <1>10, <2>1, <2>2, Charged
  <2> QED
    BY <1>1, <1>8, <2>1, <2>2, <2>3, <2>4, TypedExit
<1> QED
  BY <1>2, <1>3, <1>4, <1>6, <1>7, <1>12, <1>13 DEF AgentNext

\* An end is noted once, last.
LEMMA EndNoted ==
  ASSUME Typed, NEW c \in Cards, NEW how \in Hows, NEW odd \in BOOLEAN, EndsOddly(c, how, odd)
  PROVE  /\ at' \in [Cards -> Stages] /\ at'[c] = "idle" /\ \A d \in Cards \ {c} : at'[d] = at[d]
         /\ rounds' \in [Cards -> 0..MaxFixRounds] /\ reuse' \in [Cards -> BOOLEAN]
         /\ astray' \in [Cards -> BOOLEAN] /\ astray'[c] = FALSE
         /\ \A d \in Cards \ {c} : astray'[d] = astray[d] /\ ends'[d] = ends[d]
         /\ ends' \in [Cards -> Seq([how : Hows, odd : BOOLEAN])]
         /\ Len(ends[c]) \in Nat /\ Len(ends'[c]) = Len(ends[c]) + 1
         /\ \A n \in 1..Len(ends[c]) : ends'[c][n] = ends[c][n]
         /\ ends'[c][Len(ends'[c])] = [how |-> how, odd |-> astray[c] \/ odd]
<1>1. /\ at \in [Cards -> Stages] /\ rounds \in [Cards -> 0..MaxFixRounds]
      /\ reuse \in [Cards -> BOOLEAN] /\ astray \in [Cards -> BOOLEAN]
      /\ ends \in [Cards -> Seq([how : Hows, odd : BOOLEAN])]
      /\ "idle" \in Stages
  BY DEF Typed, Stages
<1>2. /\ at' = [at EXCEPT ![c] = "idle"] /\ rounds' = [rounds EXCEPT ![c] = 0]
      /\ reuse' = [reuse EXCEPT ![c] = FALSE] /\ astray' = [astray EXCEPT ![c] = FALSE]
      /\ ends' = [ends EXCEPT ![c] = Append(ends[c], [how |-> how, odd |-> astray[c] \/ odd])]
  BY DEF EndsOddly, Goes
<1> DEFINE T == [how : Hows, odd : BOOLEAN]
           x == [how |-> how, odd |-> astray[c] \/ odd]
           s == ends[c]
<1>3. x \in T /\ s \in Seq(T)
  BY <1>1
<1>4. 0 \in 0..MaxFixRounds
  <2>1. MaxFixRounds \in Nat
    BY SpendConstants DEF SpendConstants
  <2> QED
    BY <2>1
<1> HIDE DEF T, x
<1>5. Append(s, x) \in Seq(T)
  BY <1>3
<1> HIDE DEF s
<1>6. /\ Len(s) \in Nat /\ Len(Append(s, x)) = Len(s) + 1
      /\ \A n \in 1..Len(s) : Append(s, x)[n] = s[n]
      /\ Append(s, x)[Len(s) + 1] = x
  BY <1>3, AppendProperties
<1> USE DEF s
<1>7. ends' \in [Cards -> Seq(T)] /\ ends'[c] = Append(s,
        x) /\ \A d \in Cards \ {c} : ends'[d] = ends[d]
  BY <1>1, <1>2, <1>5 DEF x, T
<1>8. /\ at' \in [Cards -> Stages] /\ at'[c] = "idle" /\ \A d \in Cards \ {c} : at'[d] = at[d]
      /\ rounds' \in [Cards -> 0..MaxFixRounds] /\ reuse' \in [Cards -> BOOLEAN]
  BY <1>1, <1>2, <1>4
<1>9. /\ astray' \in [Cards -> BOOLEAN] /\ astray'[c] = FALSE
      /\ \A d \in Cards \ {c} : astray'[d] = astray[d]
  BY <1>1, <1>2
<1> QED
  BY <1>6, <1>7, <1>8, <1>9 DEF x, T

\* A run counts its rounds of fixes up to the most it may have.
LEMMA CountsTyped ==
  ASSUME Typed, NEW c \in Cards, RunNext(c)
  PROVE  rounds' \in [Cards -> 0..MaxFixRounds] /\ reuse' \in [Cards -> BOOLEAN]
<1>0. /\ rounds \in [Cards -> 0..MaxFixRounds] /\ reuse \in [Cards -> BOOLEAN]
      /\ MaxFixRounds \in Nat
  BY SpendConstants DEF Typed, SpendConstants
<1>1. ASSUME UNCHANGED <<rounds, reuse>>
      PROVE  rounds' \in [Cards -> 0..MaxFixRounds] /\ reuse' \in [Cards -> BOOLEAN]
  BY <1>0, <1>1
<1>2. ASSUME NEW how, NEW odd, EndsOddly(c, how, odd)
      PROVE  rounds' \in [Cards -> 0..MaxFixRounds] /\ reuse' \in [Cards -> BOOLEAN]
  BY <1>0, <1>2 DEF EndsOddly
<1>3. CASE Start(c) \/ RefusedAtOnce(c)
  BY <1>1, <1>3 DEF Start, RefusedAtOnce, control
<1>4. CASE Prepare(c)
  <2>1. ASSUME NEW r \in {FALSE, ApprovedOnce(c)}, reuse' = [reuse EXCEPT ![c] = r]
        PROVE  reuse' \in [Cards -> BOOLEAN]
    <3>1. ApprovedOnce(c) \in BOOLEAN
      BY DEF ApprovedOnce
    <3> QED
      BY <1>0, <2>1, <3>1
  <2> QED
    BY <1>0, <1>1, <1>2, <1>4, <2>1 DEF Prepare, EndsWith, Ends
<1>5. CASE Worked(c)
  BY <1>1, <1>2, <1>5 DEF Worked, EndsWith, Ends
<1>6. CASE Test(c)
  BY <1>1, <1>2, <1>6 DEF Test, EndsWith, Ends, Failing
<1>7. CASE Verdict(c)
  <2>1. \/ UNCHANGED <<rounds, reuse>>
        \/ \E how, odd : EndsOddly(c, how, odd)
        \/ UNCHANGED reuse /\ rounds[c] < MaxFixRounds /\ rounds' = [rounds EXCEPT ![c] = @ + 1]
    BY <1>7 DEF Verdict, Ends
  <2>2. CASE UNCHANGED reuse /\ rounds[c] < MaxFixRounds /\ rounds' = [rounds EXCEPT ![c] = @ + 1]
    <3>1. rounds[c] + 1 \in 0..MaxFixRounds
      BY <1>0, <2>2
    <3> QED
      BY <1>0, <2>2, <3>1
  <2> QED
    BY <1>1, <1>2, <2>1, <2>2
<1>8. CASE NoReviewer(c) \/ Open(c) \/ Raises(c)
  BY <1>1, <1>2, <1>8 DEF NoReviewer, Open, Raises, EndsWith, Ends, Failing
<1> QED
  BY <1>3, <1>4, <1>5, <1>6, <1>7, <1>8 DEF RunNext

\* What a run leaves alone
Booked == <<turns, day, tagged, agent, money, happened>>

\* The types are kept as a run starts, goes on, ends.
LEMMA TypedRun ==
  ASSUME Typed, NEW c \in Cards, SpendConstants, RunNext(c)
  PROVE  Typed'
<1>0. /\ log \in [Cards -> Seq(EventState)] /\ at \in [Cards -> Stages]
      /\ agent \in [Cards -> AgentState]
      /\ astray \in [Cards -> BOOLEAN]
      /\ ends \in [Cards -> Seq([how : Hows, odd : BOOLEAN])]
  BY DEF Typed
<1>1. ASSUME UNCHANGED Booked, at' \in [Cards -> Stages],
             at[c] \in Roles => at'[c] \in Roles \/ (Silent(c) /\ ~agent[c].limited),
             \A d \in Cards \ {c} : at'[d] = at[d]
      PROVE  /\ UNCHANGED <<turns, day, tagged, agent, paid, due, today, unheard, happened>>
             /\ \A d \in Cards : at'[d] \notin Roles =>
                  agent'[d].pending = <<>> /\ agent'[d].finals = 0 /\ ~agent'[d].limited
  <2>1. UNCHANGED <<turns, day, tagged, agent, paid, due, today, unheard, happened>>
    BY <1>1 DEF Booked, money
  <2>2. ASSUME NEW d \in Cards, at'[d] \notin Roles
        PROVE  agent[d].pending = <<>> /\ agent[d].finals = 0 /\ ~agent[d].limited
    <3>1. CASE at[d] \notin Roles
      BY <3>1 DEF Typed
    <3>2. CASE at[d] \in Roles
      BY <1>1, <2>2, <3>2 DEF Silent
    <3> QED
      BY <3>1, <3>2
  <2> QED
    BY <2>1, <2>2
<1>2. CASE Start(c)
  <2>1. /\ Goes(c, "begun") /\ Writes(c, Plain(<<"lifecycle_started">>)) /\ at[c] = "idle"
        /\ UNCHANGED <<Booked, rounds, reuse, astray, ends>>
    BY <1>2 DEF Start, Clears, Booked, history, Running
  <2>2. Plain(<<"lifecycle_started">>) \in Seq(EventState)
    BY PlainIs, EventSeqs DEF Kinds, Whys
  <2>3. log' \in [Cards -> Seq(EventState)]
    BY <1>0, <2>1, <2>2, Wrote
  <2>4. "begun" \in Stages /\ at[c] \notin Roles
    BY <2>1 DEF Stages, Roles
  <2>5. at' \in [Cards -> Stages] /\ \A d \in Cards \ {c} : at'[d] = at[d]
    BY <1>0, <2>1, <2>4 DEF Goes
  <2> QED
    BY <1>1, <2>1, <2>3, <2>4, <2>5 DEF Typed
<1>3. CASE RefusedAtOnce(c)
  <2> DEFINE e == Event("run_refused", "at once")
  <2>1. /\ Writes(c, <<e>>) /\ at' = at /\ UNCHANGED <<Booked, rounds, reuse, astray>>
        /\ ends' = [ends EXCEPT ![c][Len(ends[c])].odd = TRUE] /\ ends[c] # <<>>
    BY <1>3 DEF RefusedAtOnce, Clears, Booked, control
  <2>2. <<e>> \in Seq(EventState)
    BY EventSeqs DEF Kinds, Whys
  <2> HIDE DEF e
  <2>3. log' \in [Cards -> Seq(EventState)]
    BY <1>0, <2>1, <2>2, Wrote
  <2>4. ends' \in [Cards -> Seq([how : Hows, odd : BOOLEAN])]
    <3> DEFINE T == [how : Hows, odd : BOOLEAN]
               s == ends[c]
               x == [s[Len(s)] EXCEPT !.odd = TRUE]
    <3>1. s \in Seq(T) /\ s # <<>>
      BY <1>0, <2>1
    <3> HIDE DEF s, T
    <3>2. Len(s) \in 1..Len(s) /\ s[Len(s)] \in T
      <4>1. Len(s) \in Nat \ {0}
        BY <3>1, EmptySeq
      <4>2. Len(s) \in 1..Len(s)
        BY <4>1
      <4> QED
        BY <3>1, <4>2, ElementOfSeq
    <3> USE DEF T
    <3>3. x \in T
      BY <3>2
    <3> HIDE DEF T
    <3>4. [s EXCEPT ![Len(s)] = x] \in Seq(T)
      <4> HIDE DEF x
      <4> QED
        BY <3>1, <3>2, <3>3, ExceptSeq
    <3>5. ends' = [ends EXCEPT ![c] = [s EXCEPT ![Len(s)] = x]]
      BY <2>1 DEF s
    <3> HIDE DEF x
    <3> QED
      BY <1>0, <3>4, <3>5 DEF T
  <2>5. /\ UNCHANGED <<turns, day, tagged, agent, paid, due, today, unheard, happened>>
        /\ \A d \in Cards : at'[d] \notin Roles =>
             agent'[d].pending = <<>> /\ agent'[d].finals = 0 /\ ~agent'[d].limited
    <3>1. at' \in [Cards -> Stages] /\ UNCHANGED Booked
      BY <1>0, <2>1
    <3>2. (at[c] \in Roles => at'[c] \in Roles) /\ \A d \in Cards \ {c} : at'[d] = at[d]
      BY <2>1
    <3> QED
      BY <1>1, <3>1, <3>2
  <2> QED
    BY <1>0, <2>1, <2>3, <2>4, <2>5 DEF Typed
<1>4. CASE GoesOn(c)
  <2>1. PICK to \in Stages, es \in Seq(EventState), off \in BOOLEAN :
          /\ Onward(c, to, es, off) /\ Goes(c, to) /\ Writes(c, es)
          /\ astray' = [astray EXCEPT ![c] = @ \/ off]
          /\ UNCHANGED <<Booked, ends>>
    BY <1>4 DEF GoesOn, Told, Booked
  <2>2. log' \in [Cards -> Seq(EventState)]
    BY <1>0, <2>1, Wrote
  <2>3. at' \in [Cards -> Stages] /\ at'[c] = to /\ \A d \in Cards \ {c} : at'[d] = at[d]
    BY <1>0, <2>1 DEF Goes
  <2>4. at[c] \in Roles => Silent(c) /\ ~agent[c].limited
    BY <2>1 DEF Onward, Roles
  <2>5. astray' \in [Cards -> BOOLEAN]
    BY <1>0, <2>1
  <2>6. rounds' \in [Cards -> 0..MaxFixRounds] /\ reuse' \in [Cards -> BOOLEAN]
    BY CountsTyped
  <2>7. /\ UNCHANGED <<turns, day, tagged, agent, paid, due, today, unheard, happened>>
        /\ \A d \in Cards : at'[d] \notin Roles =>
             agent'[d].pending = <<>> /\ agent'[d].finals = 0 /\ ~agent'[d].limited
    BY <1>1, <2>1, <2>3, <2>4
  <2> QED
    BY <1>0, <2>1, <2>2, <2>3, <2>5, <2>6, <2>7 DEF Typed
<1>5. CASE Ending(c)
  <2>1. PICK how \in Hows, odd \in BOOLEAN, es \in Seq(EventState) :
          /\ MayEnd(c) /\ EndsOddly(c, how, odd) /\ Writes(c, es) /\ UNCHANGED Booked
    BY <1>5 DEF Ending, Told, Booked
  <2>2. log' \in [Cards -> Seq(EventState)]
    BY <1>0, <2>1, Wrote
  <2>3. /\ at' \in [Cards -> Stages] /\ \A d \in Cards \ {c} : at'[d] = at[d]
        /\ rounds' \in [Cards -> 0..MaxFixRounds] /\ reuse' \in [Cards -> BOOLEAN]
        /\ astray' \in [Cards -> BOOLEAN]
        /\ ends' \in [Cards -> Seq([how : Hows, odd : BOOLEAN])]
    BY <2>1, EndNoted
  <2>4. at[c] \in Roles => Silent(c) /\ ~agent[c].limited
    BY <2>1 DEF MayEnd, Roles
  <2>5. /\ UNCHANGED <<turns, day, tagged, agent, paid, due, today, unheard, happened>>
        /\ \A d \in Cards : at'[d] \notin Roles =>
             agent'[d].pending = <<>> /\ agent'[d].finals = 0 /\ ~agent'[d].limited
    BY <1>1, <2>1, <2>3, <2>4
  <2> QED
    BY <2>1, <2>2, <2>3, <2>5 DEF Typed
<1> QED
  BY <1>2, <1>3, <1>4, <1>5, RunSteps

\* What a restart writes about a run it finds, or does not
Orphaned(found) == IF found THEN <<Event("run_orphaned", "none")>> ELSE <<>>

\* A restart leaves every card without a run, and marks the ends of those it finds.
LEMMA Restarted ==
  ASSUME Typed, Restart, NEW c \in Cards
  PROVE  \E found \in BOOLEAN :
           /\ found => Running(c) /\ at[c] # "begun"
           /\ at'[c] = "idle" /\ agent'[c] = NoAgent /\ rounds'[c] = 0 /\ ~reuse'[c] /\ ~astray'[c]
           /\ due'[c] = 0 /\ Orphaned(found) \in Seq(EventState)
           /\ log'[c] = log[c] \o Orphaned(found)
           /\ ends'[c] = IF Running(c) THEN Append(ends[c], [how |-> "CRASH", odd |-> ~found])
                         ELSE ends[c]
           /\ unheard' = (unheard \/ \E d \in Cards : at[d] \in Roles)
<1> DEFINE runs == {d \in Cards : Running(d)}
<1>0. PICK kept \in SUBSET {d \in Cards : at[d] = "opening"} :
        LET found == {d \in runs \ kept : at[d] # "begun"} IN
        /\ log' = [d \in Cards |-> IF d \in found THEN log[d] \o Plain(<<"run_orphaned">>)
                                   ELSE log[d]]
        /\ ends' = [d \in Cards |-> IF d \in runs
              THEN Append(ends[d], [how |-> "CRASH", odd |-> d \notin found]) ELSE ends[d]]
        /\ unheard' = (unheard \/ \E d \in runs : at[d] \in Roles)
  BY DEF Restart
<1> DEFINE found == {d \in runs \ kept : at[d] # "begun"}
           m == c \in found
<1>1. Orphaned(TRUE) \in Seq(EventState) /\ Orphaned(FALSE) \in Seq(EventState)
  BY EventSeqs DEF Orphaned, Kinds, Whys
<1>2. log'[c] = IF m THEN log[c] \o <<Event("run_orphaned", "none")>> ELSE log[c]
  BY <1>0, PlainIs
<1>3. log[c] \o <<>> = log[c]
  BY DEF Typed
<1>4. log'[c] = log[c] \o Orphaned(m)
  BY <1>2, <1>3 DEF Orphaned
<1>5. at'[c] = "idle" /\ agent'[c] = NoAgent /\ rounds'[c] = 0 /\ due'[c] = 0
  BY DEF Restart
<1>6. reuse'[c] = FALSE /\ astray'[c] = FALSE
  BY Zenon DEF Restart
<1>7. (c \in runs <=> Running(c)) /\ (m => Running(c) /\ at[c] # "begun") /\ m \in BOOLEAN
  OBVIOUS
<1>8. ends'[c] = IF c \in runs THEN Append(ends[c], [how |-> "CRASH", odd |-> ~m]) ELSE ends[c]
  BY <1>0
<1>9. unheard' = (unheard \/ \E d \in Cards : at[d] \in Roles)
  <2>1. unheard' = (unheard \/ \E d \in runs : at[d] \in Roles)
    BY <1>0
  <2>2. (\E d \in runs : at[d] \in Roles) = (\E d \in Cards : at[d] \in Roles)
    BY DEF Running, Roles
  <2> QED
    BY <2>1, <2>2
<1> HIDE DEF found, runs
<1>10. ends'[c] = IF Running(c) THEN Append(ends[c], [how |-> "CRASH", odd |-> ~m]) ELSE ends[c]
  BY <1>7, <1>8
<1>11. Orphaned(m) \in Seq(EventState)
  BY <1>1, <1>7
<1> HIDE DEF m
<1> QED
  BY <1>4, <1>5, <1>6, <1>7, <1>9, <1>10, <1>11

\* The types are kept by the board's own steps.
LEMMA TypedBoard ==
  ASSUME Typed, SpendConstants, Turn \/ Midnight \/ Restart
  PROVE  Typed'
<1>0. /\ Prices \subseteq Price /\ MaxHappens \in Nat /\ happened \in 0..MaxHappens /\ 0 \in Price
      /\ today \in Price /\ day \in Nat /\ unheard \in BOOLEAN
      /\ MaxFixRounds \in Nat
  BY DEF SpendConstants, Price, Typed
<1>1. ASSUME Happens
      PROVE  happened' \in 0..MaxHappens
  BY <1>0, <1>1 DEF Happens
<1>2. CASE Turn
  <2>1. PICK cost \in Prices :
          /\ Happens /\ turns' = Append(turns, [cost |-> cost, day |-> day])
          /\ today' = Plus(today, cost)
          /\ UNCHANGED <<log, day, tagged, agent, control, history, paid, due, unheard>>
    BY <1>2 DEF Turn
  <2>2. today' \in Price /\ cost \in Price
    BY <1>0, <2>1, PlusIs
  <2>3. turns' \in Seq([cost : Price, day : Nat])
    <3>1. [cost |-> cost, day |-> day] \in [cost : Price, day : Nat]
      BY <1>0, <2>2
    <3> QED
      BY <2>1, <3>1, AppendProperties DEF Typed
  <2> QED
    BY <1>1, <2>1, <2>2, <2>3 DEF Typed, control, history
<1>3. CASE Midnight
  <2>1. /\ Happens /\ day' = day + 1 /\ today' = 0
        /\ UNCHANGED <<log, turns, tagged, agent, control, history, paid, due, unheard>>
    BY <1>3 DEF Midnight
  <2>2. day' \in Nat
    BY <1>0, <2>1
  <2> QED
    BY <1>0, <1>1, <2>1, <2>2 DEF Typed, control, history
<1>4. CASE Restart
  <2>0. /\ log \in [Cards -> Seq(EventState)]
        /\ ends \in [Cards -> Seq([how : Hows, odd : BOOLEAN])]
    BY DEF Typed
  <2>1. Happens /\ tagged' = TRUE /\ UNCHANGED <<turns, day, paid, today>>
    BY <1>4 DEF Restart
  <2>2. /\ DOMAIN log' = Cards /\ log' = [c \in Cards |-> log'[c]]
        /\ DOMAIN ends' = Cards /\ ends' = [c \in Cards |-> ends'[c]]
    BY <1>4 DEF Restart
  <2>3. ASSUME NEW c \in Cards
        PROVE  log'[c] \in Seq(EventState)
    <3>1. PICK es \in Seq(EventState) : log'[c] = log[c] \o es
      BY <1>4, Restarted
    <3> QED
      BY <2>0, <3>1
  <2>4. ASSUME NEW c \in Cards
        PROVE  ends'[c] \in Seq([how : Hows, odd : BOOLEAN])
    <3>0. PICK found \in BOOLEAN :
            ends'[c] = IF Running(c) THEN Append(ends[c], [how |-> "CRASH", odd |-> ~found])
                       ELSE ends[c]
      BY <1>4, Restarted
    <3> DEFINE x == [how |-> "CRASH", odd |-> ~found]
    <3>1. ends'[c] = IF Running(c) THEN Append(ends[c], x) ELSE ends[c]
      BY <3>0
    <3>2. x \in [how : Hows, odd : BOOLEAN]
      BY DEF Hows, Fault
    <3> DEFINE T == [how : Hows, odd : BOOLEAN]
    <3>3. ends[c] \in Seq(T) /\ x \in T
      BY <2>0, <3>2
    <3> HIDE DEF x, T
    <3>4. ends'[c] \in Seq(T)
      BY <3>1, <3>3
    <3> QED
      BY <3>4 DEF T
  <2>5. log' \in [Cards -> Seq(EventState)]
    BY <2>2, <2>3
  <2>6. ends' \in [Cards -> Seq([how : Hows, odd : BOOLEAN])]
    BY <2>2, <2>4
  <2>7. at' \in [Cards -> Stages]
    BY <1>4 DEF Restart, Stages
  <2>8. agent' \in [Cards -> AgentState]
    <3>1. NoAgent \in AgentState
      BY EmptySeq DEF NoAgent, AgentState
    <3> QED
      BY <1>4, <3>1 DEF Restart
  <2>9. rounds' \in [Cards -> 0..MaxFixRounds] /\ due' \in [Cards -> Price]
    BY <1>0, <1>4 DEF Restart
  <2>10. reuse' \in [Cards -> BOOLEAN] /\ astray' \in [Cards -> BOOLEAN]
    BY <1>4 DEF Restart
  <2>11. unheard' \in BOOLEAN
    BY <1>0, <1>4 DEF Restart
  <2>12. \A c \in Cards : agent'[c].pending = <<>> /\ agent'[c].finals = 0 /\ ~agent'[c].limited
    <3>1. NoAgent.pending = <<>> /\ NoAgent.finals = 0
      BY DEF NoAgent
    <3>2. ~NoAgent.limited
      BY DEF NoAgent
    <3>3. \A c \in Cards : agent'[c] = NoAgent
      BY <1>4, Restarted
    <3> QED
      BY <3>1, <3>2, <3>3
  <2> QED
    BY <1>1, <2>1, <2>5, <2>6, <2>7, <2>8, <2>9, <2>10, <2>11, <2>12 DEF Typed
<1> QED
  BY <1>2, <1>3, <1>4

\* The types hold at first
LEMMA TypedInit ==
  ASSUME Init, SpendConstants
  PROVE  Typed
<1>1. NoAgent \in AgentState /\ NoAgent.pending = <<>> /\ NoAgent.finals = 0
  BY EmptySeq DEF NoAgent, AgentState
<1>2. ~NoAgent.limited
  BY DEF NoAgent
<1>3. /\ MaxFixRounds \in Nat /\ MaxHappens \in Nat /\ Tagged \subseteq BOOLEAN
  BY DEF SpendConstants
<1>4. log \in [Cards -> Seq(EventState)] /\ turns \in Seq([cost : Price, day : Nat])
  BY EmptySeq DEF Init
<1>5. ends \in [Cards -> Seq([how : Hows, odd : BOOLEAN])]
  BY EmptySeq DEF Init
<1>6. /\ day \in Nat /\ tagged \in BOOLEAN
      /\ at \in [Cards -> Stages] /\ agent \in [Cards -> AgentState]
  BY <1>1, <1>3 DEF Init, Stages
<1>7. rounds \in [Cards -> 0..MaxFixRounds] /\ due \in [Cards -> Price] /\ today \in Price
  BY <1>3 DEF Init, Price
<1>8. paid \in [Cards -> [Roles -> Price]]
  BY DEF Init, Price
<1>9. reuse \in [Cards -> BOOLEAN] /\ astray \in [Cards -> BOOLEAN] /\ unheard \in BOOLEAN
  BY DEF Init
<1>10. happened \in 0..MaxHappens
  BY <1>3 DEF Init
<1>11. \A c \in Cards : agent[c].pending = <<>> /\ agent[c].finals = 0 /\ ~agent[c].limited
  BY <1>1, <1>2 DEF Init
<1> QED
  BY <1>4, <1>5, <1>6, <1>7, <1>8, <1>9, <1>10, <1>11 DEF Typed

\* Everything but who was let start
Asking == <<log, turns, day, tagged, agent, control, history, money, happened>>

\* A step that only asks, or stutters, changes nothing else.
LEMMA NextIs ==
  ASSUME [Next]_vars
  PROVE  \/ UNCHANGED Asking
         \/ \E c \in Cards : AgentNext(c) \/ RunNext(c)
         \/ Turn \/ Midnight \/ Restart
<1>1. CASE UNCHANGED vars
  BY <1>1 DEF vars, Asking
<1>2. ASSUME NEW c \in Cards, Ask(c)
      PROVE  UNCHANGED Asking
  BY <1>2 DEF Ask, Asking
<1> QED
  BY <1>1, <1>2 DEF Next

\* A card is let start by Ask, and in no other way.
LEMMA OnlyAsk ==
  ASSUME [Next]_vars
  PROVE  (\E c \in Cards : Ask(c)) \/ cleared' \subseteq cleared
<1>1. CASE UNCHANGED vars \/ Turn \/ Midnight \/ Restart
  BY <1>1 DEF vars, Turn, Midnight, Restart
<1>2. ASSUME NEW c \in Cards, AgentNext(c)
      PROVE  cleared' \subseteq cleared
  <2>1. CASE Uses(c) \/ Reports(c) \/ Limited(c)
    BY <2>1 DEF Uses, Reports, Limited, Line
  <2>2. CASE Finishes(c) \/ Stalls(c) \/ Dies(c) \/ Capped(c)
    BY <2>2 DEF Finishes, Stalls, Dies, Capped, Exit
  <2> QED
    BY <1>2, <2>1, <2>2 DEF AgentNext
<1>3. ASSUME NEW c \in Cards, RunNext(c)
      PROVE  cleared' \subseteq cleared
  <2>1. CASE Start(c) \/ RefusedAtOnce(c)
    BY <2>1 DEF Start, RefusedAtOnce, Clears
  <2>2. CASE Prepare(c) \/ Worked(c) \/ Test(c) \/ Verdict(c)
    BY <2>2 DEF Prepare, Worked, Test, Verdict, Told
  <2>3. CASE NoReviewer(c) \/ Open(c) \/ Raises(c)
    BY <2>3 DEF NoReviewer, Open, Raises, Told
  <2> QED
    BY <1>3, <2>1, <2>2, <2>3 DEF RunNext
<1> QED
  BY <1>1, <1>2, <1>3 DEF Next

\* The log, the runs and the money of every reachable state have their types: TypeOK, and more.
THEOREM TypesHold == Spec => []TypeOK
<1>1. Init => Typed /\ cleared \subseteq Cards
  BY SpendConstants, TypedInit DEF Init
<1>2. (Typed /\ cleared \subseteq Cards) /\ [Next]_vars => (Typed /\ cleared \subseteq Cards)'
  <2> SUFFICES ASSUME Typed, cleared \subseteq Cards, [Next]_vars
               PROVE  Typed' /\ cleared' \subseteq Cards
    OBVIOUS
  <2>0. cleared' \subseteq Cards
    BY OnlyAsk DEF Ask
  <2>1. ASSUME UNCHANGED Asking
        PROVE  Typed'
    BY <2>1 DEF Asking, Typed, control, history, money
  <2>2. ASSUME NEW c \in Cards, AgentNext(c) \/ RunNext(c)
        PROVE  Typed'
    BY <2>2, SpendConstants, TypedAgent, TypedRun
  <2>3. ASSUME Turn \/ Midnight \/ Restart
        PROVE  Typed'
    BY <2>3, SpendConstants, TypedBoard
  <2> QED
    BY <2>0, <2>1, <2>2, <2>3, NextIs
<1>3. Typed /\ cleared \subseteq Cards => TypeOK
  <2> SUFFICES ASSUME Typed, cleared \subseteq Cards
               PROVE  TypeOK
    OBVIOUS
  <2>1. ASSUME NEW c \in Cards
        PROVE  /\ \A i \in DOMAIN log[c] : log[c][i].cost \in Price /\ log[c][i].used \in Price
               /\ at[c] \in {"idle", "begun", "worker", "worked", "tests", "reviewer", "reviewed",
                             "opening"}
               /\ rounds[c] \in 0..MaxFixRounds /\ reuse[c] \in BOOLEAN /\ due[c] \in Price
               /\ \A r \in Roles : paid[c][r] \in Price
    <3>1. log[c] \in Seq(EventState) /\ paid[c] \in [Roles -> Price]
      BY DEF Typed
    <3>2. \A i \in DOMAIN log[c] : log[c][i] \in EventState
      BY <3>1
    <3>3. \A i \in DOMAIN log[c] : log[c][i].cost \in Price /\ log[c][i].used \in Price
      BY <3>2 DEF EventState
    <3> QED
      BY <3>1, <3>3 DEF Typed, Stages
  <2>2. ASSUME NEW c \in Cards, at[c] \notin Roles
        PROVE  agent[c] = [NoAgent EXCEPT !.why = agent[c].why]
    <3> DEFINE a == agent[c]
               b == [NoAgent EXCEPT !.why = a.why]
    <3>1. a \in AgentState /\ a.pending = <<>> /\ a.finals = 0 /\ ~a.limited
      BY <2>2 DEF Typed
    <3>2. a.limited = FALSE
      BY <3>1 DEF AgentState
    <3>3. b.pending = <<>> /\ b.finals = 0 /\ b.why = a.why
      BY DEF NoAgent
    <3>4. b.limited = FALSE
      BY DEF NoAgent
    <3>5. b \in AgentState
      <4>1. NoAgent \in AgentState
        BY EmptySeq DEF NoAgent, AgentState
      <4>2. a.why \in Fault \cup {"none"}
        BY <3>1 DEF AgentState
      <4> HIDE DEF a
      <4> QED
        BY <4>1, <4>2 DEF AgentState
    <3> HIDE DEF a, b
    <3>6. a = b
      BY <3>1, <3>2, <3>3, <3>4, <3>5 DEF AgentState
    <3> QED
      BY <3>6 DEF a, b
  <2>3. /\ today \in Price /\ day \in Nat /\ happened \in 0..MaxHappens
        /\ tagged \in BOOLEAN /\ unheard \in BOOLEAN
    BY DEF Typed
  <2> QED
    BY <2>1, <2>2, <2>3 DEF TypeOK
<1> QED
  BY <1>1, <1>2, <1>3, PTL DEF Spec

-----------------------------------------------------------------------------
(* what is written costs *)

\* The index sets of a log are finite, and what its events cost are costs.
LEMMA IndicesAre ==
  ASSUME log \in [Cards -> Seq(EventState)], NEW c \in Cards
  PROVE  /\ Len(log[c]) \in Nat /\ DOMAIN log[c] = 1..Len(log[c]) /\ IsFiniteSet(DOMAIN log[c])
         /\ \A i \in DOMAIN log[c] : log[c][i] \in EventState /\ log[c][i].kind \in Kinds
                                     /\ log[c][i].cost \in Price /\ log[c][i].used \in Price
         /\ \A I \in SUBSET DOMAIN log[c] :
              /\ IsFiniteSet(I) /\ EventCost(c, I) \in [I -> Price]
              /\ [i \in I |-> log[c][i].used] \in [I -> Price]
<1>1. log[c] \in Seq(EventState)
  OBVIOUS
<1>2. Len(log[c]) \in Nat /\ DOMAIN log[c] = 1..Len(log[c])
  BY <1>1
<1>3. IsFiniteSet(DOMAIN log[c])
  BY <1>2, FS_Interval
<1>4. \A i \in DOMAIN log[c] : log[c][i] \in EventState
  BY <1>1
<1>5. \A i \in DOMAIN log[c] : /\ log[c][i].kind \in Kinds
                               /\ log[c][i].cost \in Price /\ log[c][i].used \in Price
  BY <1>4 DEF EventState
<1>6. ASSUME NEW I \in SUBSET DOMAIN log[c]
      PROVE  /\ IsFiniteSet(I) /\ EventCost(c, I) \in [I -> Price]
             /\ [i \in I |-> log[c][i].used] \in [I -> Price]
  BY <1>3, <1>5, FS_Subset DEF EventCost
<1> QED
  BY <1>2, <1>3, <1>4, <1>5, <1>6

\* All sums that are read are costs.
LEMMA SumsAre ==
  ASSUME Typed, SpendConstants
  PROVE  /\ \A c \in Cards : CardSpend(c) \in Price /\ UsageCost(c) \in Price
         /\ \A c \in Cards : \A x : CardSpentOn(c, x) \in Price
         /\ \A x : TurnsOn(x) \in Price /\ SpentOn(x) \in Price
<1>0. log \in [Cards -> Seq(EventState)] /\ turns \in Seq([cost : Price, day : Nat])
  BY DEF Typed
<1>1. ASSUME NEW c \in Cards, NEW x
      PROVE  CardSpend(c) \in Price /\ UsageCost(c) \in Price /\ CardSpentOn(c, x) \in Price
  <2>1. /\ Results(c) \in SUBSET DOMAIN log[c]
        /\ Kind(c, DOMAIN log[c], {"usage", "result"}) \in SUBSET DOMAIN log[c]
        /\ {i \in Results(c) : log[c][i].day = x} \in SUBSET DOMAIN log[c]
    BY DEF Results, Kind
  <2> DEFINE A == Results(c)
             B == Kind(c, DOMAIN log[c], {"usage", "result"})
             C == {i \in Results(c) : log[c][i].day = x}
  <2>2. /\ IsFiniteSet(A) /\ EventCost(c, A) \in [A -> Price]
        /\ IsFiniteSet(B) /\ [i \in B |-> log[c][i].used] \in [B -> Price]
        /\ IsFiniteSet(C) /\ EventCost(c, C) \in [C -> Price]
    BY <1>0, <2>1, IndicesAre
  <2> HIDE DEF A, B, C
  <2>3. /\ CostSum(EventCost(c, A)) \in Price /\ CostSum(EventCost(c, C)) \in Price
        /\ CostSum([i \in B |-> log[c][i].used]) \in Price
    BY <2>2, CostAdds
  <2> QED
    BY <2>3 DEF CardSpend, UsageCost, CardSpentOn, A, B, C
<1>2. ASSUME NEW x
      PROVE  TurnsOn(x) \in Price
  <2> DEFINE S == {t \in DOMAIN turns : turns[t].day = x}
  <2>1. Len(turns) \in Nat /\ DOMAIN turns = 1..Len(turns)
    BY <1>0
  <2>2. IsFiniteSet(S)
    <3>1. IsFiniteSet(1..Len(turns)) /\ S \subseteq 1..Len(turns)
      BY <2>1, FS_Interval
    <3> QED
      BY <3>1, FS_Subset
  <2>3. \A t \in DOMAIN turns : turns[t] \in [cost : Price, day : Nat]
    <3> DEFINE R == [cost : Price, day : Nat]
    <3>1. turns \in Seq(R)
      BY <1>0
    <3> HIDE DEF R
    <3>2. \A t \in DOMAIN turns : turns[t] \in R
      BY <3>1
    <3> QED
      BY <3>2 DEF R
  <2>4. [t \in S |-> turns[t].cost] \in [S -> Price]
    BY <2>3
  <2> HIDE DEF S
  <2>5. CostSum([t \in S |-> turns[t].cost]) \in Price
    BY <2>2, <2>4, CostAdds
  <2> QED
    BY <2>5 DEF TurnsOn, S
<1>3. ASSUME NEW x
      PROVE  SpentOn(x) \in Price
  <2>1. IsFiniteSet(Cards)
    BY DEF SpendConstants
  <2>2. [c \in Cards |-> CardSpentOn(c, x)] \in [Cards -> Price]
    BY <1>1
  <2>3. CostSum([c \in Cards |-> CardSpentOn(c, x)]) \in Price
    BY <2>1, <2>2, CostAdds
  <2>4. TurnsOn(x) \in Price
    BY <1>2
  <2> QED
    BY <2>3, <2>4, PlusIs DEF SpentOn
<1> QED
  BY <1>1, <1>2, <1>3

\* The same costs, and one more
LEMMA CostOfMore ==
  ASSUME NEW S, IsFiniteSet(S), NEW T, NEW f \in [S -> Price], NEW g \in [T -> Price],
         S \subseteq T, \A i \in S : g[i] = f[i]
  PROVE  /\ T = S => CostSum(g) = CostSum(f)
         /\ \A n : n \notin S /\ T = S \cup {n} => CostSum(g) = Plus(CostSum(f), g[n])
<1>1. ASSUME T = S
      PROVE  CostSum(g) = CostSum(f)
  <2>1. g = f
    BY <1>1
  <2> QED
    BY <2>1
<1>2. ASSUME NEW n, n \notin S, T = S \cup {n}
      PROVE  CostSum(g) = Plus(CostSum(f), g[n])
  <2>1. g[n] \in Price /\ g \in [S \cup {n} -> Price]
    BY <1>2
  <2> QED
    BY <1>2, <2>1, CostMore
<1> QED
  BY <1>1, <1>2

\* Events that cost nothing
Quiet(es) == \A k \in 1..Len(es) : es[k].kind \notin {"result", "usage"} /\ es[k].day = 0

\* The other cards' sums stay as they are.
LEMMA OthersSpend ==
  ASSUME Typed, NEW d \in Cards, log'[d] = log[d]
  PROVE  /\ CardSpend(d)' = CardSpend(d) /\ UsageCost(d)' = UsageCost(d)
         /\ \A x : CardSpentOn(d, x)' = CardSpentOn(d, x)
BY DEF CardSpend, UsageCost, CardSpentOn, EventCost, Results, Kind

\* What costs nothing changes no sum.
LEMMA QuietCard ==
  ASSUME Typed, NEW c \in Cards, NEW es \in Seq(EventState), log'[c] = log[c] \o es, Quiet(es)
  PROVE  /\ CardSpend(c)' = CardSpend(c) /\ UsageCost(c)' = UsageCost(c)
         /\ \A x : CardSpentOn(c, x)' = CardSpentOn(c, x)
         /\ \A i \in DOMAIN log'[c] : \/ i \in DOMAIN log[c] /\ log'[c][i] = log[c][i]
                                     \/ log'[c][i].day = 0
<1>0. log \in [Cards -> Seq(EventState)] /\ log[c] \in Seq(EventState)
  BY DEF Typed
<1>1. /\ \A i \in DOMAIN log[c] : i \in DOMAIN log'[c] /\ log'[c][i] = log[c][i]
      /\ \A i \in DOMAIN log'[c] \ DOMAIN log[c] :
           i - Len(log[c]) \in 1..Len(es) /\ log'[c][i] = es[i - Len(log[c])]
  BY <1>0, Longer
<1>2. \A i \in DOMAIN log'[c] \ DOMAIN log[c] : log'[c][i].kind \notin {"result", "usage"}
  BY <1>1 DEF Quiet
<1>3. Results(c)' = Results(c) /\ Kind(c, DOMAIN log[c], {"usage", "result"})' =
        Kind(c, DOMAIN log[c], {"usage", "result"})
  BY <1>1, <1>2 DEF Results, Kind
<1>4. CardSpend(c)' = CardSpend(c)
  <2>1. EventCost(c, Results(c))' = EventCost(c, Results(c))
    BY <1>1, <1>3 DEF EventCost, Results
  <2> QED
    BY <2>1 DEF CardSpend
<1>5. UsageCost(c)' = UsageCost(c)
  <2> DEFINE U == Kind(c, DOMAIN log[c], {"usage", "result"})
  <2>1. U \subseteq DOMAIN log[c]
    BY DEF Kind
  <2> HIDE DEF U
  <2>2. [i \in U |-> log'[c][i].used] = [i \in U |-> log[c][i].used]
    BY <1>1, <2>1
  <2> QED
    BY <1>3, <2>2 DEF UsageCost, U
<1>6. ASSUME NEW x
      PROVE  CardSpentOn(c, x)' = CardSpentOn(c, x)
  <2> DEFINE U == {i \in Results(c) : log[c][i].day = x}
  <2>1. U \subseteq DOMAIN log[c] /\ {i \in Results(c)' : log'[c][i].day = x} = U
    BY <1>1, <1>3 DEF Results
  <2> HIDE DEF U
  <2>2. [i \in U |-> log'[c][i].cost] = [i \in U |-> log[c][i].cost]
    BY <1>1, <2>1
  <2> QED
    BY <2>1, <2>2 DEF CardSpentOn, EventCost, U
<1>7. ASSUME NEW i \in DOMAIN log'[c], i \notin DOMAIN log[c]
      PROVE  log'[c][i].day = 0
  BY <1>1, <1>7 DEF Quiet
<1> QED
  BY <1>1, <1>4, <1>5, <1>6, <1>7

\* Nor does it change what any other card costs.
LEMMA QuietIsFree ==
  ASSUME Typed, NEW c \in Cards, NEW es \in Seq(EventState), Writes(c, es), Quiet(es)
  PROVE  \A d \in Cards : /\ CardSpend(d)' = CardSpend(d) /\ UsageCost(d)' = UsageCost(d)
                          /\ \A x : CardSpentOn(d, x)' = CardSpentOn(d, x)
<1>1. log \in [Cards -> Seq(EventState)]
  BY DEF Typed
<1>2. log'[c] = log[c] \o es /\ \A d \in Cards \ {c} : log'[d] = log[d]
  BY <1>1, Wrote
<1> QED
  BY <1>2, QuietCard, OthersSpend

\* A result costs what it says, on its day; and it and a line of usage cost what they use.
LEMMA LineCosts ==
  ASSUME Typed, NEW c \in Cards, NEW e \in EventState, Writes(c, <<e>>),
         e.kind \in {"result", "usage"}
  PROVE  /\ CardSpend(c)' = IF e.kind = "result" THEN Plus(CardSpend(c), e.cost)
                            ELSE CardSpend(c)
         /\ UsageCost(c)' = Plus(UsageCost(c), e.used)
         /\ \A x : CardSpentOn(c, x)' = IF e.kind = "result" /\ e.day = x
                                        THEN Plus(CardSpentOn(c, x), e.cost)
                                        ELSE CardSpentOn(c, x)
         /\ \A d \in Cards \ {c} : /\ CardSpend(d)' = CardSpend(d)
                                   /\ UsageCost(d)' = UsageCost(d)
                                   /\ \A x : CardSpentOn(d, x)' = CardSpentOn(d, x)
<1> DEFINE n == Len(log[c]) + 1
           D == DOMAIN log[c]
           S == Results(c)
           T == Results(c)'
           U == Kind(c, D, {"usage", "result"})
           V == Kind(c, D, {"usage", "result"})'
           On(x) == {i \in S : log[c][i].day = x}
           OnNext(x) == {i \in T : log'[c][i].day = x}
<1>0. log \in [Cards -> Seq(EventState)] /\ <<e>> \in Seq(EventState) /\ Len(<<e>>) = 1
      /\ <<e>>[1] = e
  BY DEF Typed
<1>1. /\ \A d \in Cards \ {c} : log'[d] = log[d]
      /\ \A i \in D : log'[c][i] = log[c][i]
      /\ DOMAIN log'[c] = D \cup {n} /\ log'[c][n] = e /\ n \notin D
      /\ log' \in [Cards -> Seq(EventState)]
  <2> DEFINE es == <<e>>
  <2>1. es \in Seq(EventState) /\ Len(es) = 1 /\ es[1] = e /\ Writes(c, es)
    BY <1>0
  <2> HIDE DEF es
  <2>2. /\ \A d \in Cards \ {c} : log'[d] = log[d]
        /\ \A i \in D : log'[c][i] = log[c][i]
        /\ Len(log[c]) \in Nat /\ D = 1..Len(log[c])
        /\ DOMAIN log'[c] = 1..(Len(log[c]) + Len(es))
        /\ \A k \in 1..Len(es) : log'[c][Len(log[c]) + k] = es[k]
        /\ log' \in [Cards -> Seq(EventState)]
    BY <1>0, <2>1, Wrote
  <2>3. DOMAIN log'[c] = D \cup {n} /\ n \notin D
    BY <2>1, <2>2
  <2>4. log'[c][n] = e
    BY <2>1, <2>2
  <2> QED
    BY <2>2, <2>3, <2>4
<1>2. /\ S \in SUBSET D /\ U \in SUBSET D /\ T \in SUBSET DOMAIN log'[c]
      /\ V \in SUBSET DOMAIN log'[c]
      /\ T = (IF e.kind = "result" THEN S \cup {n} ELSE S) /\ V = U \cup {n}
      /\ n \notin S /\ n \notin U
  BY <1>1 DEF Results, Kind
<1>3. /\ IsFiniteSet(S) /\ EventCost(c, S) \in [S -> Price]
      /\ IsFiniteSet(U) /\ [i \in U |-> log[c][i].used] \in [U -> Price]
      /\ \A x : IsFiniteSet(On(x)) /\ EventCost(c, On(x)) \in [On(x) -> Price]
  BY <1>0, <1>2, IndicesAre
<1>4. /\ e.cost \in Price /\ e.used \in Price
      /\ \A i \in DOMAIN log'[c] : log'[c][i].cost \in Price /\ log'[c][i].used \in Price
  <2>1. \A i \in DOMAIN log'[c] : log'[c][i] \in EventState
    BY <1>1
  <2> QED
    BY <2>1 DEF EventState
<1>5. /\ [i \in T |-> log'[c][i].cost] \in [T -> Price]
      /\ [i \in V |-> log'[c][i].used] \in [V -> Price]
      /\ \A x : [i \in OnNext(x) |-> log'[c][i].cost] \in [OnNext(x) -> Price]
  BY <1>2, <1>4
<1>6. \A x : OnNext(x) = (IF e.kind = "result" /\ e.day = x THEN On(x) \cup {n} ELSE On(x))
  BY <1>1, <1>2
<1>7. CardSpend(c)' = IF e.kind = "result" THEN Plus(CardSpend(c), e.cost) ELSE CardSpend(c)
  <2> DEFINE f == EventCost(c, S)
             g == [i \in T |-> log'[c][i].cost]
  <2>1. \A i \in S : g[i] = f[i]
    BY <1>1, <1>2 DEF EventCost
  <2>2. n \in T => g[n] = e.cost
    BY <1>1
  <2>3. CardSpend(c)' = CostSum(g) /\ CardSpend(c) = CostSum(f)
    BY DEF CardSpend, EventCost
  <2> HIDE DEF f, g, S, T, n
  <2>4. f \in [S -> Price] /\ g \in [T -> Price] /\ S \subseteq T
    BY <1>2, <1>3, <1>5 DEF f, g
  <2>5. /\ T = S => CostSum(g) = CostSum(f)
        /\ T = S \cup {n} /\ n \notin S => CostSum(g) = Plus(CostSum(f), g[n])
    BY <1>3, <2>1, <2>4, CostOfMore
  <2> QED
    BY <1>2, <2>2, <2>3, <2>5
<1>8. UsageCost(c)' = Plus(UsageCost(c), e.used)
  <2> DEFINE f == [i \in U |-> log[c][i].used]
             g == [i \in V |-> log'[c][i].used]
  <2>1. \A i \in U : g[i] = f[i]
    BY <1>1, <1>2
  <2>2. n \in V /\ g[n] = e.used
    BY <1>1, <1>2
  <2>3. UsageCost(c)' = CostSum(g) /\ UsageCost(c) = CostSum(f)
    BY DEF UsageCost
  <2> HIDE DEF f, g, U, V, n
  <2>4. f \in [U -> Price] /\ g \in [V -> Price] /\ U \subseteq V
    BY <1>2, <1>3, <1>5 DEF f, g
  <2>5. CostSum(g) = Plus(CostSum(f), g[n])
    <3>1. IsFiniteSet(U) /\ n \notin U /\ V = U \cup {n}
      BY <1>2, <1>3
    <3> HIDE DEF D, On, OnNext
    <3> QED
      BY <2>1, <2>4, <3>1, CostOfMore
  <2> QED
    BY <2>2, <2>3, <2>5
<1>9. ASSUME NEW x
      PROVE  CardSpentOn(c, x)' = IF e.kind = "result" /\ e.day = x
                                  THEN Plus(CardSpentOn(c, x), e.cost) ELSE CardSpentOn(c, x)
  <2> DEFINE A == On(x)
             B == OnNext(x)
             f == EventCost(c, A)
             g == [i \in B |-> log'[c][i].cost]
  <2>0. /\ A \in SUBSET D /\ n \notin A /\ IsFiniteSet(A)
        /\ B = (IF e.kind = "result" /\ e.day = x THEN A \cup {n} ELSE A)
    BY <1>2, <1>3, <1>6
  <2>1. \A i \in A : g[i] = f[i]
    BY <1>1, <2>0 DEF EventCost
  <2>2. n \in B => g[n] = e.cost
    BY <1>1
  <2>3. CardSpentOn(c, x)' = CostSum(g) /\ CardSpentOn(c, x) = CostSum(f)
    BY DEF CardSpentOn, EventCost
  <2>4. f \in [A -> Price] /\ g \in [B -> Price]
    BY <1>3, <1>5
  <2> HIDE DEF f, g, A, B, n
  <2>5. /\ B = A => CostSum(g) = CostSum(f)
        /\ B = A \cup {n} => CostSum(g) = Plus(CostSum(f), g[n])
    BY <2>0, <2>1, <2>4, CostOfMore
  <2> QED
    BY <2>0, <2>2, <2>3, <2>5
<1> QED
  BY <1>1, <1>7, <1>8, <1>9, OthersSpend

\* Events of a run cost nothing.
LEMMA QuietOnes ==
  /\ Quiet(<<>>)
  /\ \A kind \in Kinds \ {"result", "usage"} : \A why : Quiet(<<Event(kind, why)>>)
  /\ \A kind, next \in Kinds \ {"result", "usage"} : \A why, reason :
       Quiet(<<Event(kind, why), Event(next, reason)>>)
<1>1. Quiet(<<>>)
  BY DEF Quiet
<1>2. \A kind, why : Event(kind, why).kind = kind /\ Event(kind, why).day = 0
  BY DEF Event
<1>3. ASSUME NEW kind \in Kinds \ {"result", "usage"}, NEW why
      PROVE  Quiet(<<Event(kind, why)>>)
  <2> DEFINE e == Event(kind, why)
  <2>1. e.kind \notin {"result", "usage"} /\ e.day = 0
    BY <1>2
  <2> HIDE DEF e
  <2>2. Quiet(<<e>>)
    BY <2>1 DEF Quiet
  <2> QED
    BY <2>2 DEF e
<1>4. ASSUME NEW kind \in Kinds \ {"result", "usage"}, NEW why,
             NEW next \in Kinds \ {"result", "usage"}, NEW reason
      PROVE  Quiet(<<Event(kind, why), Event(next, reason)>>)
  <2> DEFINE e == Event(kind, why)
             f == Event(next, reason)
  <2>1. /\ e.kind \notin {"result", "usage"} /\ e.day = 0
        /\ f.kind \notin {"result", "usage"} /\ f.day = 0
    BY <1>2
  <2> HIDE DEF e, f
  <2>2. Quiet(<<e, f>>)
    BY <2>1 DEF Quiet
  <2> QED
    BY <2>2 DEF e, f
<1> QED
  BY <1>1, <1>3, <1>4

\* A run writes events that cost nothing, whether it goes on or ends.
LEMMA OnwardQuiet ==
  ASSUME NEW c, NEW to, NEW es, NEW off, Onward(c, to, es, off)
  PROVE  Quiet(es)
<1>1. /\ "worker_skipped" \in Kinds \ {"result", "usage"}
      /\ "worker_summary" \in Kinds \ {"result", "usage"}
      /\ "test_gate" \in Kinds \ {"result", "usage"}
      /\ "review_gate" \in Kinds \ {"result", "usage"}
      /\ "review_reused" \in Kinds \ {"result", "usage"}
      /\ "fix_round" \in Kinds \ {"result", "usage"}
  BY DEF Kinds
<1>2. \/ es = <<>>
      \/ es = <<Event("worker_skipped", "none")>>
      \/ es = <<Event("worker_summary", "none")>>
      \/ es = <<Event("test_gate", "none"), Event("review_reused", "none")>>
      \/ es = <<Event("test_gate", "none")>>
      \/ es = <<Event("review_gate", "approved")>>
      \/ es = <<Event("review_gate", "REVIEW_REJECTED"), Event("fix_round", "none")>>
  BY DEF Onward
<1> QED
  BY <1>1, <1>2, QuietOnes

\* Nor does what it writes as it ends.
LEMMA EndingQuiet ==
  ASSUME NEW c, NEW how, NEW odd, NEW es \in Seq(EventState),
         \/ Marked(c, how, es)
         \/ Reasoned(c, how, odd, es)
         \/ Rejected(c, how, odd, es)
         \/ FailedAs(c, how, odd, es)
         \/ odd /\ es = <<>>
  PROVE  Quiet(es)
<1>1. /\ "worker_summary" \in Kinds \ {"result", "usage"}
      /\ "test_gate" \in Kinds \ {"result", "usage"}
      /\ "review_gate" \in Kinds \ {"result", "usage"}
      /\ "base_red" \in Kinds \ {"result", "usage"}
      /\ EndKinds \subseteq Kinds \ {"result", "usage"}
  BY DEF Kinds, EndKinds
<1>2. CASE Marked(c, how, es)
  <2>1. PICK kind \in EndKinds, before \in Seq(EventState) :
          /\ es = Append(before, Event(kind, "none"))
          /\ \/ before = <<>>
             \/ before = <<Event("worker_summary", "none")>>
             \/ before = <<Event("test_gate", "none")>>
             \/ \E says \in Whys : before = <<Event("review_gate", says)>>
    BY <1>2 DEF Marked
  <2>2. CASE before = <<>>
    <3>1. es = <<Event(kind, "none")>>
      BY <2>1, <2>2
    <3> QED
      BY <1>1, <3>1, QuietOnes
  <2>3. ASSUME NEW k \in Kinds \ {"result", "usage"}, NEW w, before = <<Event(k, w)>>
        PROVE  Quiet(es)
    <3>1. es = <<Event(k, w), Event(kind, "none")>>
      BY <2>1, <2>3, InARow
    <3> QED
      BY <1>1, <3>1, QuietOnes
  <2> QED
    BY <1>1, <2>1, <2>2, <2>3
<1>3. CASE \/ Reasoned(c, how, odd, es)
           \/ Rejected(c, how, odd, es)
           \/ FailedAs(c, how, odd, es)
           \/ odd /\ es = <<>>
  <2>1. \/ es = <<>>
        \/ \E w : es = <<Event("review_gate", w)>>
        \/ es = <<Event("test_gate", "failed")>>
        \/ es = <<Event("test_gate", "failed"), Event("base_red", "none")>>
    BY <1>3 DEF Reasoned, Rejected, FailedAs
  <2> QED
    BY <1>1, <2>1, QuietOnes
<1> QED
  BY <1>2, <1>3

\* Whatever a run does costs nothing.
LEMMA RunsAreFree ==
  ASSUME Typed, NEW c \in Cards, RunNext(c)
  PROVE  /\ UNCHANGED <<turns, day, tagged, agent, paid, due, today, unheard, happened>>
         /\ \E es \in Seq(EventState) : Writes(c, es) /\ Quiet(es)
<1>1. CASE Start(c)
  <2>1. Plain(<<"lifecycle_started">>) \in Seq(EventState) /\ Quiet(Plain(<<"lifecycle_started">>))
    BY PlainIs, EventSeqs, QuietOnes DEF Kinds, Whys
  <2> QED
    BY <1>1, <2>1 DEF Start, Clears, money
<1>2. CASE RefusedAtOnce(c)
  <2> DEFINE es == <<Event("run_refused", "at once")>>
  <2>1. es \in Seq(EventState) /\ Quiet(es)
    BY EventSeqs, QuietOnes DEF Kinds, Whys
  <2>2. Writes(c, es)
    BY <1>2 DEF RefusedAtOnce
  <2> HIDE DEF es
  <2> QED
    BY <1>2, <2>1, <2>2 DEF RefusedAtOnce, Clears, money
<1>3. CASE GoesOn(c)
  BY <1>3, OnwardQuiet DEF GoesOn, Told, money
<1>4. CASE Ending(c)
  BY <1>4, EndingQuiet DEF Ending, Told, money
<1> QED
  BY <1>1, <1>2, <1>3, <1>4, RunSteps

\* What the cards cost on a day, when one of them costs more
LEMMA DayCosts ==
  ASSUME Typed, SpendConstants, NEW c \in Cards, NEW x, NEW p \in Price, NEW hit \in BOOLEAN,
         turns' = turns,
         CardSpentOn(c, x)' = IF hit THEN Plus(CardSpentOn(c, x), p) ELSE CardSpentOn(c, x),
         \A d \in Cards \ {c} : CardSpentOn(d, x)' = CardSpentOn(d, x)
  PROVE  SpentOn(x)' = IF hit THEN Plus(SpentOn(x), p) ELSE SpentOn(x)
<1> DEFINE f == [d \in Cards |-> CardSpentOn(d, x)]
           g == [d \in Cards |-> CardSpentOn(d, x)']
<1>1. IsFiniteSet(Cards) /\ f \in [Cards -> Price] /\ f[c] \in Price
  BY SumsAre DEF SpendConstants
<1>2. TurnsOn(x)' = TurnsOn(x)
  BY DEF TurnsOn
<1>3. SpentOn(x)' = Plus(CostSum(g), TurnsOn(x)) /\ SpentOn(x) = Plus(CostSum(f), TurnsOn(x))
  BY <1>2 DEF SpentOn
<1>4. g[c] = (IF hit THEN Plus(f[c], p) ELSE f[c]) /\ \A d \in Cards \ {c} : g[d] = f[d]
  OBVIOUS
<1>5. g \in [Cards -> Price]
  <2>1. Plus(f[c], p) \in Price
    BY <1>1, PlusIs
  <2>2. \A d \in Cards : CardSpentOn(d, x)' \in Price
    BY <1>1, <1>4, <2>1
  <2> QED
    BY <2>2
<1>6. DOMAIN f = Cards /\ DOMAIN g = Cards
  OBVIOUS
<1> HIDE DEF f, g
<1>7. CASE hit
  <2>1. CostSum(g) = Plus(CostSum(f), p)
    BY <1>1, <1>4, <1>5, <1>7, CostGrows
  <2>2. CostSum(f) \in Price /\ TurnsOn(x) \in Price
    BY <1>1, CostAdds, SumsAre
  <2>3. Plus(Plus(CostSum(f), p), TurnsOn(x)) = Plus(Plus(CostSum(f), TurnsOn(x)), p)
    <3>1. /\ Plus(Plus(CostSum(f), p), TurnsOn(x)) = Plus(CostSum(f), Plus(p, TurnsOn(x)))
          /\ Plus(p, TurnsOn(x)) = Plus(TurnsOn(x), p)
          /\ Plus(Plus(CostSum(f), TurnsOn(x)), p) = Plus(CostSum(f), Plus(TurnsOn(x), p))
      BY <2>2, PlusIs
    <3> QED
      BY <3>1
  <2> QED
    BY <1>3, <1>7, <2>1, <2>3
<1>8. CASE ~hit
  <2>1. g = f
    BY <1>1, <1>4, <1>5, <1>8
  <2> QED
    BY <1>3, <1>8, <2>1
<1> QED
  BY <1>7, <1>8

-----------------------------------------------------------------------------
(* the money *)

\* What a card was paid for, by its worker and its reviewer
Total(c) == Plus(paid[c]["worker"], paid[c]["reviewer"])

\* Nothing is written for a day to come.
Dated == /\ \A c \in Cards : \A i \in DOMAIN log[c] : log[c][i].day <= day
         /\ \A t \in DOMAIN turns : turns[t].day <= day

\* What no result told of yet is what the agent at work used.
DueIsPending == \A c \in Cards : due[c] = Pending(c)
\* What was told of today is what the log has of today.
TodaySum == \A x : x = day /\ ~unheard => SpentOn(x) = today
\* What a card's results cost, and what is yet to be told, is what it was paid for.
CardSums == \A c \in Cards : ~unheard => Plus(CardSpend(c), due[c]) = Total(c)
\* The usage of a card is what it was paid for, as long as that is known.
UsageSums == \A c \in Cards : Total(c) # NoPrice => UsageCost(c) = Total(c)
\* The inductive invariant of the money
Money == Dated /\ DueIsPending /\ TodaySum /\ CardSums /\ UsageSums

\* The money is counted at first, when there is none.
LEMMA MoneyInit ==
  ASSUME Init, SpendConstants
  PROVE  Money
<1>0. Typed /\ IsFiniteSet(Cards) /\ IsFiniteSet({}) /\ turns = <<>> /\ today = 0
  BY TypedInit, FS_EmptySet DEF SpendConstants, Init
<1>1. \A f \in [{} -> Price] : CostSum(f) = 0
  BY <1>0, CostAdds
<1>2. ASSUME NEW c \in Cards
      PROVE  /\ Results(c) = {} /\ Kind(c, DOMAIN log[c], {"usage", "result"}) = {}
             /\ DOMAIN log[c] = {}
  <2>1. log[c] = <<>>
    BY DEF Init
  <2> QED
    BY <2>1 DEF Results, Kind
<1>3. ASSUME NEW c \in Cards
      PROVE  CardSpend(c) = 0 /\ UsageCost(c) = 0 /\ \A x : CardSpentOn(c, x) = 0
  <2>1. EventCost(c, {}) \in [{} -> Price] /\ [i \in {} |-> log[c][i].used] \in [{} -> Price]
    BY DEF EventCost
  <2>2. CostSum(EventCost(c, {})) = 0 /\ CostSum([i \in {} |-> log[c][i].used]) = 0
    BY <1>1, <2>1
  <2>3. \A x : {i \in {} : log[c][i].day = x} = {}
    OBVIOUS
  <2>4. \A x : CardSpentOn(c, x) = CostSum(EventCost(c, {}))
    BY <1>2, <2>3 DEF CardSpentOn
  <2> QED
    BY <1>2, <2>2, <2>4 DEF CardSpend, UsageCost
<1>4. \A c \in Cards : Total(c) = 0 /\ due[c] = 0 /\ Pending(c) = 0
  <2>1. \A c \in Cards : paid[c]["worker"] = 0 /\ paid[c]["reviewer"] = 0 /\ due[c] = 0
    BY DEF Init, Roles
  <2>2. Plus(0, 0) = 0
    BY DEF Plus, NoPrice
  <2>3. \A c \in Cards : agent[c].pending = <<>>
    BY DEF Init, NoAgent
  <2> QED
    BY <1>0, <2>1, <2>2, <2>3, PendingIs DEF Total
<1>5. ASSUME NEW x
      PROVE  SpentOn(x) = 0
  <2> DEFINE f == [c \in Cards |-> CardSpentOn(c, x)]
  <2>1. f \in [Cards -> Price] /\ \A c \in Cards : f[c] = 0
    BY <1>3 DEF Price
  <2> HIDE DEF f
  <2>2. CostSum(f) = 0
    BY <1>0, <2>1, CostOfNone
  <2>3. TurnsOn(x) = 0
    <3>1. {t \in DOMAIN turns : turns[t].day = x} = {}
      BY <1>0
    <3>2. [t \in {} |-> turns[t].cost] \in [{} -> Price]
      OBVIOUS
    <3>3. CostSum([t \in {} |-> turns[t].cost]) = 0
      BY <1>1, <3>2
    <3> QED
      BY <3>1, <3>3 DEF TurnsOn
  <2>4. Plus(0, 0) = 0
    BY DEF Plus, NoPrice
  <2> QED
    BY <2>2, <2>3, <2>4 DEF SpentOn, f
<1>6. Plus(0, 0) = 0
  BY DEF Plus, NoPrice
<1>7. Dated
  BY <1>0, <1>2 DEF Dated
<1> QED
  BY <1>0, <1>3, <1>4, <1>5, <1>6, <1>7 DEF Money, DueIsPending, TodaySum, CardSums, UsageSums

\* What costs nothing changes no money.
LEMMA MoneyQuiet ==
  ASSUME Typed, Typed', Money, SpendConstants, NEW c \in Cards,
         NEW es \in Seq(EventState), Writes(c, es), Quiet(es),
         UNCHANGED <<turns, day, paid, due, today, unheard>>,
         \A d \in Cards : agent'[d].pending = agent[d].pending
  PROVE  Money'
<1>1. \A d \in Cards : /\ CardSpend(d)' = CardSpend(d) /\ UsageCost(d)' = UsageCost(d)
                       /\ \A x : CardSpentOn(d, x)' = CardSpentOn(d, x)
  BY QuietIsFree
<1>2. Dated'
  <2>1. log \in [Cards -> Seq(EventState)] /\ day \in Nat
    BY DEF Typed
  <2>2. /\ \A d \in Cards \ {c} : log'[d] = log[d]
        /\ \A i \in DOMAIN log[c] : i \in DOMAIN log'[c] /\ log'[c][i] = log[c][i]
        /\ \A i \in DOMAIN log'[c] \ DOMAIN log[c] :
             i - Len(log[c]) \in 1..Len(es) /\ log'[c][i] = es[i - Len(log[c])]
    BY <2>1, Wrote
  <2>3. \A i \in DOMAIN log'[c] \ DOMAIN log[c] : log'[c][i].day <= day
    BY <2>1, <2>2 DEF Quiet
  <2>4. Dated
    BY DEF Money
  <2> QED
    BY <2>2, <2>3, <2>4 DEF Dated
<1>3. \A d \in Cards : Pending(d)' = Pending(d)
  BY DEF Pending
<1>4. DueIsPending'
  BY <1>3 DEF DueIsPending, Money
<1>5. \A x : SpentOn(x)' = SpentOn(x)
  <2>1. 0 \in Price
    BY DEF Price
  <2> QED
    BY <1>1, <2>1, DayCosts
<1>6. TodaySum'
  <2>1. TodaySum
    BY DEF Money
  <2> QED
    BY <1>5, <2>1 DEF TodaySum
<1>7. \A d \in Cards : Total(d)' = Total(d)
  BY DEF Total
<1>8. CardSums' /\ UsageSums'
  BY <1>1, <1>7 DEF CardSums, UsageSums, Money
<1> QED
  BY <1>2, <1>4, <1>6, <1>8 DEF Money

\* One more cost in a sum
LEMMA SumOneMore ==
  ASSUME NEW a \in Price, NEW b \in Price, NEW t \in Price, NEW p \in Price,
         Plus(a, b) = t
  PROVE  /\ Plus(a, Plus(b, p)) = Plus(t, p)
         /\ Plus(Plus(a, p), b) = Plus(t, p)
         /\ Plus(Plus(a, b), p) = Plus(t, p)
         /\ Plus(Plus(a, Plus(b, p)), 0) = Plus(t, p)
         /\ Plus(Plus(a, b), 0) = t
BY DEF Plus, Price, NoPrice

\* The total of a card grows with what its agent is paid.
LEMMA TotalGrows ==
  ASSUME Typed, NEW c \in Cards, at[c] \in Roles, NEW cost \in Price, Charge(c, cost)
  PROVE  /\ Total(c) \in Price /\ Total(c)' = Plus(Total(c), cost)
         /\ \A d \in Cards \ {c} : Total(d)' = Total(d)
<1>1. /\ paid'[c][at[c]] = Plus(paid[c][at[c]], cost)
      /\ \A r \in Roles \ {at[c]} : paid'[c][r] = paid[c][r]
      /\ \A d \in Cards \ {c} : paid'[d] = paid[d]
  BY Charged
<1>2. paid[c]["worker"] \in Price /\ paid[c]["reviewer"] \in Price
  BY DEF Typed, Roles
<1>3. Total(c) \in Price /\ \A d \in Cards \ {c} : Total(d)' = Total(d)
  BY <1>1, <1>2, PlusIs DEF Total
<1>4. CASE at[c] = "worker"
  <2>1. paid'[c]["worker"] = Plus(paid[c]["worker"],
          cost) /\ paid'[c]["reviewer"] = paid[c]["reviewer"]
    BY <1>1, <1>4 DEF Roles
  <2> QED
    BY <1>2, <1>3, <2>1, SumOneMore DEF Total
<1>5. CASE at[c] = "reviewer"
  <2>1. paid'[c]["reviewer"] = Plus(paid[c]["reviewer"],
          cost) /\ paid'[c]["worker"] = paid[c]["worker"]
    BY <1>1, <1>5 DEF Roles
  <2> QED
    BY <1>2, <1>3, <2>1, SumOneMore DEF Total
<1> QED
  BY <1>3, <1>4, <1>5 DEF Roles

\* A line of an agent: one more event, of which p was paid
LEMMA MoneyLine ==
  ASSUME Typed, Money, SpendConstants, NEW c \in Cards, NEW e \in EventState,
         e.kind \in {"result", "usage"}, e.kind = "result" => e.day = day, e.day <= day,
         Writes(c, <<e>>), UNCHANGED <<turns, day>>,
         \A d \in Cards \ {c} : /\ due'[d] = due[d] /\ agent'[d] = agent[d]
                                /\ Total(d)' = Total(d),
         due'[c] = Pending(c)', due'[c] \in Price,
         unheard' \in BOOLEAN, unheard => unheard',
         ~unheard' => today' = IF e.kind = "result" THEN Plus(today, e.cost) ELSE today,
         NEW p \in Price, Total(c)' = Plus(Total(c), p), Total(c) \in Price,
         p # NoPrice => e.used = p,
         ~unheard' => Plus(IF e.kind = "result" THEN Plus(CardSpend(c), e.cost) ELSE CardSpend(c),
                           due'[c])
                        = Plus(Plus(CardSpend(c), due[c]), p)
  PROVE  Money'
<1>0. /\ Dated /\ DueIsPending /\ TodaySum /\ CardSums /\ UsageSums
      /\ log \in [Cards -> Seq(EventState)] /\ unheard \in BOOLEAN
  BY DEF Money, Typed
<1>1. /\ CardSpend(c)' = IF e.kind = "result" THEN Plus(CardSpend(c), e.cost) ELSE CardSpend(c)
      /\ UsageCost(c)' = Plus(UsageCost(c), e.used)
      /\ \A x : CardSpentOn(c, x)' = IF e.kind = "result" /\ e.day = x
                                     THEN Plus(CardSpentOn(c, x), e.cost) ELSE CardSpentOn(c, x)
      /\ \A d \in Cards \ {c} : /\ CardSpend(d)' = CardSpend(d) /\ UsageCost(d)' = UsageCost(d)
                                /\ \A x : CardSpentOn(d, x)' = CardSpentOn(d, x)
  BY LineCosts
<1>2. e.cost \in Price /\ e.used \in Price
  BY DEF EventState
<1>3. Dated'
  <2> DEFINE es == <<e>>
  <2>1. es \in Seq(EventState) /\ Len(es) = 1 /\ es[1] = e /\ Writes(c, es)
    OBVIOUS
  <2> HIDE DEF es
  <2>2. /\ \A d \in Cards \ {c} : log'[d] = log[d]
        /\ \A i \in DOMAIN log[c] : i \in DOMAIN log'[c] /\ log'[c][i] = log[c][i]
        /\ \A i \in DOMAIN log'[c] \ DOMAIN log[c] :
             i - Len(log[c]) \in 1..Len(es) /\ log'[c][i] = es[i - Len(log[c])]
    BY <1>0, <2>1, Wrote
  <2>3. \A i \in DOMAIN log'[c] \ DOMAIN log[c] : log'[c][i].day <= day
    <3>1. \A k \in 1..Len(es) : es[k] = e
      BY <2>1
    <3> QED
      BY <2>2, <3>1
  <2> QED
    BY <1>0, <2>2, <2>3 DEF Dated
<1>4. DueIsPending'
  <2>1. \A d \in Cards \ {c} : Pending(d)' = Pending(d)
    BY DEF Pending
  <2> QED
    BY <1>0, <2>1 DEF DueIsPending
<1>5. TodaySum'
  <2> SUFFICES ASSUME NEW x, x = day, ~unheard'
               PROVE  SpentOn(x)' = today'
    BY DEF TodaySum
  <2> DEFINE hit == e.kind = "result"
  <2>1. SpentOn(x) = today
    BY <1>0 DEF TodaySum
  <2>2. hit = (e.kind = "result" /\ e.day = x) /\ hit \in BOOLEAN
    OBVIOUS
  <2>3. CardSpentOn(c, x)' = IF hit THEN Plus(CardSpentOn(c, x), e.cost) ELSE CardSpentOn(c, x)
    BY <1>1, <2>2
  <2>3a. \A d \in Cards \ {c} : CardSpentOn(d, x)' = CardSpentOn(d, x)
    BY <1>1
  <2>3b. hit \in BOOLEAN
    OBVIOUS
  <2> HIDE DEF hit
  <2>4. SpentOn(x)' = IF hit THEN Plus(SpentOn(x), e.cost) ELSE SpentOn(x)
    BY <1>2, <2>3, <2>3a, <2>3b, DayCosts
  <2> QED
    BY <2>1, <2>4 DEF hit
<1>6. CardSums'
  <2> SUFFICES ASSUME NEW d \in Cards, ~unheard'
               PROVE  Plus(CardSpend(d)', due'[d]) = Total(d)'
    BY DEF CardSums
  <2>1. Plus(CardSpend(d), due[d]) = Total(d)
    BY <1>0 DEF CardSums
  <2> QED
    BY <1>1, <2>1
<1>7. UsageSums'
  <2> SUFFICES ASSUME NEW d \in Cards, Total(d)' # NoPrice
               PROVE  UsageCost(d)' = Total(d)'
    BY DEF UsageSums
  <2>1. CASE d # c
    BY <1>0, <1>1, <2>1 DEF UsageSums
  <2>2. CASE d = c
    <3>1. Total(c) # NoPrice /\ p # NoPrice
      BY <2>2, PlusIs
    <3>2. UsageCost(c) = Total(c)
      BY <1>0, <3>1 DEF UsageSums
    <3> QED
      BY <1>1, <2>2, <3>1, <3>2
  <2> QED
    BY <2>1, <2>2
<1> QED
  BY <1>3, <1>4, <1>5, <1>6, <1>7 DEF Money

\* No line, and what no result told of is lost
LEMMA MoneyLeft ==
  ASSUME Typed, Money, NEW c \in Cards, LeftOver(c), NEW why, Exit(c, why), UNCHANGED log
  PROVE  Money'
<1>0. /\ Dated /\ DueIsPending /\ TodaySum /\ CardSums /\ UsageSums
      /\ due \in [Cards -> Price] /\ unheard \in BOOLEAN /\ agent \in [Cards -> AgentState]
  BY DEF Money, Typed
<1>1. /\ due' = [due EXCEPT ![c] = 0] /\ unheard' = (unheard \/ agent[c].pending # <<>>)
      /\ UNCHANGED <<paid, today, turns, day, log>>
      /\ agent' = [agent EXCEPT ![c] = [NoAgent EXCEPT !.why = why]]
  BY DEF LeftOver, Exit
<1>2. ~unheard' => ~unheard /\ due[c] = 0
  BY <1>0, <1>1, PendingIs DEF DueIsPending
<1>3. \A d \in Cards : /\ CardSpend(d)' = CardSpend(d) /\ UsageCost(d)' = UsageCost(d)
                       /\ \A x : CardSpentOn(d, x)' = CardSpentOn(d, x)
  BY <1>1, OthersSpend
<1>4. \A x : SpentOn(x)' = SpentOn(x)
  <2>1. \A x : TurnsOn(x)' = TurnsOn(x)
    BY <1>1 DEF TurnsOn
  <2> QED
    BY <1>3, <2>1 DEF SpentOn
<1>5. Dated' /\ TodaySum'
  BY <1>0, <1>1, <1>2, <1>4 DEF Dated, TodaySum
<1>6. DueIsPending'
  <2>1. \A d \in Cards \ {c} : agent'[d] = agent[d] /\ due'[d] = due[d]
    BY <1>0, <1>1
  <2>2. due'[c] = 0 /\ agent'[c].pending = <<>>
    BY <1>0, <1>1 DEF NoAgent
  <2>3. Pending(c)' = 0
    <3>1. CostSum(<<>>) = 0
      <4>1. <<>> \in [{} -> Price] /\ IsFiniteSet({})
        BY FS_EmptySet
      <4> QED
        BY <4>1, CostAdds
    <3> QED
      BY <2>2, <3>1 DEF Pending
  <2>4. \A d \in Cards \ {c} : Pending(d)' = Pending(d)
    BY <2>1 DEF Pending
  <2> QED
    BY <1>0, <2>1, <2>2, <2>3, <2>4 DEF DueIsPending
<1>7. \A d \in Cards : Total(d)' = Total(d)
  BY <1>1 DEF Total
<1>8. CardSums'
  <2>1. \A d \in Cards : ~unheard' => due'[d] = due[d]
    BY <1>0, <1>1, <1>2
  <2> QED
    BY <1>0, <1>2, <1>3, <1>7, <2>1 DEF CardSums
<1>9. UsageSums'
  BY <1>0, <1>3, <1>7 DEF UsageSums
<1> QED
  BY <1>5, <1>6, <1>8, <1>9 DEF Money

\* An agent's result when it is cut short or dies: with no price where nothing was told of it,
\* or with what was told
LEMMA MoneyDone ==
  ASSUME Typed, Money, SpendConstants, NEW c \in Cards, NEW why, Exit(c, why),
         NEW reason \in Whys, NEW cost \in Price, Writes(c, <<Result(c, cost, 0, reason)>>),
         \/ /\ Silent(c) /\ Charge(c, NoPrice) /\ Settle(c, NoPrice)
            /\ (unheard' = unheard /\ cost = NoPrice) \/ unheard' = TRUE
         \/ /\ ~Silent(c) /\ Settle(c, due[c]) /\ UNCHANGED paid /\ unheard' = unheard
            /\ cost = Pending(c)
  PROVE  Money'
<1> DEFINE e == Result(c, cost, 0, reason)
<1>0. /\ due \in [Cards -> Price] /\ due[c] \in Price /\ today \in Price /\ day \in Nat
      /\ agent \in [Cards -> AgentState] /\ DueIsPending /\ CardSums
      /\ CardSpend(c) \in Price /\ 0 \in Price /\ NoPrice \in Price /\ unheard \in BOOLEAN
  BY SumsAre DEF Typed, Money, Price
<1>1. /\ e \in EventState /\ e.kind = "result" /\ e.day = day /\ e.cost = cost /\ e.used = 0
      /\ at[c] \in Roles
  <2>1. at[c] \in Roles
    BY DEF Exit
  <2> QED
    BY <1>0, <2>1, ResultIs
<1>2. /\ agent' = [agent EXCEPT ![c] = [NoAgent EXCEPT !.why = why]] /\ UNCHANGED <<turns, day>>
      /\ due' = [due EXCEPT ![c] = 0]
  BY DEF Exit, Settle
<1>3. /\ due'[c] = Pending(c)' /\ due'[c] = 0
      /\ \A d \in Cards \ {c} : due'[d] = due[d] /\ agent'[d] = agent[d]
  <2>1. agent'[c].pending = <<>>
    BY <1>0, <1>2 DEF NoAgent
  <2>2. CostSum(<<>>) = 0
    <3>1. <<>> \in [{} -> Price] /\ IsFiniteSet({})
      BY FS_EmptySet
    <3> QED
      BY <3>1, CostAdds
  <2>3. Pending(c)' = 0
    BY <2>1, <2>2 DEF Pending
  <2> QED
    BY <1>0, <1>2, <2>3
<1>4. Writes(c, <<e>>)
  OBVIOUS
<1>5. Total(c) \in Price
  <2>1. paid[c]["worker"] \in Price /\ paid[c]["reviewer"] \in Price
    BY DEF Typed, Roles
  <2> QED
    BY <2>1, PlusIs DEF Total
<1> HIDE DEF e
<1>6. CASE /\ Silent(c) /\ Charge(c, NoPrice) /\ Settle(c, NoPrice)
           /\ (unheard' = unheard /\ cost = NoPrice) \/ unheard' = TRUE
  <2>1. Total(c)' = Plus(Total(c), NoPrice) /\ \A d \in Cards \ {c} : Total(d)' = Total(d)
    BY <1>0, <1>1, <1>6, TotalGrows
  <2>2. today' = Plus(today, NoPrice)
    BY <1>6 DEF Settle
  <2>3. ~unheard' => cost = NoPrice
    BY <1>6
  <2>4. Plus(Plus(CardSpend(c), NoPrice), 0) = Plus(Plus(CardSpend(c), due[c]), NoPrice)
    BY <1>0, PlusIs DEF Plus, Price, NoPrice
  <2>5. unheard' \in BOOLEAN /\ (unheard => unheard')
    <3>1. unheard' = unheard \/ unheard' = TRUE
      BY <1>6
    <3> QED
      BY <1>0, <3>1
  <2>6. e.day <= day
    BY <1>0, <1>1
  <2> QED
    BY <1>0, <1>1, <1>2, <1>3, <1>4, <1>5, <2>1, <2>2, <2>3, <2>4, <2>5, <2>6, MoneyLine
<1>7. CASE /\ ~Silent(c) /\ Settle(c, due[c]) /\ UNCHANGED paid /\ unheard' = unheard
           /\ cost = Pending(c)
  <2>1. Total(c)' = Plus(Total(c), 0) /\ \A d \in Cards \ {c} : Total(d)' = Total(d)
    <3>1. \A d \in Cards : Total(d)' = Total(d)
      BY <1>7 DEF Total
    <3> QED
      BY <1>5, <3>1, PlusIs
  <2>2. today' = Plus(today, due[c]) /\ cost = due[c]
    BY <1>0, <1>7 DEF Settle, DueIsPending
  <2>4. Plus(Plus(CardSpend(c), due[c]), 0) = Plus(Plus(CardSpend(c), due[c]), 0)
    OBVIOUS
  <2>5. unheard' \in BOOLEAN /\ (unheard => unheard')
    BY <1>0, <1>7
  <2>6. e.day <= day
    BY <1>0, <1>1
  <2> QED
    BY <1>0, <1>1, <1>2, <1>3, <1>4, <1>5, <2>1, <2>2, <2>4, <2>5, <2>6, MoneyLine
<1> QED
  BY <1>6, <1>7

\* Every line of an agent, and its end, is counted.
LEMMA MoneyAgent ==
  ASSUME Typed, Money, SpendConstants, NEW c \in Cards, AgentNext(c)
  PROVE  Money'
<1>0. /\ due \in [Cards -> Price] /\ due[c] \in Price /\ today \in Price /\ day \in Nat
      /\ agent \in [Cards -> AgentState] /\ DueIsPending /\ CardSums /\ due[c] = Pending(c)
      /\ CardSpend(c) \in Price /\ 0 \in Price /\ NoPrice \in Price /\ unheard \in BOOLEAN
      /\ Prices \subseteq Price /\ agent[c].pending \in Seq(Price) /\ agent[c] \in AgentState
  BY SumsAre, PendingIs DEF Typed, Money, Price, DueIsPending, SpendConstants
<1>1. Total(c) \in Price
  <2>1. paid[c]["worker"] \in Price /\ paid[c]["reviewer"] \in Price
    BY DEF Typed, Roles
  <2> QED
    BY <2>1, PlusIs DEF Total
<1>2. CASE Uses(c)
  <2>1. PICK cost \in Prices :
          /\ Line(c) /\ Writes(c, <<[Event("usage", "none") EXCEPT !.used = cost]>>)
          /\ agent' = [agent EXCEPT ![c].pending = Append(@, cost)]
          /\ Charge(c, cost) /\ due' = [due EXCEPT ![c] = Plus(@, cost)]
          /\ UNCHANGED <<today, astray>>
    BY <1>2 DEF Uses
  <2> DEFINE e == [Event("usage", "none") EXCEPT !.used = cost]
  <2>2. cost \in Price /\ at[c] \in Roles /\ UNCHANGED <<turns, day, unheard>>
    BY <1>0, <2>1 DEF Line
  <2>3. e \in EventState /\ e.kind = "usage" /\ e.used = cost /\ e.day = 0
    <3>1. Event("usage", "none") \in EventState
      BY EventTypes DEF Kinds, Whys
    <3> QED
      BY <2>2, <3>1 DEF EventState, Event
  <2>4. /\ Total(c)' = Plus(Total(c), cost) /\ \A d \in Cards \ {c} : Total(d)' = Total(d)
    BY <2>1, <2>2, TotalGrows
  <2>5. /\ due'[c] = Plus(due[c], cost) /\ due'[c] \in Price
        /\ \A d \in Cards \ {c} : due'[d] = due[d] /\ agent'[d] = agent[d]
    BY <1>0, <2>1, <2>2, PlusIs
  <2>6. Pending(c)' = Plus(Pending(c), cost)
    <3> DEFINE p == agent[c].pending
               q == Append(p, cost)
    <3>1. agent'[c].pending = q
      BY <1>0, <2>1
    <3>2. /\ p \in [1..Len(p) -> Price] /\ IsFiniteSet(1..Len(p)) /\ Len(p) \in Nat
      <4>1. p \in Seq(Price)
        BY <1>0
      <4> HIDE DEF p
      <4>2. Len(p) \in Nat /\ p \in [1..Len(p) -> Price]
        BY <4>1, LenProperties
      <4>3. 1 \in Int /\ Len(p) \in Int
        BY <4>2
      <4> QED
        BY <4>2, <4>3, FS_Interval
    <3>3. p \in Seq(Price)
      BY <1>0
    <3> HIDE DEF p
    <3>4. /\ q \in [1..Len(p) \cup {Len(p) + 1} -> Price] /\ q[Len(p) + 1] = cost
          /\ \A i \in 1..Len(p) : q[i] = p[i]
      <4>1. /\ q \in Seq(Price) /\ Len(q) = Len(p) + 1 /\ q[Len(p) + 1] = cost
            /\ \A i \in 1..Len(p) : q[i] = p[i]
        BY <2>2, <3>3, AppendProperties
      <4>2. 1..(Len(p) + 1) = 1..Len(p) \cup {Len(p) + 1}
        BY <3>2
      <4>3. q \in [1..(Len(p) + 1) -> Price]
        BY <4>1, LenProperties
      <4> QED
        BY <4>1, <4>2, <4>3
    <3>5. Len(p) + 1 \notin 1..Len(p)
      BY <3>2
    <3> HIDE DEF q
    <3>6. CostSum(q) = Plus(CostSum(p), cost)
      <4> DEFINE n == Len(p) + 1
                 D == 1..Len(p)
      <4>1. /\ n \notin D /\ q \in [D \cup {n} -> Price] /\ q[n] = cost
            /\ \A i \in D : q[i] = p[i]
            /\ p \in [D -> Price] /\ IsFiniteSet(D)
        BY <3>2, <3>4, <3>5
      <4> HIDE DEF n, D
      <4> QED
        BY <2>2, <4>1, CostMore
    <3> QED
      BY <3>1, <3>6 DEF Pending, p
  <2>7. Plus(CardSpend(c), due'[c]) = Plus(Plus(CardSpend(c), due[c]), cost)
    BY <1>0, <2>2, <2>5, PlusIs
  <2>8. Writes(c, <<e>>) /\ today' = today /\ e.day <= day
    BY <1>0, <2>1, <2>3
  <2> HIDE DEF e
  <2>9. due'[c] = Pending(c)'
    BY <1>0, <2>5, <2>6
  <2> QED
    BY <1>0, <1>1, <2>2, <2>3, <2>4, <2>5, <2>7, <2>8, <2>9, MoneyLine
<1>3. CASE Reports(c)
  <2>1. PICK cost \in Prices, why \in {"none"} \cup Faults :
          /\ Line(c)
          /\ Writes(c, <<Result(c, Plus(Pending(c), cost), cost,
                               IF why = "capped" THEN "CRASH" ELSE why)>>)
          /\ agent' = [agent EXCEPT ![c] = [@ EXCEPT !.pending = <<>>, !.finals = 1, !.why = why]]
          /\ Charge(c, cost) /\ Settle(c, Plus(due[c], cost))
    BY <1>3 DEF Reports
  <2> DEFINE all == Plus(Pending(c), cost)
             said == IF why = "capped" THEN "CRASH" ELSE why
             e == Result(c, all, cost, said)
  <2>2. cost \in Price /\ at[c] \in Roles /\ UNCHANGED <<turns, day, unheard>> /\ all \in Price
    BY <1>0, <2>1, PlusIs DEF Line
  <2>3. e \in EventState /\ e.kind = "result" /\ e.used = cost /\ e.day = day /\ e.cost = all
    <3>1. said \in Whys
      BY SpendConstants DEF Whys, Fault, SpendConstants
    <3> HIDE DEF said, all
    <3> QED
      BY <2>2, <3>1, ResultIs
  <2>4. /\ Total(c)' = Plus(Total(c), cost) /\ \A d \in Cards \ {c} : Total(d)' = Total(d)
    BY <2>1, <2>2, TotalGrows
  <2>5. /\ due'[c] = 0 /\ today' = Plus(today, Plus(due[c], cost))
        /\ \A d \in Cards \ {c} : due'[d] = due[d] /\ agent'[d] = agent[d]
        /\ agent'[c].pending = <<>>
    BY <1>0, <2>1 DEF Settle
  <2>6. Pending(c)' = 0
    <3>1. <<>> \in [{} -> Price] /\ IsFiniteSet({})
      BY FS_EmptySet
    <3>2. CostSum(<<>>) = 0
      BY <3>1, CostAdds
    <3> QED
      BY <2>5, <3>2 DEF Pending
  <2>7. Plus(Plus(CardSpend(c), all), 0) = Plus(Plus(CardSpend(c), due[c]), cost)
    <3>1. all = Plus(due[c], cost)
      BY <1>0
    <3> HIDE DEF all
    <3> QED
      BY <1>0, <2>2, <3>1, SumOneMore, PlusIs
  <2>8. Writes(c, <<e>>) /\ e.day <= day /\ today' = Plus(today, e.cost)
    BY <1>0, <2>1, <2>3, <2>5
  <2> HIDE DEF e, all
  <2> QED
    BY <1>0, <1>1, <2>2, <2>3, <2>4, <2>5, <2>6, <2>7, <2>8, MoneyLine
<1>4. CASE Limited(c)
  <2> DEFINE es == <<Event("rate_limit", "none")>>
  <2>1. Writes(c, es) /\ es \in Seq(EventState) /\ Quiet(es)
    BY <1>4, PlainIs, EventSeqs, QuietOnes DEF Limited, Kinds, Whys
  <2>2. UNCHANGED <<turns, day, paid, due, today, unheard>>
    BY <1>4 DEF Limited, Line
  <2>3. \A d \in Cards : agent'[d].pending = agent[d].pending
    BY <1>0, <1>4 DEF Limited
  <2>4. Typed'
    BY <1>4, TypedAgent DEF AgentNext
  <2> HIDE DEF es
  <2> QED
    BY <2>1, <2>2, <2>3, <2>4, MoneyQuiet
<1>5. CASE Finishes(c)
  BY <1>5, MoneyLeft DEF Finishes
<1>6. CASE Stalls(c)
  BY <1>6, MoneyLeft DEF Stalls
<1>7. CASE Dies(c)
  <2>1. PICK stalled \in BOOLEAN :
          LET cost == IF agent[c].pending = <<>> THEN NoPrice ELSE Pending(c)
              why == IF stalled THEN "API_UNREACHABLE"
                     ELSE IF agent[c].limited THEN "USAGE_LIMIT" ELSE "CRASH" IN
          /\ agent[c].finals = 0
          /\ Exit(c, why) /\ Writes(c, <<Result(c, cost, 0, why)>>)
          /\ IF Silent(c) THEN Charge(c, NoPrice) /\ Settle(c, NoPrice)
             ELSE Settle(c, due[c]) /\ UNCHANGED paid
          /\ UNCHANGED unheard
    BY <1>7 DEF Dies
  <2> DEFINE cost == IF agent[c].pending = <<>> THEN NoPrice ELSE Pending(c)
             why == IF stalled THEN "API_UNREACHABLE"
                    ELSE IF agent[c].limited THEN "USAGE_LIMIT" ELSE "CRASH"
  <2>2. cost \in Price /\ why \in Whys
    BY <1>0 DEF Whys, Fault
  <2>3. /\ Silent(c) => cost = NoPrice
        /\ ~Silent(c) => cost = Pending(c)
    BY <2>1 DEF Silent
  <2>4. /\ Exit(c, why) /\ Writes(c, <<Result(c, cost, 0, why)>>) /\ UNCHANGED unheard
        /\ Silent(c) => Charge(c, NoPrice) /\ Settle(c, NoPrice)
        /\ ~Silent(c) => Settle(c, due[c]) /\ UNCHANGED paid
    BY <2>1
  <2> HIDE DEF cost, why
  <2>5. CASE Silent(c)
    BY <2>2, <2>3, <2>4, <2>5, MoneyDone
  <2>6. CASE ~Silent(c)
    BY <2>2, <2>3, <2>4, <2>6, MoneyDone
  <2> QED
    BY <2>5, <2>6
<1>8. CASE Capped(c)
  <2>1. /\ Exit(c, "capped") /\ Writes(c, <<Result(c, Pending(c), 0, "CRASH")>>)
        /\ Silent(c) => Charge(c, NoPrice) /\ Settle(c, NoPrice) /\ unheard' = TRUE
        /\ ~Silent(c) => Settle(c, due[c]) /\ UNCHANGED <<paid, unheard>>
    BY <1>8 DEF Capped, Rest
  <2>2. "CRASH" \in Whys /\ Pending(c) \in Price
    BY <1>0 DEF Whys, Fault
  <2>3. CASE Silent(c)
    BY <2>1, <2>2, <2>3, MoneyDone
  <2>4. CASE ~Silent(c)
    BY <2>1, <2>2, <2>4, MoneyDone
  <2> QED
    BY <2>3, <2>4
<1> QED
  BY <1>2, <1>3, <1>4, <1>5, <1>6, <1>7, <1>8 DEF AgentNext

\* A turn of mission control
LEMMA MoneyTurn ==
  ASSUME Typed, Money, SpendConstants, Turn
  PROVE  Money'
<1>0. /\ Dated /\ DueIsPending /\ TodaySum /\ CardSums /\ UsageSums /\ day \in Nat
      /\ turns \in Seq([cost : Price, day : Nat])
  BY DEF Money, Typed
<1>1. PICK cost \in Prices :
        /\ turns' = Append(turns, [cost |-> cost, day |-> day])
        /\ today' = Plus(today, cost)
        /\ UNCHANGED <<log, day, agent, paid, due, unheard>>
  BY DEF Turn
<1> DEFINE R == [cost : Price, day : Nat]
           e == [cost |-> cost, day |-> day]
           n == Len(turns) + 1
<1>2. cost \in Price /\ e \in R /\ e.cost = cost /\ e.day = day
  BY <1>0 DEF SpendConstants, Price
<1>3. turns \in Seq(R)
  BY <1>0
<1> HIDE DEF R, e
<1>4. /\ Len(turns) \in Nat /\ DOMAIN turns = 1..Len(turns) /\ DOMAIN turns' = 1..n
      /\ \A t \in DOMAIN turns : turns'[t] = turns[t]
      /\ turns'[n] = e
  <2>1. turns' = Append(turns, e)
    BY <1>1 DEF e
  <2> QED
    BY <1>2, <1>3, <2>1
<1>5. \A t \in DOMAIN turns : turns[t] \in R
  BY <1>3
<1>6. \A d \in Cards : /\ CardSpend(d)' = CardSpend(d) /\ UsageCost(d)' = UsageCost(d)
                       /\ \A x : CardSpentOn(d, x)' = CardSpentOn(d, x)
  BY <1>1, OthersSpend
<1>7. Dated'
  <2>1. \A t \in DOMAIN turns' : t \in DOMAIN turns \/ t = n
    BY <1>4
  <2> QED
    BY <1>0, <1>1, <1>2, <1>4, <2>1 DEF Dated
<1>8. DueIsPending' /\ CardSums' /\ UsageSums'
  BY <1>0, <1>1, <1>6 DEF DueIsPending, CardSums, UsageSums, Pending, Total
<1>9. TodaySum'
  <2> SUFFICES ASSUME NEW x, x = day, ~unheard
               PROVE  SpentOn(x)' = Plus(today, cost)
    BY <1>1 DEF TodaySum
  <2> DEFINE S == {t \in DOMAIN turns : turns[t].day = x}
             T == {t \in DOMAIN turns' : turns'[t].day = x}
             f == [t \in S |-> turns[t].cost]
             g == [t \in T |-> turns'[t].cost]
  <2>1. T = S \cup {n} /\ n \notin S
    <3>1. n \notin DOMAIN turns /\ DOMAIN turns' = DOMAIN turns \cup {n}
      BY <1>4
    <3> QED
      BY <1>2, <1>4, <3>1
  <2>2. IsFiniteSet(S)
    <3>0. 1 \in Int /\ Len(turns) \in Int
      BY <1>4
    <3>1. IsFiniteSet(1..Len(turns)) /\ S \subseteq 1..Len(turns)
      BY <1>4, <3>0, FS_Interval
    <3> QED
      BY <3>1, FS_Subset
  <2>3. \A t \in S : g[t] = f[t]
    BY <1>4, <2>1
  <2>4. g[n] = cost
    BY <1>2, <1>4, <2>1
  <2>5. f \in [S -> Price]
    BY <1>5 DEF R
  <2>6. g \in [T -> Price]
    <3>1. \A t \in T : turns'[t].cost \in Price
      BY <1>2, <1>4, <1>5, <2>1 DEF R
    <3> QED
      BY <3>1
  <2>7. TurnsOn(x) = CostSum(f) /\ TurnsOn(x)' = CostSum(g)
    BY DEF TurnsOn
  <2> HIDE DEF f, g, S, T, n
  <2>8. CostSum(g) = Plus(CostSum(f), cost)
    BY <2>1, <2>2, <2>3, <2>4, <2>5, <2>6, CostOfMore
  <2> DEFINE a == CostSum([c \in Cards |-> CardSpentOn(c, x)])
  <2>9. SpentOn(x) = Plus(a, CostSum(f)) /\ SpentOn(x)' = Plus(a, CostSum(g))
    <3>1. [c \in Cards |-> CardSpentOn(c, x)'] = [c \in Cards |-> CardSpentOn(c, x)]
      BY <1>6
    <3> QED
      BY <2>7, <3>1 DEF SpentOn
  <2>10. a \in Price /\ CostSum(f) \in Price
    <3>1. [c \in Cards |-> CardSpentOn(c, x)] \in [Cards -> Price] /\ IsFiniteSet(Cards)
      BY SumsAre DEF SpendConstants
    <3>2. CostSum(f) \in Price
      BY <2>2, <2>5, CostAdds
    <3> QED
      BY <3>1, <3>2, CostAdds
  <2>11. SpentOn(x) = today
    BY <1>0 DEF TodaySum
  <2> HIDE DEF a
  <2> QED
    <3>1. cost \in Price
      BY <1>2
    <3> DEFINE b == CostSum(f)
    <3>2. Plus(Plus(a, b), cost) = Plus(a, Plus(b, cost))
      BY <2>10, <3>1, PlusIs
    <3> HIDE DEF b
    <3> QED
      BY <2>8, <2>9, <2>11, <3>2 DEF b
<1> QED
  BY <1>7, <1>8, <1>9 DEF Money

\* Midnight: nothing was told of the new day yet.
LEMMA MoneyMidnight ==
  ASSUME Typed, Money, SpendConstants, Midnight
  PROVE  Money'
<1>0. /\ Dated /\ DueIsPending /\ TodaySum /\ CardSums /\ UsageSums /\ day \in Nat
      /\ log \in [Cards -> Seq(EventState)] /\ turns \in Seq([cost : Price, day : Nat])
  BY DEF Money, Typed
<1>1. /\ day' = day + 1 /\ today' = 0 /\ UNCHANGED <<log, turns, agent, paid, due, unheard>>
  BY DEF Midnight
<1>2. \A d \in Cards : /\ CardSpend(d)' = CardSpend(d) /\ UsageCost(d)' = UsageCost(d)
                       /\ \A x : CardSpentOn(d, x)' = CardSpentOn(d, x)
  BY <1>1, OthersSpend
<1>3. DueIsPending' /\ CardSums' /\ UsageSums'
  BY <1>0, <1>1, <1>2 DEF DueIsPending, CardSums, UsageSums, Pending, Total
<1>4. /\ \A c \in Cards : \A i \in DOMAIN log[c] : log[c][i].day \in Nat
      /\ \A t \in DOMAIN turns : turns[t].day \in Nat
  <2>1. \A c \in Cards : \A i \in DOMAIN log[c] : log[c][i] \in EventState
    BY <1>0, IndicesAre
  <2> DEFINE R == [cost : Price, day : Nat]
  <2>2. turns \in Seq(R)
    BY <1>0
  <2> HIDE DEF R
  <2>3. \A t \in DOMAIN turns : turns[t] \in R
    BY <2>2
  <2> QED
    BY <2>1, <2>3 DEF R, EventState
<1>5. Dated'
  <2> SUFFICES /\ \A c \in Cards : \A i \in DOMAIN log[c] : log[c][i].day <= day + 1
               /\ \A t \in DOMAIN turns : turns[t].day <= day + 1
    BY <1>1 DEF Dated
  <2> QED
    BY <1>0, <1>4 DEF Dated
<1>6. TodaySum'
  <2> SUFFICES ASSUME NEW x, x = day + 1
               PROVE  SpentOn(x)' = 0
    BY <1>1 DEF TodaySum
  <2>0. IsFiniteSet({}) /\ IsFiniteSet(Cards) /\ \A f \in [{} -> Price] : CostSum(f) = 0
    BY FS_EmptySet, CostAdds DEF SpendConstants
  <2>1. /\ \A c \in Cards : {i \in Results(c) : log[c][i].day = x} = {}
        /\ {t \in DOMAIN turns : turns[t].day = x} = {}
    BY <1>0, <1>4 DEF Dated, Results
  <2>2. \A c \in Cards : CardSpentOn(c, x) = 0
    <3>1. \A c \in Cards : EventCost(c, {}) \in [{} -> Price]
      BY DEF EventCost
    <3> QED
      BY <2>0, <2>1, <3>1 DEF CardSpentOn
  <2>3. TurnsOn(x) = 0
    <3>1. [t \in {} |-> turns[t].cost] \in [{} -> Price]
      OBVIOUS
    <3>2. CostSum([t \in {} |-> turns[t].cost]) = 0
      BY <2>0, <3>1
    <3> QED
      BY <2>1, <3>2 DEF TurnsOn
  <2>4. SpentOn(x) = 0
    <3> DEFINE f == [c \in Cards |-> CardSpentOn(c, x)]
    <3>1. f \in [Cards -> Price] /\ \A c \in Cards : f[c] = 0
      BY <2>2 DEF Price
    <3> HIDE DEF f
    <3>2. CostSum(f) = 0
      BY <2>0, <3>1, CostOfNone
    <3>3. Plus(0, 0) = 0
      BY DEF Plus, NoPrice
    <3> QED
      BY <2>3, <3>2, <3>3 DEF SpentOn, f
  <2>5. SpentOn(x)' = SpentOn(x)
    <3>1. TurnsOn(x)' = TurnsOn(x)
      BY <1>1 DEF TurnsOn
    <3> QED
      BY <1>2, <3>1 DEF SpentOn
  <2> QED
    BY <2>4, <2>5
<1> QED
  BY <1>3, <1>5, <1>6 DEF Money

\* A restart: what the agents used since they last told of it is lost.
LEMMA MoneyRestart ==
  ASSUME Typed, Money, SpendConstants, Restart
  PROVE  Money'
<1>0. /\ Dated /\ DueIsPending /\ TodaySum /\ CardSums /\ UsageSums /\ day \in Nat
      /\ unheard \in BOOLEAN
  BY DEF Money, Typed
<1>1. UNCHANGED <<turns, day, paid, today>>
  BY DEF Restart
<1>2. unheard' = (unheard \/ \E d \in Cards : at[d] \in Roles)
  <2>1. CASE Cards = {}
    BY <2>1 DEF Restart
  <2>2. CASE Cards # {}
    <3>1. PICK c \in Cards : TRUE
      BY <2>2
    <3> QED
      BY <3>1, Restarted
  <2> QED
    BY <2>1, <2>2
<1>3. ASSUME NEW c \in Cards
      PROVE  /\ CardSpend(c)' = CardSpend(c) /\ UsageCost(c)' = UsageCost(c)
             /\ \A x : CardSpentOn(c, x)' = CardSpentOn(c, x)
             /\ due'[c] = 0 /\ Pending(c)' = 0
             /\ \A i \in DOMAIN log'[c] : \/ i \in DOMAIN log[c] /\ log'[c][i] = log[c][i]
                                         \/ log'[c][i].day = 0
  <2>0. PICK found \in BOOLEAN :
          /\ Orphaned(found) \in Seq(EventState) /\ log'[c] = log[c] \o Orphaned(found)
          /\ due'[c] = 0 /\ agent'[c] = NoAgent
    BY Restarted
  <2> DEFINE es == Orphaned(found)
  <2>1. es \in Seq(EventState) /\ log'[c] = log[c] \o es /\ due'[c] = 0 /\ agent'[c] = NoAgent
    BY <2>0
  <2>2. Quiet(es)
    BY QuietOnes DEF Kinds, Orphaned
  <2> HIDE DEF es
  <2>3. Pending(c)' = 0
    <3>1. <<>> \in [{} -> Price] /\ IsFiniteSet({})
      BY FS_EmptySet
    <3>2. CostSum(<<>>) = 0
      BY <3>1, CostAdds
    <3>3. agent'[c].pending = <<>>
      BY <2>1 DEF NoAgent
    <3> QED
      BY <3>2, <3>3 DEF Pending
  <2> QED
    BY <2>1, <2>2, <2>3, QuietCard
<1>4. \A x : SpentOn(x)' = SpentOn(x)
  <2>1. \A x : TurnsOn(x)' = TurnsOn(x)
    BY <1>1 DEF TurnsOn
  <2> QED
    BY <1>3, <2>1 DEF SpentOn
<1>5. ~unheard' => ~unheard /\ \A c \in Cards : due[c] = 0
  <2> SUFFICES ASSUME ~unheard', NEW c \in Cards
               PROVE  due[c] = 0
    BY <1>0, <1>2
  <2>1. agent[c].pending = <<>>
    BY <1>2 DEF Typed
  <2> QED
    BY <1>0, <2>1, PendingIs DEF DueIsPending
<1>6. Dated'
  BY <1>0, <1>1, <1>3 DEF Dated
<1>7. DueIsPending'
  BY <1>3 DEF DueIsPending
<1>8. TodaySum'
  BY <1>0, <1>1, <1>4, <1>5 DEF TodaySum
<1>9. \A c \in Cards : Total(c)' = Total(c)
  BY <1>1 DEF Total
<1>10. CardSums'
  BY <1>0, <1>3, <1>5, <1>9 DEF CardSums
<1>11. UsageSums'
  BY <1>0, <1>3, <1>9 DEF UsageSums
<1> QED
  BY <1>6, <1>7, <1>8, <1>10, <1>11 DEF Money

\* The money is counted as the board runs.
LEMMA MoneyStep ==
  ASSUME Typed, Money, SpendConstants, [Next]_vars
  PROVE  Typed' /\ Money'
<1>1. CASE UNCHANGED Asking
  <2>1. /\ \A c \in Cards : /\ CardSpend(c)' = CardSpend(c) /\ UsageCost(c)' = UsageCost(c)
                            /\ \A x : CardSpentOn(c, x)' = CardSpentOn(c, x)
        /\ UNCHANGED <<log, turns, day, agent, paid, due, today, unheard>>
    BY <1>1, OthersSpend DEF Asking, money
  <2>2. \A x : SpentOn(x)' = SpentOn(x)
    <3>1. \A x : TurnsOn(x)' = TurnsOn(x)
      BY <2>1 DEF TurnsOn
    <3> QED
      BY <2>1, <3>1 DEF SpentOn
  <2>3. /\ \A c \in Cards : Total(c)' = Total(c) /\ Pending(c)' = Pending(c)
    BY <2>1 DEF Total, Pending
  <2>4. Money'
    BY <2>1, <2>2, <2>3 DEF Money, Dated, DueIsPending, TodaySum, CardSums, UsageSums
  <2> QED
    BY <1>1, <2>4 DEF Asking, Typed, control, history, money
<1>2. ASSUME NEW c \in Cards, AgentNext(c)
      PROVE  Typed' /\ Money'
  BY <1>2, TypedAgent, MoneyAgent
<1>3. ASSUME NEW c \in Cards, RunNext(c)
      PROVE  Typed' /\ Money'
  <2>1. Typed'
    BY <1>3, TypedRun
  <2>2. UNCHANGED <<turns, day, agent, paid, due, today, unheard>>
    BY <1>3, RunsAreFree
  <2>3. PICK es \in Seq(EventState) : Writes(c, es) /\ Quiet(es)
    BY <1>3, RunsAreFree
  <2> QED
    BY <2>1, <2>2, <2>3, MoneyQuiet
<1>4. CASE Turn \/ Midnight \/ Restart
  BY <1>4, TypedBoard, MoneyTurn, MoneyMidnight, MoneyRestart
<1> QED
  BY <1>1, <1>2, <1>3, <1>4, NextIs

\* ... so it is always counted.
LEMMA MoneyAlways == Spec => [](Typed /\ Money)
<1>1. Init => Typed /\ Money
  BY SpendConstants, TypedInit, MoneyInit
<1>2. (Typed /\ Money) /\ [Next]_vars => (Typed /\ Money)'
  BY SpendConstants, MoneyStep
<1> QED
  BY <1>1, <1>2, PTL DEF Spec

\* Today's spend, as it is read back, is what was told of since midnight.
THEOREM TodayCounted == Spec => []TodayIsCounted
<1>1. Typed /\ Money => TodayIsCounted
  BY DEF Money, TodaySum, TodayIsCounted
<1> QED
  BY <1>1, MoneyAlways, PTL

\* What a card without an agent ever cost is what its results say, and its usage too where it is
\* known.
LEMMA TotalIsRead ==
  ASSUME Typed, Money, SpendConstants, ~unheard, NEW c \in Cards, due[c] = 0
  PROVE  /\ CardSpend(c) = Total(c)
         /\ Total(c) # NoPrice => UsageCost(c) = Total(c)
<1>1. Plus(CardSpend(c), 0) = Total(c) /\ CardSpend(c) \in Price
  BY SumsAre DEF Money, CardSums
<1> QED
  BY <1>1, PlusIs DEF Money, UsageSums

\* A run starts with Start, and in no other way.
LEMMA OnlyStart ==
  ASSUME Typed, NEW c \in Cards, ~Running(c), Running(c)', [Next]_vars
  PROVE  Start(c)
<1>0. at[c] = "idle" /\ at'[c] # "idle" /\ at \in [Cards -> Stages]
  BY DEF Running, Typed
<1>1. at' # at
  BY <1>0
<1>2. ~Turn /\ ~Midnight
  BY <1>1 DEF Turn, Midnight, control
<1>3. ~Restart
  BY <1>0 DEF Restart
<1>4. ASSUME NEW d \in Cards, AgentNext(d)
      PROVE  FALSE
  <2>1. /\ at[d] \in Roles
        /\ at' = at \/ \E to \in {"worked", "reviewed"} : at' = [at EXCEPT ![d] = to]
    BY <1>4 DEF AgentNext, Uses, Reports, Limited, Line, control, Finishes, Stalls, Dies, Capped,
                Exit, Goes
  <2> QED
    BY <1>0, <2>1 DEF Roles
<1>5. ASSUME NEW d \in Cards, RunNext(d), ~Start(d)
      PROVE  FALSE
  <2>1. CASE RefusedAtOnce(d)
    BY <1>1, <2>1 DEF RefusedAtOnce, control
  <2>2. CASE GoesOn(d)
    <3>1. at[d] # "idle" /\ \E to : at' = [at EXCEPT ![d] = to]
      BY <2>2 DEF GoesOn, Onward, Goes
    <3> QED
      BY <1>0, <3>1
  <2>3. CASE Ending(d)
    <3>1. at' = [at EXCEPT ![d] = "idle"]
      BY <2>3 DEF Ending, EndsOddly, Goes
    <3> QED
      BY <1>0, <3>1
  <2> QED
    BY <1>5, <2>1, <2>2, <2>3, RunSteps
<1>6. PICK d \in Cards : Start(d)
  BY <1>1, <1>2, <1>3, <1>4, <1>5, NextIs DEF Asking, control
<1>7. d = c
  BY <1>0, <1>6 DEF Start, Goes
<1> QED
  BY <1>6, <1>7

\* No start is let through once the spend of the day or of its card has reached its cap or is not
\* known, and none is made that was not let through.
THEOREM CapsHeld == Spec => CapsHold
<1>0. Typed /\ [Next]_vars =>
        [\A c \in Cards : ~Running(c) /\ Running(c)' => c \in LetThrough(cleared', cleared)]_vars
  BY OnlyStart DEF Start, Clears, LetThrough
<1>1. Typed /\ Money /\ [Next]_vars =>
        [\A c \in Cards : c \in LetThrough(cleared, cleared') /\ ~unheard => StartsWithin(c)]_vars
  <2> SUFFICES ASSUME Typed, Money, [Next]_vars,
                      NEW c \in Cards, c \in cleared' \ cleared, ~unheard
               PROVE  StartsWithin(c)
    BY DEF LetThrough
  <2>1. ~SpendRefused(c) /\ ~Running(c)
    BY OnlyAsk DEF Ask
  <2>2. SpentOn(day) = today
    BY DEF Money, TodaySum
  <2>3. due[c] = 0
    <3>1. at[c] \notin Roles
      BY <2>1 DEF Running, Roles
    <3>2. agent[c].pending = <<>>
      BY <3>1 DEF Typed
    <3> QED
      BY <3>2, PendingIs DEF Money, DueIsPending
  <2>4. CardSpend(c) = Total(c)
    BY <2>3, SpendConstants, TotalIsRead
  <2> QED
    BY <2>1, <2>2, <2>4 DEF SpendRefused, StartsWithin, Total
<1>2. Typed /\ Money /\ [Next]_vars =>
        [\A c \in Cards :
           /\ c \in LetThrough(cleared, cleared') /\ ~unheard => StartsWithin(c)
           /\ ~Running(c) /\ Running(c)' => c \in LetThrough(cleared', cleared)]_vars
  BY <1>0, <1>1
<1> QED
  BY <1>2, MoneyAlways, PTL DEF Spec, CapsHold

-----------------------------------------------------------------------------
(* last and first events *)

\* Among the images of finitely many things under a function there is a least one.
LEMMA LeastImage ==
  \A S : IsFiniteSet(S) /\ S # {} =>
    \A f \in [S -> SUBSET S] : \E x \in S : \A y \in S : f[y] \subseteq f[x] => f[y] = f[x]
<1> SUFFICES ASSUME NEW S, IsFiniteSet(S), S # {}, NEW f \in [S -> SUBSET S]
             PROVE  \E x \in S : \A y \in S : f[y] \subseteq f[x] => f[y] = f[x]
  OBVIOUS
<1> DEFINE U == {f[x] : x \in S}
<1>1. U \in SUBSET SUBSET S /\ U # {}
  OBVIOUS
<1>2. PICK u \in U : \A v \in U : v \subseteq u => v = u
  <2> HIDE DEF U
  <2> QED
    BY <1>1, LeastSubset
<1>3. PICK x \in S : u = f[x]
  OBVIOUS
<1> QED
  BY <1>2, <1>3

\* A finite set of numbers has a greatest one ...
LEMMA MaxIs ==
  ASSUME NEW S, IsFiniteSet(S), S \subseteq Int, S # {}
  PROVE  Max(S) \in S /\ \A y \in S : y <= Max(S)
<1> DEFINE f == [x \in S |-> {y \in S : x <= y}]
<1>1. PICK x \in S : \A y \in S : f[y] \subseteq f[x] => f[y] = f[x]
  <2>1. f \in [S -> SUBSET S]
    OBVIOUS
  <2> HIDE DEF f
  <2>2. \A g \in [S -> SUBSET S] : \E z \in S : \A y \in S : g[y] \subseteq g[z] => g[y] = g[z]
    BY LeastImage, Zenon
  <2> QED
    BY <2>1, <2>2, Zenon
<1>2. ASSUME NEW y \in S
      PROVE  y <= x
  <2> SUFFICES ASSUME ~(y <= x)
               PROVE  FALSE
    OBVIOUS
  <2>1. x \in Int /\ y \in Int /\ \A z \in S : z \in Int
    OBVIOUS
  <2>2. \A z : z \in f[y] => z \in f[x]
    BY <2>1
  <2>3. x \in f[x] /\ x \notin f[y]
    BY <2>1
  <2> HIDE DEF f
  <2> QED
    BY <1>1, <2>2, <2>3
<1>3. \E z \in S : \A y \in S : z >= y
  BY <1>2
<1>4. Max(S) \in S /\ \A y \in S : Max(S) >= y
  BY <1>3 DEF Max
<1> QED
  BY <1>4

\* ... and a least one ...
LEMMA MinIs ==
  ASSUME NEW S, IsFiniteSet(S), S \subseteq Int, S # {}
  PROVE  Min(S) \in S /\ \A y \in S : Min(S) <= y
<1> DEFINE f == [x \in S |-> {y \in S : y <= x}]
<1>1. PICK x \in S : \A y \in S : f[y] \subseteq f[x] => f[y] = f[x]
  <2>1. f \in [S -> SUBSET S]
    OBVIOUS
  <2> HIDE DEF f
  <2>2. \A g \in [S -> SUBSET S] : \E z \in S : \A y \in S : g[y] \subseteq g[z] => g[y] = g[z]
    BY LeastImage, Zenon
  <2> QED
    BY <2>1, <2>2, Zenon
<1>2. ASSUME NEW y \in S
      PROVE  x <= y
  <2> SUFFICES ASSUME ~(x <= y)
               PROVE  FALSE
    OBVIOUS
  <2>1. x \in Int /\ y \in Int /\ \A z \in S : z \in Int
    OBVIOUS
  <2>2. \A z : z \in f[y] => z \in f[x]
    BY <2>1
  <2>3. x \in f[x] /\ x \notin f[y]
    BY <2>1
  <2> HIDE DEF f
  <2> QED
    BY <1>1, <2>2, <2>3
<1>3. \E z \in S : \A y \in S : z <= y
  BY <1>2
<1> QED
  BY <1>3 DEF Min

\* ... and no other is the greatest, or the least.
LEMMA ExtremeIs ==
  ASSUME NEW S, IsFiniteSet(S), S \subseteq Int, NEW x \in S
  PROVE  /\ (\A y \in S : y <= x) => Max(S) = x
         /\ (\A y \in S : x <= y) => Min(S) = x
<1>1. /\ Max(S) \in S /\ \A y \in S : y <= Max(S)
      /\ Min(S) \in S /\ \A y \in S : Min(S) <= y
  BY MaxIs, MinIs
<1>2. x \in Int /\ Max(S) \in Int /\ Min(S) \in Int
  BY <1>1
<1>3. ASSUME \A y \in S : y <= x
      PROVE  Max(S) = x
  <2>1. Max(S) <= x /\ x <= Max(S)
    BY <1>1, <1>3
  <2> QED
    BY <1>2, <2>1
<1>4. ASSUME \A y \in S : x <= y
      PROVE  Min(S) = x
  <2>1. x <= Min(S) /\ Min(S) <= x
    BY <1>1, <1>4
  <2> QED
    BY <1>2, <2>1
<1> QED
  BY <1>3, <1>4

\* A log has finitely many events, each at a number; one event more is at the next one.
LEMMA IndicesOf ==
  ASSUME NEW q \in Seq(EventState)
  PROVE  DOMAIN q \subseteq Int /\ IsFiniteSet(DOMAIN q) /\ \A i \in DOMAIN q : q[i] \in EventState
<1>1. DOMAIN q = 1..Len(q) /\ Len(q) \in Nat
  OBVIOUS
<1>2. 1 \in Int /\ Len(q) \in Int
  BY <1>1
<1>3. \A i \in DOMAIN q : q[i] \in EventState
  <2> DEFINE R == EventState
  <2>1. q \in Seq(R)
    OBVIOUS
  <2> HIDE DEF R
  <2>2. \A i \in DOMAIN q : q[i] \in R
    BY <2>1
  <2> QED
    BY <2>2 DEF R
<1> QED
  BY <1>1, <1>2, <1>3, FS_Interval

\* The next event of a log is one later than all before.
LEMMA OneLonger ==
  ASSUME NEW q \in Seq(EventState), NEW e \in EventState, NEW p, p = Append(q, e)
  PROVE  /\ Len(q) \in Nat /\ p \in Seq(EventState) /\ DOMAIN q = 1..Len(q)
         /\ DOMAIN p = 1..(Len(q) + 1) /\ Len(p) = Len(q) + 1 /\ p[Len(q) + 1] = e
         /\ \A i \in 1..Len(q) : p[i] = q[i]
         /\ p = q \o <<e>>
<1> DEFINE R == EventState
<1>1. q \in Seq(R) /\ e \in R
  OBVIOUS
<1> HIDE DEF R
<1>2. /\ Len(q) \in Nat /\ p \in Seq(R) /\ DOMAIN q = 1..Len(q) /\ Len(p) = Len(q) + 1
      /\ p[Len(q) + 1] = e /\ \A i \in 1..Len(q) : p[i] = q[i]
  BY <1>1, AppendProperties, LenProperties
<1>3. DOMAIN p = 1..(Len(q) + 1)
  BY <1>2, LenProperties
<1>4. p = q \o <<e>>
  BY <1>1, AppendIsConcat
<1> QED
  BY <1>2, <1>3, <1>4 DEF R

-----------------------------------------------------------------------------
(* whose result it is *)

\* The kinds that tell the worker's time from the reviewer's
Marking == {"test_gate", "lifecycle_started", "fix_round"}
\* Whose a result of a log is, by what came before it in the whole log
RoleAt(q, i) ==
  LET marks == {j \in DOMAIN q : q[j].kind \in Marking /\ j < i} IN
  IF marks # {} /\ q[Max(marks)].kind = "test_gate" THEN "reviewer" ELSE "worker"

\* ... and whose the next one would be
RoleNext(q) == RoleAt(q, Len(q) + 1)

\* The last mark before an event says whose it is.
LEMMA RoleAtIs ==
  ASSUME NEW q \in Seq(EventState), NEW i \in Int
  PROVE  /\ RoleAt(q, i) \in Roles
         /\ (\A j \in DOMAIN q : j < i => q[j].kind \notin Marking) => RoleAt(q, i) = "worker"
         /\ \A m \in DOMAIN q :
              /\ m < i /\ q[m].kind \in Marking
              /\ \A j \in DOMAIN q : m < j /\ j < i => q[j].kind \notin Marking
              => RoleAt(q, i) = IF q[m].kind = "test_gate" THEN "reviewer" ELSE "worker"
<1> DEFINE marks == {j \in DOMAIN q : q[j].kind \in Marking /\ j < i}
<1>1. RoleAt(q, i) = IF marks # {} /\ q[Max(marks)].kind = "test_gate"
                     THEN "reviewer" ELSE "worker"
  BY DEF RoleAt
<1>2. DOMAIN q \subseteq Int /\ IsFiniteSet(DOMAIN q)
  BY IndicesOf
<1>3. marks \subseteq Int /\ IsFiniteSet(marks)
  BY <1>2, FS_Subset
<1>4. \A j : j \in marks <=> j \in DOMAIN q /\ q[j].kind \in Marking /\ j < i
  OBVIOUS
<1> HIDE DEF marks
<1>5. RoleAt(q, i) \in Roles
  BY <1>1 DEF Roles
<1>6. ASSUME \A j \in DOMAIN q : j < i => q[j].kind \notin Marking
      PROVE  RoleAt(q, i) = "worker"
  <2>1. marks = {}
    BY <1>4, <1>6
  <2> QED
    BY <1>1, <2>1
<1>7. ASSUME NEW m \in DOMAIN q, m < i, q[m].kind \in Marking,
             \A j \in DOMAIN q : m < j /\ j < i => q[j].kind \notin Marking
      PROVE  RoleAt(q, i) = IF q[m].kind = "test_gate" THEN "reviewer" ELSE "worker"
  <2>1. m \in marks /\ \A j \in marks : ~(m < j)
    BY <1>4, <1>7
  <2>2. \A j \in marks : j <= m
    <3>1. \A j \in marks : j \in Int
      BY <1>3
    <3> QED
      BY <2>1, <3>1
  <2>3. Max(marks) = m
    BY <1>3, <2>1, <2>2, ExtremeIs
  <2> QED
    BY <1>1, <2>1, <2>3
<1> QED
  BY <1>5, <1>6, <1>7

\* There is a last mark, or none.
LEMMA LastMark ==
  ASSUME NEW q \in Seq(EventState), NEW i \in Int
  PROVE  \/ \A j \in DOMAIN q : j < i => q[j].kind \notin Marking
         \/ \E m \in DOMAIN q :
              /\ m < i /\ q[m].kind \in Marking
              /\ \A j \in DOMAIN q : m < j /\ j < i => q[j].kind \notin Marking
<1> DEFINE marks == {j \in DOMAIN q : q[j].kind \in Marking /\ j < i}
<1>1. DOMAIN q \subseteq Int /\ IsFiniteSet(DOMAIN q)
  BY IndicesOf
<1>2. marks \subseteq Int /\ IsFiniteSet(marks)
  BY <1>1, FS_Subset
<1>3. CASE marks = {}
  BY <1>3
<1>4. CASE marks # {}
  <2> DEFINE m == Max(marks)
  <2>1. m \in marks /\ \A j \in marks : j <= m
    <3> HIDE DEF marks
    <3> QED
      BY <1>2, <1>4, MaxIs
  <2> HIDE DEF m
  <2>2. \A j \in DOMAIN q : m < j /\ j < i => q[j].kind \notin Marking
    <3>1. \A j \in marks : ~(m < j)
      BY <1>2, <2>1
    <3> QED
      BY <3>1
  <2> QED
    BY <2>1, <2>2
<1> QED
  BY <1>3, <1>4

\* What is written later does not change whose a result was; a mark changes whose the next is.
LEMMA RoleKept ==
  ASSUME NEW q \in Seq(EventState), NEW e \in EventState, NEW p, p = Append(q, e)
  PROVE  /\ \A i \in 1..(Len(q) + 1) : RoleAt(p, i) = RoleAt(q, i)
         /\ e.kind \notin Marking => RoleNext(p) = RoleNext(q)
         /\ e.kind \in Marking =>
              RoleNext(p) = IF e.kind = "test_gate" THEN "reviewer" ELSE "worker"
<1> DEFINE n == Len(q)
<1>1. /\ n \in Nat /\ p \in Seq(EventState) /\ DOMAIN q = 1..n /\ DOMAIN p = 1..(n + 1)
      /\ Len(p) = n + 1 /\ p[n + 1] = e /\ \A i \in 1..n : p[i] = q[i]
  BY OneLonger
<1> HIDE DEF n
<1>2. ASSUME NEW i \in 1..(n + 1), NEW k \in {i, i + 1},
             k = i \/ (i = n + 1 /\ e.kind \notin Marking)
      PROVE  RoleAt(p, k) = RoleAt(q, i)
  <2>0. i \in Int /\ k \in Int
    BY <1>1
  <2>1. \A j \in DOMAIN p : j < k /\ p[j].kind \in Marking =>
          j \in DOMAIN q /\ j < i /\ q[j].kind \in Marking
    BY <1>1, <1>2
  <2>2. \A j \in DOMAIN q : j \in DOMAIN p /\ p[j] = q[j] /\ (j < i => j < k)
    BY <1>1
  <2>3. CASE \A j \in DOMAIN q : j < i => q[j].kind \notin Marking
    <3>1. RoleAt(q, i) = "worker"
      BY <2>0, <2>3, RoleAtIs
    <3>2. \A j \in DOMAIN p : j < k => p[j].kind \notin Marking
      BY <2>1, <2>3
    <3> QED
      BY <1>1, <2>0, <3>1, <3>2, RoleAtIs
  <2>4. ASSUME NEW m \in DOMAIN q, m < i, q[m].kind \in Marking,
               \A j \in DOMAIN q : m < j /\ j < i => q[j].kind \notin Marking
        PROVE  RoleAt(p, k) = RoleAt(q, i)
    <3>1. RoleAt(q, i) = IF q[m].kind = "test_gate" THEN "reviewer" ELSE "worker"
      BY <2>0, <2>4, RoleAtIs
    <3>2. m \in DOMAIN p /\ m < k /\ p[m].kind \in Marking /\ p[m] = q[m]
      BY <2>2, <2>4
    <3>3. \A j \in DOMAIN p : m < j /\ j < k => p[j].kind \notin Marking
      BY <2>1, <2>4
    <3>4. RoleAt(p, k) = IF p[m].kind = "test_gate" THEN "reviewer" ELSE "worker"
      BY <1>1, <2>0, <3>2, <3>3, RoleAtIs
    <3> QED
      BY <3>1, <3>2, <3>4
  <2> QED
    BY <2>0, <2>3, <2>4, LastMark
<1>3. \A i \in 1..(n + 1) : RoleAt(p, i) = RoleAt(q, i)
  BY <1>2
<1>4. ASSUME e.kind \notin Marking
      PROVE  RoleNext(p) = RoleNext(q)
  <2>1. n + 1 \in 1..(n + 1) /\ n + 2 = (n + 1) + 1 /\ Len(p) + 1 = n + 2
    BY <1>1
  <2>2. RoleAt(p, n + 2) = RoleAt(q, n + 1)
    BY <1>2, <1>4, <2>1
  <2> QED
    BY <2>1, <2>2 DEF RoleNext, n
<1>5. ASSUME e.kind \in Marking
      PROVE  RoleNext(p) = IF e.kind = "test_gate" THEN "reviewer" ELSE "worker"
  <2>1. n + 1 \in DOMAIN p /\ n + 1 < n + 2 /\ n + 2 \in Int /\ Len(p) + 1 = n + 2
    BY <1>1
  <2>2. \A j \in DOMAIN p : n + 1 < j /\ j < n + 2 => p[j].kind \notin Marking
    BY <1>1
  <2>3. p[n + 1].kind \in Marking
    BY <1>1, <1>5
  <2>4. RoleAt(p, n + 2) = IF p[n + 1].kind = "test_gate" THEN "reviewer" ELSE "worker"
    BY <1>1, <2>1, <2>2, <2>3, RoleAtIs
  <2> QED
    BY <1>1, <2>1, <2>4 DEF RoleNext
<1> QED
  BY <1>3, <1>4, <1>5 DEF n

-----------------------------------------------------------------------------
(* what a log tells of its results *)

\* What _result_role looks for after a result, and the start of the next attempt
Answers == {"result", "worker_summary", "review_gate", "lifecycle_started"}
\* A result that nothing was written about yet
Unanswered(q, i) == q[i].kind = "result" /\ \A j \in DOMAIN q : i < j => q[j].kind \notin Answers

\* Who is at work as far as the log goes: the reviewer or the worker, whom a run that begins
\* goes on to; none; or the run is over
Phases == Roles \cup {"begun", "none", "over"}

\* A result that says whose it is says what came before it.
Said(q) == \A i \in DOMAIN q :
  q[i].kind = "result" /\ q[i].role # "unsaid" => q[i].role = RoleAt(q, i)

\* So does the summary or the gate that follows a result.
Followed(q) == \A i, j \in DOMAIN q :
  /\ i < j /\ q[i].kind = "result" /\ q[j].kind \in {"worker_summary", "review_gate"}
  /\ \A k \in DOMAIN q : i < k /\ k < j => q[k].kind \notin Answers
  => RoleAt(q, i) = IF q[j].kind = "worker_summary" THEN "worker" ELSE "reviewer"

\* A log begins with a start, and what it tells last fits who is at work.
Fits(q, phase) ==
  /\ q # <<>> => q[1].kind = "lifecycle_started"
  /\ q = <<>> => phase = "over"
  /\ phase \in {"begun", "worker"} => RoleNext(q) = "worker"
  /\ phase = "reviewer" => RoleNext(q) = "reviewer"
  /\ \A i \in DOMAIN q : Unanswered(q, i) => phase = "over" \/ RoleAt(q, i) = phase

\* All of it
TellsRoles(q, phase) == Said(q) /\ Followed(q) /\ Fits(q, phase)

\* What may be written next, and who is at work then
Follows(e, phase, next) ==
  \/ e.kind = "lifecycle_started" /\ phase = "over" /\ next = "begun"
  \/ e.kind = "result" /\ phase \in Roles /\ next = phase /\ e.role \in {"unsaid", phase}
  \/ e.kind \notin Answers \cup Marking /\ next = phase
  \/ e.kind \notin Answers \cup Marking /\ phase = "begun" /\ next = "none"
  \/ e.kind = "worker_summary" /\ phase = "worker" /\ next = "none"
  \/ e.kind = "review_gate" /\ phase = "reviewer" /\ next = "none"
  \/ e.kind = "fix_round" /\ phase = "none" /\ next = "worker"
  \/ e.kind = "test_gate" /\ phase = "none" /\ next \in {"none", "reviewer"}

\* Each event that may follow keeps what the log tells true.
LEMMA RolesFollow ==
  ASSUME NEW q \in Seq(EventState), NEW e \in EventState, NEW p, p = Append(q, e),
         NEW phase \in Phases, NEW next \in Phases, TellsRoles(q, phase),
         Follows(e, phase, next), q # <<>> \/ e.kind = "lifecycle_started"
  PROVE  TellsRoles(p, next)
<1> DEFINE n == Len(q)
<1>1. /\ n \in Nat /\ p \in Seq(EventState) /\ DOMAIN q = 1..n /\ DOMAIN p = 1..(n + 1)
      /\ Len(p) = n + 1 /\ p[n + 1] = e /\ \A i \in 1..n : p[i] = q[i]
  BY OneLonger
<1>2. /\ \A i \in 1..(n + 1) : RoleAt(p, i) = RoleAt(q, i)
      /\ e.kind \notin Marking => RoleNext(p) = RoleNext(q)
      /\ e.kind \in Marking =>
           RoleNext(p) = IF e.kind = "test_gate" THEN "reviewer" ELSE "worker"
  BY RoleKept
<1>3. RoleAt(q, n + 1) = RoleNext(q)
  BY DEF RoleNext
<1>4. \A i \in 1..n : RoleAt(q, i) \in Roles
  <2>1. \A i \in 1..n : i \in Int
    BY <1>1
  <2> QED
    BY <2>1, RoleAtIs
<1>5. \A i \in 1..(n + 1) : i \in Int /\ (i \in 1..n \/ i = n + 1)
  BY <1>1
<1>6. \A i \in 1..n : i < n + 1 /\ i # n + 1
  BY <1>1
<1>7. Said(q) /\ Followed(q) /\ Fits(q, phase)
  BY DEF TellsRoles
<1>8. q = <<>> <=> n = 0
  BY EmptySeq
<1> HIDE DEF n
<1>9. e.kind = "result" => phase \in Roles /\ next = phase /\ RoleNext(q) = phase
                          /\ e.role \in {"unsaid", phase}
  BY <1>7 DEF Follows, Fits, Answers, Marking, Roles
<1>10. Said(p)
  <2> SUFFICES ASSUME NEW i \in 1..(n + 1), p[i].kind = "result", p[i].role # "unsaid"
               PROVE  p[i].role = RoleAt(p, i)
    BY <1>1 DEF Said
  <2>1. CASE i \in 1..n
    BY <1>1, <1>2, <1>7, <2>1 DEF Said
  <2>2. CASE i = n + 1
    BY <1>1, <1>2, <1>3, <1>9, <2>2
  <2> QED
    BY <1>5, <2>1, <2>2
<1>11. \A i \in 1..n : (\A j \in 1..(n + 1) : i < j /\ j < n + 1 => p[j].kind \notin Answers)
                       /\ p[i].kind = "result" => Unanswered(q, i)
  BY <1>1, <1>6 DEF Unanswered
<1>12. Followed(p)
  <2> SUFFICES ASSUME NEW i \in 1..(n + 1), NEW j \in 1..(n + 1), i < j, p[i].kind = "result",
                      p[j].kind \in {"worker_summary", "review_gate"},
                      \A k \in 1..(n + 1) : i < k /\ k < j => p[k].kind \notin Answers
               PROVE  RoleAt(p, i) = IF p[j].kind = "worker_summary" THEN "worker" ELSE "reviewer"
    BY <1>1 DEF Followed
  <2>1. i \in 1..n
    BY <1>1
  <2>2. CASE j \in 1..n
    <3>1. \A k \in 1..n : i < k /\ k < j => q[k].kind \notin Answers
      BY <1>1, <1>5
    <3>2. p[i] = q[i] /\ p[j] = q[j] /\ RoleAt(p, i) = RoleAt(q, i)
      BY <1>1, <1>2, <2>1, <2>2
    <3>3. DOMAIN q = 1..n
      BY <1>1
    <3> QED
      BY <1>7, <2>1, <2>2, <3>1, <3>2, <3>3 DEF Followed
  <2>3. CASE j = n + 1
    <3>1. Unanswered(q, i)
      BY <1>11, <2>1, <2>3
    <3>2. phase = "over" \/ RoleAt(q, i) = phase
      BY <1>1, <1>7, <2>1, <3>1 DEF Fits
    <3>3. p[j] = e
      BY <1>1, <2>3
    <3>4. \/ e.kind = "worker_summary" /\ phase = "worker"
          \/ e.kind = "review_gate" /\ phase = "reviewer"
      BY <3>3 DEF Follows, Answers, Marking
    <3> QED
      BY <1>2, <2>1, <3>2, <3>3, <3>4
  <2> QED
    BY <1>5, <2>2, <2>3
<1>13. ASSUME NEW i \in 1..(n + 1), Unanswered(p, i)
       PROVE  next = "over" \/ RoleAt(p, i) = next
  <2>1. CASE i = n + 1
    BY <1>1, <1>2, <1>3, <1>9, <1>13, <2>1 DEF Unanswered
  <2>2. CASE i \in 1..n
    <3>1. e.kind \notin Answers /\ p[i].kind = "result"
      BY <1>1, <1>5, <1>6, <1>13, <2>2 DEF Unanswered
    <3>2. Unanswered(q, i)
      <4>1. \A j \in 1..(n + 1) : i < j => p[j].kind \notin Answers
        BY <1>1, <1>13 DEF Unanswered
      <4> QED
        BY <1>11, <2>2, <3>1, <4>1
    <3>3. phase = "over" \/ RoleAt(q, i) = phase
      BY <1>1, <1>7, <2>2, <3>2 DEF Fits
    <3>4. RoleAt(q, i) \in Roles /\ RoleAt(p, i) = RoleAt(q, i)
      BY <1>2, <1>4, <1>5, <2>2
    <3>5. phase # "none" /\ phase # "begun"
      BY <3>3, <3>4 DEF Roles
    <3>6. next = phase
      BY <3>1, <3>5 DEF Follows, Answers
    <3> QED
      BY <3>3, <3>4, <3>6
  <2> QED
    BY <1>5, <2>1, <2>2
<1>14. /\ next \in {"begun", "worker"} => RoleNext(p) = "worker"
       /\ next = "reviewer" => RoleNext(p) = "reviewer"
  <2>1. CASE e.kind \notin Marking
    <3>1. /\ phase \in {"begun", "worker"} => RoleNext(p) = "worker"
          /\ phase = "reviewer" => RoleNext(p) = "reviewer"
      BY <1>2, <1>7, <2>1 DEF Fits
    <3>2. next = phase \/ next = "none"
      BY <2>1 DEF Follows, Marking
    <3> QED
      BY <3>1, <3>2
  <2>2. CASE e.kind \in Marking
    <3>1. RoleNext(p) = IF e.kind = "test_gate" THEN "reviewer" ELSE "worker"
      BY <1>2, <2>2
    <3>2. \/ e.kind # "test_gate" /\ next \in {"begun", "worker"}
          \/ e.kind = "test_gate" /\ next \in {"none", "reviewer"}
      BY <2>2 DEF Follows, Marking, Answers
    <3> QED
      BY <3>1, <3>2
  <2> QED
    BY <2>1, <2>2
<1>15. p # <<>> /\ p[1].kind = "lifecycle_started"
  <2>1. CASE n = 0
    BY <1>1, <1>8, <2>1
  <2>2. CASE n # 0
    <3>1. 1 \in 1..n
      BY <1>1, <2>2
    <3> QED
      BY <1>1, <1>7, <1>8, <2>2, <3>1 DEF Fits
  <2> QED
    BY <2>1, <2>2
<1>16. Fits(p, next)
  BY <1>1, <1>13, <1>14, <1>15 DEF Fits
<1> QED
  BY <1>10, <1>12, <1>16 DEF TellsRoles

\* A run may go on to its worker, or be over, without a word.
LEMMA RolesSilent ==
  ASSUME NEW q \in Seq(EventState), NEW phase \in Phases, TellsRoles(q, phase)
  PROVE  /\ TellsRoles(q, "over")
         /\ phase = "begun" => TellsRoles(q, "worker")
<1>1. ASSUME phase = "begun", NEW i \in DOMAIN q, Unanswered(q, i)
      PROVE  FALSE
  <2>1. RoleAt(q, i) = phase
    BY <1>1 DEF TellsRoles, Fits
  <2>2. i \in Int
    BY IndicesOf
  <2> QED
    BY <1>1, <2>1, <2>2, RoleAtIs DEF Roles
<1> QED
  BY <1>1 DEF TellsRoles, Fits

\* Who is at work, by how far the run is
PhaseOf(stage) ==
  CASE stage \in {"worker", "worked"} -> "worker"
    [] stage \in {"reviewer", "reviewed"} -> "reviewer"
    [] stage = "begun" -> "begun"
    [] stage = "idle" -> "over"
    [] stage \in {"tests", "opening"} -> "none"

\* Every log tells whose its results are, and has a start where an attempt ended.
RolesTold == \A c \in Cards : /\ TellsRoles(log[c], PhaseOf(at[c]))
                              /\ ends[c] # <<>> => log[c] # <<>>

\* The phase of each stage
LEMMA PhaseIs ==
  /\ PhaseOf("worker") = "worker" /\ PhaseOf("worked") = "worker"
  /\ PhaseOf("reviewer") = "reviewer" /\ PhaseOf("reviewed") = "reviewer"
  /\ PhaseOf("begun") = "begun" /\ PhaseOf("idle") = "over"
  /\ PhaseOf("tests") = "none" /\ PhaseOf("opening") = "none"
  /\ \A stage \in Stages : PhaseOf(stage) \in Phases
<1>1. PhaseOf("worker") = "worker" /\ PhaseOf("worked") = "worker"
  BY DEF PhaseOf
<1>2. PhaseOf("reviewer") = "reviewer" /\ PhaseOf("reviewed") = "reviewer"
  BY DEF PhaseOf
<1>3. PhaseOf("begun") = "begun" /\ PhaseOf("idle") = "over"
  BY DEF PhaseOf
<1>4. PhaseOf("tests") = "none" /\ PhaseOf("opening") = "none"
  BY DEF PhaseOf
<1> QED
  BY <1>1, <1>2, <1>3, <1>4 DEF Stages, Phases, Roles

\* One event or two
LEMMA TellsOne ==
  ASSUME NEW q \in Seq(EventState), NEW e \in EventState, NEW phase \in Phases,
         NEW next \in Phases, TellsRoles(q, phase), Follows(e, phase, next),
         q # <<>> \/ e.kind = "lifecycle_started"
  PROVE  TellsRoles(q \o <<e>>, next) /\ q \o <<e>> # <<>> /\ q \o <<e>> \in Seq(EventState)
<1> DEFINE p == Append(q, e)
<1>1. p \in Seq(EventState) /\ p = q \o <<e>> /\ Len(p) = Len(q) + 1 /\ Len(q) \in Nat
  BY OneLonger
<1>2. p # <<>>
  BY <1>1, EmptySeq
<1>3. TellsRoles(p, next)
  BY RolesFollow
<1> QED
  BY <1>1, <1>2, <1>3

\* ... one after the other
LEMMA TellsTwo ==
  ASSUME NEW q \in Seq(EventState), NEW e \in EventState, NEW f \in EventState,
         NEW phase \in Phases, NEW mid \in Phases, NEW next \in Phases, TellsRoles(q, phase),
         Follows(e, phase, mid), Follows(f, mid, next), q # <<>>
  PROVE  TellsRoles(q \o <<e, f>>, next) /\ q \o <<e, f>> # <<>>
<1> DEFINE p == q \o <<e>>
<1>1. TellsRoles(p, mid) /\ p # <<>> /\ p \in Seq(EventState)
  BY TellsOne
<1>2. q \o <<e, f>> = p \o <<f>>
  <2> DEFINE R == EventState
  <2>1. q \in Seq(R) /\ e \in R /\ f \in R
    OBVIOUS
  <2> HIDE DEF R
  <2>2. <<e>> \in Seq(R) /\ <<f>> \in Seq(R) /\ <<e>> \o <<f>> = <<e, f>>
    BY <2>1, InARow
  <2>3. (q \o <<e>>) \o <<f>> = q \o (<<e>> \o <<f>>)
    BY <2>1, <2>2, ConcatAssociative
  <2> QED
    BY <2>2, <2>3
<1> HIDE DEF p
<1> QED
  BY <1>1, <1>2, TellsOne

\* The kinds of what is written, and that it is an event
LEMMA EventIs ==
  \A kind \in Kinds, why \in Whys :
    Event(kind, why) \in EventState /\ Event(kind, why).kind = kind
BY EventTypes DEF Event

\* A run that goes on tells whose its results are.
LEMMA OnwardTells ==
  ASSUME NEW c \in Cards, NEW to \in Stages, NEW es, NEW off, Onward(c, to, es, off),
         NEW q \in Seq(EventState), TellsRoles(q, PhaseOf(at[c])), q # <<>>
  PROVE  TellsRoles(q \o es, PhaseOf(to))
<1>0. /\ "worker_skipped" \in Kinds /\ "worker_summary" \in Kinds /\ "test_gate" \in Kinds
      /\ "review_gate" \in Kinds /\ "review_reused" \in Kinds /\ "fix_round" \in Kinds
      /\ "none" \in Whys /\ "approved" \in Whys /\ "REVIEW_REJECTED" \in Whys
      /\ {"worker", "reviewer", "begun", "none", "over"} \subseteq Phases
  BY DEF Kinds, Whys, Phases, Roles
<1>1. CASE at[c] = "begun" /\ to = "worker" /\ es = <<>>
  <2>1. q \o <<>> = q
    OBVIOUS
  <2> QED
    BY <1>0, <1>1, <2>1, PhaseIs, RolesSilent
<1>2. CASE at[c] = "begun" /\ to = "tests" /\ es = <<Event("worker_skipped", "none")>>
  <2>1. Event("worker_skipped", "none") \in EventState
    BY <1>0, EventIs
  <2>2. Follows(Event("worker_skipped", "none"), "begun", "none")
    BY <1>0, EventIs DEF Follows, Answers, Marking
  <2> QED
    BY <1>0, <1>2, <2>1, <2>2, PhaseIs, TellsOne
<1>3. CASE at[c] = "worked" /\ to = "tests" /\ es = <<Event("worker_summary", "none")>>
  <2>1. Event("worker_summary", "none") \in EventState
    BY <1>0, EventIs
  <2>2. Follows(Event("worker_summary", "none"), "worker", "none")
    BY <1>0, EventIs DEF Follows
  <2> QED
    BY <1>0, <1>3, <2>1, <2>2, PhaseIs, TellsOne
<1>4. CASE /\ at[c] = "tests" /\ to = "opening"
           /\ es = <<Event("test_gate", "none"), Event("review_reused", "none")>>
  <2>1. Event("test_gate", "none") \in EventState /\ Event("review_reused", "none") \in EventState
    BY <1>0, EventIs
  <2>2. /\ Follows(Event("test_gate", "none"), "none", "none")
        /\ Follows(Event("review_reused", "none"), "none", "none")
    BY <1>0, EventIs DEF Follows, Answers, Marking
  <2> QED
    BY <1>0, <1>4, <2>1, <2>2, PhaseIs, TellsTwo
<1>5. CASE at[c] = "tests" /\ to = "reviewer" /\ es = <<Event("test_gate", "none")>>
  <2>1. Event("test_gate", "none") \in EventState
    BY <1>0, EventIs
  <2>2. Follows(Event("test_gate", "none"), "none", "reviewer")
    BY <1>0, EventIs DEF Follows
  <2> QED
    BY <1>0, <1>5, <2>1, <2>2, PhaseIs, TellsOne
<1>6. CASE /\ at[c] \in {"reviewer", "reviewed"} /\ to = "opening"
           /\ es = <<Event("review_gate", "approved")>>
  <2>1. Event("review_gate", "approved") \in EventState
    BY <1>0, EventIs
  <2>2. Follows(Event("review_gate", "approved"), "reviewer", "none")
    BY <1>0, EventIs DEF Follows
  <2> QED
    BY <1>0, <1>6, <2>1, <2>2, PhaseIs, TellsOne
<1>7. CASE /\ at[c] = "reviewed" /\ to = "worker"
           /\ es = <<Event("review_gate", "REVIEW_REJECTED"), Event("fix_round", "none")>>
  <2>1. /\ Event("review_gate", "REVIEW_REJECTED") \in EventState
        /\ Event("fix_round", "none") \in EventState
    BY <1>0, EventIs
  <2>2. /\ Follows(Event("review_gate", "REVIEW_REJECTED"), "reviewer", "none")
        /\ Follows(Event("fix_round", "none"), "none", "worker")
    BY <1>0, EventIs DEF Follows
  <2> QED
    BY <1>0, <1>7, <2>1, <2>2, PhaseIs, TellsTwo
<1> QED
  BY <1>1, <1>2, <1>3, <1>4, <1>5, <1>6, <1>7 DEF Onward

\* So does one that ends.
LEMMA EndingTells ==
  ASSUME NEW c \in Cards, at[c] \in Stages, NEW how, NEW odd, NEW es \in Seq(EventState),
         \/ Marked(c, how, es)
         \/ Reasoned(c, how, odd, es)
         \/ Rejected(c, how, odd, es)
         \/ FailedAs(c, how, odd, es)
         \/ odd /\ es = <<>>,
         NEW q \in Seq(EventState), TellsRoles(q, PhaseOf(at[c])), q # <<>>
  PROVE  TellsRoles(q \o es, "over") /\ q \o es # <<>>
<1>0. /\ "worker_summary" \in Kinds /\ "test_gate" \in Kinds /\ "review_gate" \in Kinds
      /\ "base_red" \in Kinds /\ "none" \in Whys /\ "failed" \in Whys
      /\ "REVIEW_REJECTED" \in Whys
      /\ {"worker", "reviewer", "begun", "none", "over"} \subseteq Phases
      /\ EndKinds \subseteq Kinds /\ PhaseOf(at[c]) \in Phases
  BY PhaseIs DEF Kinds, Whys, Phases, Roles, EndKinds
<1>1. ASSUME NEW next \in Phases, TellsRoles(q \o es, next), q \o es \in Seq(EventState)
      PROVE  TellsRoles(q \o es, "over")
  BY <1>1, RolesSilent
<1>2. q \o es \in Seq(EventState)
  OBVIOUS
<1>3. /\ Follows(Event("worker_summary", "none"), "worker", "none")
      /\ \A says \in Whys : Follows(Event("review_gate", says), "reviewer", "none")
      /\ \A says \in Whys : Follows(Event("test_gate", says), "none", "none")
      /\ Follows(Event("base_red", "none"), "none", "none")
      /\ \A kind \in EndKinds, phase \in Phases : Follows(Event(kind, "none"), phase, phase)
  <2>1. \A kind \in EndKinds, phase \in Phases : Follows(Event(kind, "none"), phase, phase)
    <3> SUFFICES ASSUME NEW kind \in EndKinds, NEW phase \in Phases
                 PROVE  Follows(Event(kind, "none"), phase, phase)
      OBVIOUS
    <3>1. Event(kind, "none").kind = kind
      BY <1>0, EventIs
    <3>2. kind \notin Answers \cup Marking
      BY DEF EndKinds, Answers, Marking
    <3> QED
      BY <3>1, <3>2 DEF Follows
  <2>2. Follows(Event("base_red", "none"), "none", "none")
    BY <1>0, EventIs DEF Follows, Answers, Marking
  <2>3. Follows(Event("worker_summary", "none"), "worker", "none")
    BY <1>0, EventIs DEF Follows
  <2>4. \A says \in Whys : /\ Follows(Event("review_gate", says), "reviewer", "none")
                           /\ Follows(Event("test_gate", says), "none", "none")
    BY <1>0, EventIs DEF Follows
  <2> QED
    BY <2>1, <2>2, <2>3, <2>4
<1>4. ASSUME es = <<>>
      PROVE  TellsRoles(q \o es, "over") /\ q \o es # <<>>
  <2>1. q \o es = q
    BY <1>4
  <2> QED
    BY <1>0, <1>1, <1>2, <2>1
<1>5. ASSUME NEW e \in EventState, es = <<e>>, NEW next \in Phases,
             Follows(e, PhaseOf(at[c]), next)
      PROVE  TellsRoles(q \o es, "over") /\ q \o es # <<>>
  BY <1>0, <1>1, <1>2, <1>5, TellsOne
<1>6. ASSUME NEW e \in EventState, NEW f \in EventState, es = <<e, f>>, NEW mid \in Phases,
             NEW next \in Phases, Follows(e, PhaseOf(at[c]), mid), Follows(f, mid, next)
      PROVE  TellsRoles(q \o es, "over") /\ q \o es # <<>>
  BY <1>0, <1>1, <1>2, <1>6, TellsTwo
<1>7. CASE Marked(c, how, es)
  <2>1. PICK kind \in EndKinds, before \in Seq(EventState) :
          /\ es = Append(before, Event(kind, "none"))
          /\ \/ before = <<>>
             \/ before = <<Event("worker_summary", "none")>> /\ at[c] = "worked"
             \/ before = <<Event("test_gate", "none")>> /\ at[c] = "tests"
             \/ at[c] = "reviewed" /\ \E says \in Whys : before = <<Event("review_gate", says)>>
    BY <1>7 DEF Marked
  <2>2. Event(kind, "none") \in EventState
    BY <1>0, EventIs
  <2>3. CASE before = <<>>
    <3>1. es = <<Event(kind, "none")>>
      BY <2>1, <2>3
    <3> QED
      BY <1>0, <1>3, <1>5, <2>2, <3>1
  <2>4. ASSUME NEW first \in EventState, before = <<first>>,
               Follows(first, PhaseOf(at[c]), "none")
        PROVE  TellsRoles(q \o es, "over") /\ q \o es # <<>>
    <3>1. es = <<first, Event(kind, "none")>>
      BY <2>1, <2>4, InARow
    <3>2. Follows(Event(kind, "none"), "none", "none")
      BY <1>0, <1>3
    <3> QED
      BY <1>0, <1>6, <2>2, <2>4, <3>1, <3>2
  <2>5. /\ Event("worker_summary", "none") \in EventState
        /\ Event("test_gate", "none") \in EventState
        /\ \A says \in Whys : Event("review_gate", says) \in EventState
    BY <1>0, EventIs
  <2>6. CASE before = <<Event("worker_summary", "none")>> /\ at[c] = "worked"
    BY <1>3, <2>4, <2>5, <2>6, PhaseIs
  <2>7. CASE before = <<Event("test_gate", "none")>> /\ at[c] = "tests"
    BY <1>0, <1>3, <2>4, <2>5, <2>7, PhaseIs
  <2>8. CASE at[c] = "reviewed" /\ \E says \in Whys : before = <<Event("review_gate", says)>>
    <3>1. PICK says \in Whys : before = <<Event("review_gate", says)>>
      BY <2>8
    <3> QED
      BY <1>3, <2>4, <2>5, <2>8, <3>1, PhaseIs
  <2> QED
    BY <2>1, <2>3, <2>6, <2>7, <2>8
<1>8. CASE Reasoned(c, how, odd, es) \/ Rejected(c, how, odd, es)
  <2>1. es = <<>> \/ (at[c] = "reviewed" /\ \E says \in Whys : es = <<Event("review_gate", says)>>)
    BY <1>0, <1>8 DEF Reasoned, Rejected, Whys, Fault
  <2>2. ASSUME at[c] = "reviewed", NEW says \in Whys, es = <<Event("review_gate", says)>>
        PROVE  TellsRoles(q \o es, "over") /\ q \o es # <<>>
    <3>1. Event("review_gate", says) \in EventState
      BY <1>0, EventIs
    <3> QED
      BY <1>0, <1>3, <1>5, <2>2, <3>1, PhaseIs
  <2> QED
    BY <1>4, <2>1, <2>2
<1>9. CASE FailedAs(c, how, odd, es)
  <2>1. /\ PhaseOf(at[c]) = "none"
        /\ \/ es = <<Event("test_gate", "failed")>>
           \/ es = <<Event("test_gate", "failed"), Event("base_red", "none")>>
    BY <1>9, PhaseIs DEF FailedAs
  <2>2. Event("test_gate", "failed") \in EventState /\ Event("base_red", "none") \in EventState
    BY <1>0, EventIs
  <2> QED
    BY <1>0, <1>3, <1>5, <1>6, <2>1, <2>2
<1>10. CASE odd /\ es = <<>>
  BY <1>4, <1>10
<1> QED
  BY <1>7, <1>8, <1>9, <1>10

\* A log in which one card alone goes on
LEMMA RolesRest ==
  ASSUME Typed, RolesTold, NEW c \in Cards,
         \A d \in Cards \ {c} : log'[d] = log[d] /\ at'[d] = at[d] /\ ends'[d] = ends[d],
         TellsRoles(log'[c], PhaseOf(at'[c])), ends'[c] # <<>> => log'[c] # <<>>
  PROVE  RolesTold'
<1> SUFFICES ASSUME NEW d \in Cards
             PROVE  TellsRoles(log'[d], PhaseOf(at'[d])) /\ (ends'[d] # <<>> => log'[d] # <<>>)
  BY DEF RolesTold
<1>1. CASE d = c
  BY <1>1
<1>2. CASE d # c
  <2>1. log'[d] = log[d] /\ at'[d] = at[d] /\ ends'[d] = ends[d]
    BY <1>2
  <2> QED
    BY <2>1 DEF RolesTold
<1> QED
  BY <1>1, <1>2

\* Whatever a run does, its log tells whose its results are.
LEMMA RolesRun ==
  ASSUME Typed, RolesTold, SpendConstants, NEW c \in Cards, RunNext(c)
  PROVE  RolesTold'
<1>0. /\ log \in [Cards -> Seq(EventState)] /\ at \in [Cards -> Stages]
      /\ ends \in [Cards -> Seq([how : Hows, odd : BOOLEAN])] /\ at[c] \in Stages
      /\ log[c] \in Seq(EventState)
  BY DEF Typed
<1>1. TellsRoles(log[c], PhaseOf(at[c])) /\ (ends[c] # <<>> => log[c] # <<>>)
  BY DEF RolesTold
<1>2. at[c] # "idle" => log[c] # <<>>
  <2>1. at[c] # "idle" => PhaseOf(at[c]) # "over"
    BY <1>0, PhaseIs DEF Stages
  <2> QED
    BY <1>1, <2>1 DEF TellsRoles, Fits
<1>3. CASE Start(c)
  <2> DEFINE e == Event("lifecycle_started", "none")
  <2>1. e \in EventState /\ e.kind = "lifecycle_started" /\ <<e>> \in Seq(EventState)
    <3>1. "lifecycle_started" \in Kinds /\ "none" \in Whys
      BY DEF Kinds, Whys
    <3> QED
      BY <3>1, EventIs, EventSeqs
  <2>2. Writes(c, <<e>>) /\ at[c] = "idle" /\ at' = [at EXCEPT ![c] = "begun"] /\ ends' = ends
    BY <1>3, PlainIs DEF Start, Running, Goes, history
  <2>3. Follows(e, "over", "begun")
    BY <2>1 DEF Follows
  <2> HIDE DEF e
  <2>4. log'[c] = log[c] \o <<e>> /\ \A d \in Cards \ {c} : log'[d] = log[d]
    BY <1>0, <2>1, <2>2, Wrote
  <2>5. "over" \in Phases /\ "begun" \in Phases
    BY DEF Phases
  <2>6. TellsRoles(log[c], "over")
    BY <1>1, <2>2, PhaseIs
  <2>7. TellsRoles(log'[c], "begun") /\ log'[c] # <<>>
    BY <1>0, <2>1, <2>3, <2>4, <2>5, <2>6, TellsOne
  <2>8. at'[c] = "begun" /\ \A d \in Cards \ {c} : at'[d] = at[d] /\ ends'[d] = ends[d]
    BY <1>0, <2>2
  <2> QED
    BY <2>4, <2>7, <2>8, PhaseIs, RolesRest
<1>4. CASE RefusedAtOnce(c)
  <2> DEFINE e == Event("run_refused", "at once")
  <2>1. e \in EventState /\ e.kind = "run_refused" /\ <<e>> \in Seq(EventState)
    <3>1. "run_refused" \in Kinds /\ "at once" \in Whys
      BY DEF Kinds, Whys
    <3> QED
      BY <3>1, EventIs, EventSeqs
  <2>2. /\ Writes(c, <<e>>) /\ at[c] = "idle" /\ at' = at /\ ends[c] # <<>>
        /\ ends' = [ends EXCEPT ![c][Len(ends[c])].odd = TRUE]
    BY <1>4 DEF RefusedAtOnce, Running, control
  <2>3. Follows(e, "over", "over")
    BY <2>1 DEF Follows, Answers, Marking
  <2> HIDE DEF e
  <2>4. log'[c] = log[c] \o <<e>> /\ \A d \in Cards \ {c} : log'[d] = log[d]
    BY <1>0, <2>1, <2>2, Wrote
  <2>5. "over" \in Phases
    BY DEF Phases
  <2>6. TellsRoles(log[c], "over")
    BY <1>1, <2>2, PhaseIs
  <2>7. TellsRoles(log'[c], "over") /\ log'[c] # <<>>
    BY <1>0, <1>1, <2>1, <2>2, <2>3, <2>4, <2>5, <2>6, TellsOne
  <2>8. at'[c] = "idle" /\ \A d \in Cards \ {c} : at'[d] = at[d] /\ ends'[d] = ends[d]
    BY <1>0, <2>2
  <2> QED
    BY <2>4, <2>7, <2>8, PhaseIs, RolesRest
<1>5. CASE GoesOn(c)
  <2>1. PICK to \in Stages, es \in Seq(EventState), off \in BOOLEAN :
          Onward(c, to, es, off) /\ Goes(c, to) /\ Writes(c, es) /\ UNCHANGED ends
    BY <1>5 DEF GoesOn
  <2>2. at[c] # "idle"
    BY <2>1 DEF Onward
  <2>3. log'[c] = log[c] \o es /\ \A d \in Cards \ {c} : log'[d] = log[d]
    BY <1>0, <2>1, Wrote
  <2>4. TellsRoles(log'[c], PhaseOf(to))
    BY <1>0, <1>1, <1>2, <2>1, <2>2, <2>3, OnwardTells
  <2>5. at'[c] = to /\ \A d \in Cards \ {c} : at'[d] = at[d] /\ ends'[d] = ends[d]
    BY <1>0, <2>1 DEF Goes
  <2>6. log'[c] # <<>>
    <3>1. log[c] # <<>>
      BY <1>2, <2>2
    <3> QED
      BY <1>0, <2>3, <3>1
  <2> QED
    BY <2>3, <2>4, <2>5, <2>6, RolesRest
<1>6. CASE Ending(c)
  <2>1. PICK how \in Hows, odd \in BOOLEAN, es \in Seq(EventState) :
          /\ \/ Marked(c, how, es)
             \/ Reasoned(c, how, odd, es)
             \/ Rejected(c, how, odd, es)
             \/ FailedAs(c, how, odd, es)
             \/ odd /\ es = <<>>
          /\ MayEnd(c) /\ EndsOddly(c, how, odd) /\ Writes(c, es)
    BY <1>6 DEF Ending
  <2>2. at[c] # "idle"
    BY <2>1 DEF MayEnd
  <2>3. log'[c] = log[c] \o es /\ \A d \in Cards \ {c} : log'[d] = log[d]
    BY <1>0, <2>1, Wrote
  <2>4. TellsRoles(log'[c], "over") /\ log'[c] # <<>>
    <3>1. log[c] # <<>>
      BY <1>2, <2>2
    <3> QED
      BY <1>0, <1>1, <2>1, <2>3, <3>1, EndingTells
  <2>5. at'[c] = "idle" /\ \A d \in Cards \ {c} : at'[d] = at[d] /\ ends'[d] = ends[d]
    <3>1. EndsOddly(c, how, odd)
      BY <2>1
    <3> QED
      BY <1>0, <3>1 DEF EndsOddly, Goes
  <2> QED
    BY <2>3, <2>4, <2>5, PhaseIs, RolesRest
<1> QED
  BY <1>3, <1>4, <1>5, <1>6, RunSteps

\* So do its agents.
LEMMA RolesAgent ==
  ASSUME Typed, RolesTold, SpendConstants, NEW c \in Cards, AgentNext(c)
  PROVE  RolesTold'
<1>0. /\ log \in [Cards -> Seq(EventState)] /\ at \in [Cards -> Stages]
      /\ log[c] \in Seq(EventState) /\ Prices \subseteq Price
  BY DEF Typed, SpendConstants, Price
<1>1. at[c] \in Roles /\ ends' = ends
  BY DEF AgentNext, Uses, Reports, Limited, Line, Finishes, Stalls, Dies, Capped, Exit
<1>2. /\ TellsRoles(log[c], at[c]) /\ log[c] # <<>> /\ at[c] \in Phases
      /\ PhaseOf(at[c]) = at[c]
  <2>1. PhaseOf(at[c]) = at[c] /\ at[c] \in Phases /\ at[c] # "over"
    BY <1>1, PhaseIs DEF Roles, Phases
  <2>2. TellsRoles(log[c], PhaseOf(at[c]))
    BY DEF RolesTold
  <2> QED
    BY <2>1, <2>2 DEF TellsRoles, Fits
<1>3. \/ at' = at
      \/ at' = [at EXCEPT ![c] = IF at[c] = "worker" THEN "worked" ELSE "reviewed"]
  BY DEF AgentNext, Uses, Reports, Limited, Line, Finishes, Stalls, Dies, Capped, Exit, Goes,
         control
<1>4. PhaseOf(at'[c]) = at[c] /\ \A d \in Cards \ {c} : at'[d] = at[d] /\ ends'[d] = ends[d]
  BY <1>0, <1>1, <1>3, PhaseIs DEF Roles
<1>5. ASSUME UNCHANGED log
      PROVE  RolesTold'
  BY <1>2, <1>4, <1>5, RolesRest
<1>6. ASSUME NEW e \in EventState, Writes(c, <<e>>),
             \/ e.kind \in {"usage", "rate_limit"}
             \/ e.kind = "result" /\ (e.role = "unsaid" \/ e.role = at[c])
      PROVE  RolesTold'
  <2>1. Follows(e, at[c], at[c])
    BY <1>1, <1>6 DEF Follows, Answers, Marking
  <2>2. <<e>> \in Seq(EventState)
    OBVIOUS
  <2>3. log'[c] = log[c] \o <<e>> /\ \A d \in Cards \ {c} : log'[d] = log[d]
    BY <1>0, <1>6, <2>2, Wrote
  <2>4. TellsRoles(log'[c], at[c]) /\ log'[c] # <<>>
    BY <1>0, <1>2, <2>1, <2>3, TellsOne
  <2> QED
    BY <1>4, <2>3, <2>4, RolesRest
<1>7. ASSUME NEW cost \in Price, NEW used \in Price, NEW why \in Whys,
             Writes(c, <<Result(c, cost, used, why)>>)
      PROVE  RolesTold'
  <2> DEFINE e == Result(c, cost, used, why)
  <2>1. e \in EventState /\ e.kind = "result" /\ (e.role = "unsaid" \/ e.role = at[c])
    BY <1>1, <1>7, ResultIs
  <2>2. Writes(c, <<e>>)
    BY <1>7
  <2> HIDE DEF e
  <2> QED
    BY <1>6, <2>1, <2>2
<1>8. CASE Uses(c)
  <2>1. PICK cost \in Prices : Writes(c, <<[Event("usage", "none") EXCEPT !.used = cost]>>)
    BY <1>8 DEF Uses
  <2> DEFINE e == [Event("usage", "none") EXCEPT !.used = cost]
  <2>2. cost \in Price /\ Event("usage", "none") \in EventState
    BY <1>0, EventTypes DEF Kinds, Whys
  <2>3. e \in EventState /\ e.kind = "usage"
    BY <2>2 DEF EventState, Event
  <2>4. Writes(c, <<e>>)
    BY <2>1
  <2> HIDE DEF e
  <2> QED
    BY <1>6, <2>3, <2>4
<1>9. CASE Limited(c)
  <2> DEFINE e == Event("rate_limit", "none")
  <2>1. e \in EventState /\ e.kind = "rate_limit"
    BY EventIs DEF Kinds, Whys
  <2>2. Writes(c, <<e>>)
    BY <1>9, PlainIs DEF Limited
  <2> HIDE DEF e
  <2> QED
    BY <1>6, <2>1, <2>2
<1>10. /\ Pending(c) \in Price /\ 0 \in Price /\ NoPrice \in Price
       /\ \A cost \in Price : Plus(Pending(c), cost) \in Price
  <2>1. Pending(c) \in Price /\ 0 \in Price /\ NoPrice \in Price
    BY PendingIs DEF Price
  <2> QED
    BY <2>1, PlusIs
<1>11. CASE Reports(c)
  <2>1. PICK cost \in Prices, why \in {"none"} \cup Faults :
          Writes(c, <<Result(c, Plus(Pending(c), cost), cost,
                             IF why = "capped" THEN "CRASH" ELSE why)>>)
    BY <1>11 DEF Reports
  <2> DEFINE said == IF why = "capped" THEN "CRASH" ELSE why
  <2>2. said \in Whys
    BY SpendConstants DEF Whys, Fault, SpendConstants
  <2>3. Writes(c, <<Result(c, Plus(Pending(c), cost), cost, said)>>)
    BY <2>1
  <2> HIDE DEF said
  <2> QED
    BY <1>0, <1>7, <1>10, <2>2, <2>3
<1>12. CASE Dies(c)
  <2>1. PICK stalled \in BOOLEAN :
          Writes(c, <<Result(c, IF agent[c].pending = <<>> THEN NoPrice ELSE Pending(c), 0,
                             IF stalled THEN "API_UNREACHABLE"
                             ELSE IF agent[c].limited THEN "USAGE_LIMIT" ELSE "CRASH")>>)
    BY <1>12 DEF Dies
  <2> DEFINE cost == IF agent[c].pending = <<>> THEN NoPrice ELSE Pending(c)
             why == IF stalled THEN "API_UNREACHABLE"
                    ELSE IF agent[c].limited THEN "USAGE_LIMIT" ELSE "CRASH"
  <2>2. cost \in Price /\ why \in Whys
    BY <1>10 DEF Whys, Fault
  <2>3. Writes(c, <<Result(c, cost, 0, why)>>)
    BY <2>1
  <2> HIDE DEF cost, why
  <2> QED
    BY <1>7, <1>10, <2>2, <2>3
<1>13. CASE Capped(c)
  <2>1. Writes(c, <<Result(c, Pending(c), 0, "CRASH")>>) /\ "CRASH" \in Whys
    BY <1>13 DEF Capped, Rest, Whys, Fault
  <2> QED
    BY <1>7, <1>10, <2>1
<1>14. CASE Finishes(c) \/ Stalls(c)
  BY <1>5, <1>14 DEF Finishes, Stalls
<1> QED
  BY <1>8, <1>9, <1>11, <1>12, <1>13, <1>14 DEF AgentNext

\* And so does the board, whatever it does.
LEMMA RolesStep ==
  ASSUME Typed, RolesTold, SpendConstants, [Next]_vars
  PROVE  RolesTold'
<1>1. CASE UNCHANGED Asking \/ Turn \/ Midnight
  <2>1. log' = log /\ at' = at /\ ends' = ends
    BY <1>1 DEF Asking, control, history, Turn, Midnight
  <2> QED
    BY <2>1 DEF RolesTold
<1>2. CASE Restart
  <2> SUFFICES ASSUME NEW c \in Cards
               PROVE  /\ TellsRoles(log'[c], PhaseOf(at'[c]))
                      /\ ends'[c] # <<>> => log'[c] # <<>>
    BY DEF RolesTold
  <2>0. PICK found \in BOOLEAN :
          /\ found => Running(c)
          /\ at'[c] = "idle" /\ log'[c] = log[c] \o Orphaned(found)
          /\ ~Running(c) => ends'[c] = ends[c]
    BY <1>2, Restarted
  <2> DEFINE e == Event("run_orphaned", "none")
             es == IF found THEN <<e>> ELSE <<>>
  <2>1. /\ at'[c] = "idle" /\ log'[c] = log[c] \o es
        /\ ~Running(c) => ends'[c] = ends[c]
    BY <2>0 DEF Orphaned
  <2>2. log[c] \in Seq(EventState) /\ at[c] \in Stages
    BY DEF Typed
  <2>3. TellsRoles(log[c], PhaseOf(at[c])) /\ (ends[c] # <<>> => log[c] # <<>>)
    BY DEF RolesTold
  <2>4. TellsRoles(log[c], "over") /\ PhaseOf(at[c]) \in Phases /\ "over" \in Phases
    BY <2>2, <2>3, PhaseIs, RolesSilent DEF Phases
  <2>5. Running(c) => log[c] # <<>>
    <3>1. Running(c) => PhaseOf(at[c]) # "over"
      BY <2>2, PhaseIs DEF Stages, Running
    <3> QED
      BY <2>3, <3>1 DEF TellsRoles, Fits
  <2>6. e \in EventState /\ Follows(e, "over", "over")
    <3>1. e \in EventState /\ e.kind = "run_orphaned"
      BY EventIs DEF Kinds, Whys
    <3> QED
      BY <3>1 DEF Follows, Answers, Marking
  <2> HIDE DEF e
  <2>7. CASE es = <<>>
    <3>1. log[c] \o <<>> = log[c]
      BY <2>2
    <3> QED
      BY <2>1, <2>3, <2>4, <2>5, <2>7, <3>1, PhaseIs
  <2>8. CASE es = <<e>> /\ Running(c)
    BY <2>1, <2>2, <2>4, <2>5, <2>6, <2>8, PhaseIs, TellsOne
  <2> QED
    BY <2>0, <2>7, <2>8
<1> QED
  BY <1>1, <1>2, RolesRun, RolesAgent, NextIs

\* The empty logs tell nothing wrong.
LEMMA RolesInit ==
  ASSUME Init
  PROVE  RolesTold
<1> SUFFICES ASSUME NEW c \in Cards
             PROVE  TellsRoles(<<>>, PhaseOf("idle")) /\ ends[c] = <<>>
  BY DEF RolesTold, Init
<1>1. DOMAIN <<>> = {}
  OBVIOUS
<1> QED
  BY <1>1, PhaseIs DEF TellsRoles, Said, Followed, Fits, Init

-----------------------------------------------------------------------------
(* what each role was paid *)

\* The results of a role, by what came before them, and what they cost
ResultsBy(c, r) == {i \in Results(c) : RoleAt(log[c], i) = r}
CostBy(c, r) == CostSum(EventCost(c, ResultsBy(c, r)))

\* What a role's results cost, and what is yet to be told of it, is what it was paid.
RoleSums == \A c \in Cards, r \in Roles :
  ~unheard => Plus(CostBy(c, r), IF at[c] = r THEN due[c] ELSE 0) = paid[c][r]

\* Whatever is written later, a result stays whose it was.
LEMMA RoleStays ==
  ASSUME NEW q \in Seq(EventState), NEW es \in Seq(EventState), NEW p, p = q \o es,
         NEW i \in 1..(Len(q) + 1)
  PROVE  RoleAt(p, i) = RoleAt(q, i)
<1>0. /\ Len(q) \in Nat /\ Len(es) \in Nat /\ DOMAIN q = 1..Len(q)
      /\ DOMAIN p = 1..(Len(q) + Len(es)) /\ \A j \in DOMAIN q : p[j] = q[j]
  BY Longer
<1> DEFINE marks == {j \in DOMAIN q : q[j].kind \in Marking /\ j < i}
<1>1. marks = {j \in DOMAIN p : p[j].kind \in Marking /\ j < i}
  BY <1>0
<1>2. marks # {} => Max(marks) \in DOMAIN q
  <2>1. DOMAIN q \subseteq Int /\ IsFiniteSet(DOMAIN q) /\ marks \subseteq DOMAIN q
    BY IndicesOf
  <2> HIDE DEF marks
  <2>2. marks \subseteq Int /\ IsFiniteSet(marks)
    BY <2>1, FS_Subset
  <2> QED
    BY <2>1, <2>2, MaxIs
<1>3. RoleAt(q, i) = IF marks # {} /\ q[Max(marks)].kind = "test_gate"
                     THEN "reviewer" ELSE "worker"
  BY DEF RoleAt
<1>4. RoleAt(p, i) = IF marks # {} /\ p[Max(marks)].kind = "test_gate"
                     THEN "reviewer" ELSE "worker"
  BY <1>1 DEF RoleAt
<1> HIDE DEF marks
<1> QED
  BY <1>0, <1>2, <1>3, <1>4

\* The results of a role are events of its log.
LEMMA ByAre ==
  ASSUME Typed, NEW c \in Cards, NEW r
  PROVE  /\ ResultsBy(c, r) \in SUBSET DOMAIN log[c] /\ IsFiniteSet(ResultsBy(c, r))
         /\ EventCost(c, ResultsBy(c, r)) \in [ResultsBy(c, r) -> Price]
         /\ CostBy(c, r) \in Price
<1>0. log \in [Cards -> Seq(EventState)]
  BY DEF Typed
<1> DEFINE S == ResultsBy(c, r)
<1>1. S \in SUBSET DOMAIN log[c]
  BY DEF ResultsBy, Results
<1> HIDE DEF S
<1>2. IsFiniteSet(S) /\ EventCost(c, S) \in [S -> Price]
  BY <1>0, <1>1, IndicesAre
<1>3. CostSum(EventCost(c, S)) \in Price
  BY <1>2, CostAdds
<1> QED
  BY <1>1, <1>2, <1>3 DEF S, CostBy

\* What is no result changes nobody's sum.
LEMMA ByQuiet ==
  ASSUME Typed, NEW c \in Cards, NEW es \in Seq(EventState), log'[c] = log[c] \o es,
         \A k \in 1..Len(es) : es[k].kind # "result", NEW r
  PROVE  CostBy(c, r)' = CostBy(c, r)
<1>0. log[c] \in Seq(EventState)
  BY DEF Typed
<1>1. /\ Len(log[c]) \in Nat /\ DOMAIN log[c] = 1..Len(log[c])
      /\ \A i \in DOMAIN log[c] : i \in DOMAIN log'[c] /\ log'[c][i] = log[c][i]
      /\ \A i \in DOMAIN log'[c] \ DOMAIN log[c] :
           i - Len(log[c]) \in 1..Len(es) /\ log'[c][i] = es[i - Len(log[c])]
  BY <1>0, Longer
<1>2. \A i \in DOMAIN log[c] : RoleAt(log'[c], i) = RoleAt(log[c], i)
  <2>1. \A i \in DOMAIN log[c] : i \in 1..(Len(log[c]) + 1)
    BY <1>1
  <2> QED
    BY <1>0, <2>1, RoleStays
<1>3. Results(c)' = Results(c)
  BY <1>1 DEF Results
<1>4. ResultsBy(c, r)' = ResultsBy(c, r)
  BY <1>2, <1>3 DEF ResultsBy, Results
<1>5. EventCost(c, ResultsBy(c, r))' = EventCost(c, ResultsBy(c, r))
  BY <1>1, <1>4 DEF EventCost, ResultsBy, Results
<1> QED
  BY <1>5 DEF CostBy

\* A result costs the role it is of what it says.
LEMMA ByResult ==
  ASSUME Typed, NEW c \in Cards, NEW e \in EventState, e.kind = "result",
         Writes(c, <<e>>), NEW r
  PROVE  CostBy(c, r)' = IF r = RoleNext(log[c]) THEN Plus(CostBy(c, r), e.cost)
                         ELSE CostBy(c, r)
<1>0. log[c] \in Seq(EventState) /\ e.cost \in Price /\ log'[c] = log[c] \o <<e>>
  <2>1. log \in [Cards -> Seq(EventState)] /\ <<e>> \in Seq(EventState)
    BY DEF Typed
  <2> QED
    BY <2>1, Wrote DEF EventState
<1> DEFINE n == Len(log[c]) + 1
           S == ResultsBy(c, r)
           T == ResultsBy(c, r)'
           f == EventCost(c, S)
           g == [i \in T |-> log'[c][i].cost]
<1>1. /\ n \in Nat /\ DOMAIN log[c] = 1..Len(log[c]) /\ n \notin DOMAIN log[c]
      /\ DOMAIN log'[c] = DOMAIN log[c] \cup {n} /\ log'[c][n] = e
      /\ \A i \in DOMAIN log[c] : log'[c][i] = log[c][i] /\ i \in 1..n
  <2> DEFINE q == log[c]
             p == log'[c]
  <2>1. p = Append(q, e)
    BY <1>0, OneLonger
  <2> HIDE DEF p, q
  <2>2. q \in Seq(EventState)
    BY <1>0 DEF q
  <2>3. /\ Len(q) \in Nat /\ DOMAIN q = 1..Len(q) /\ DOMAIN p = 1..(Len(q) + 1)
        /\ p[Len(q) + 1] = e /\ \A i \in 1..Len(q) : p[i] = q[i]
    BY <2>1, <2>2, OneLonger
  <2>4. 1..(Len(q) + 1) = 1..Len(q) \cup {Len(q) + 1} /\ Len(q) + 1 \notin 1..Len(q)
    BY <2>3
  <2> QED
    BY <2>3, <2>4 DEF p, q
<1>2. \A i \in 1..n : RoleAt(log'[c], i) = RoleAt(log[c], i)
  <2>1. <<e>> \in Seq(EventState)
    OBVIOUS
  <2> QED
    BY <1>0, <2>1, RoleStays
<1>3. RoleAt(log'[c], n) = RoleNext(log[c])
  <2>1. n \in 1..n
    BY <1>1
  <2> QED
    BY <1>2, <2>1 DEF RoleNext
<1>4. S \in SUBSET DOMAIN log[c] /\ IsFiniteSet(S) /\ f \in [S -> Price]
  BY ByAre
<1>5. T = IF r = RoleNext(log[c]) THEN S \cup {n} ELSE S
  <2>0. T = {i \in DOMAIN log'[c] : log'[c][i].kind = "result" /\ RoleAt(log'[c], i) = r}
    BY DEF ResultsBy, Results
  <2>1. \A i \in DOMAIN log[c] : i \in T <=> i \in S
    <3> HIDE DEF n, T
    <3> QED
      BY <1>1, <1>2, <2>0 DEF S, ResultsBy, Results
  <2>2. n \in T <=> r = RoleNext(log[c])
    <3> HIDE DEF n, T
    <3> QED
      BY <1>1, <1>3, <2>0
  <2>3. \A i \in T : i \in DOMAIN log[c] \/ i = n
    <3> HIDE DEF n, T
    <3> QED
      BY <1>1, <2>0
  <2> HIDE DEF n, S, T
  <2> QED
    BY <1>1, <1>4, <2>1, <2>2, <2>3
<1>6. CostBy(c, r)' = CostSum(g) /\ CostBy(c, r) = CostSum(f)
  BY DEF CostBy, EventCost
<1>7. g \in [T -> Price] /\ \A i \in S : g[i] = f[i]
  <2>1. \A i \in S : log'[c][i].cost = log[c][i].cost /\ f[i] = log[c][i].cost /\ f[i] \in Price
    BY <1>1, <1>4 DEF EventCost
  <2>2. log'[c][n].cost \in Price
    BY <1>0, <1>1
  <2> HIDE DEF n, S, f, T
  <2> QED
    BY <1>5, <2>1, <2>2
<1>8. n \in T => g[n] = e.cost
  BY <1>1
<1>9. S \subseteq T /\ n \notin S
  BY <1>1, <1>4, <1>5
<1> HIDE DEF n, S, T, f, g
<1>10. /\ T = S => CostSum(g) = CostSum(f)
       /\ n \notin S /\ T = S \cup {n} => CostSum(g) = Plus(CostSum(f), g[n])
  <2>1. IsFiniteSet(S) /\ f \in [S -> Price] /\ g \in [T -> Price] /\ S \subseteq T
    BY <1>4, <1>7, <1>9
  <2>2. \A i \in S : g[i] = f[i]
    BY <1>7
  <2>3. T = S => CostSum(g) = CostSum(f)
    BY <2>1, <2>2, CostOfMore
  <2>4. n \notin S /\ T = S \cup {n} => CostSum(g) = Plus(CostSum(f), g[n])
    BY <2>1, <2>2, CostOfMore
  <2> QED
    BY <2>3, <2>4
<1> QED
  BY <1>5, <1>6, <1>8, <1>9, <1>10

\* A card whose log stays costs nobody more.
LEMMA OthersBy ==
  ASSUME NEW d, log'[d] = log[d], NEW r
  PROVE  CostBy(d, r)' = CostBy(d, r)
BY DEF CostBy, ResultsBy, Results, EventCost

\* Where one card's sums fit, they all do.
LEMMA SumsRest ==
  ASSUME Typed, RoleSums, NEW c \in Cards,
         unheard => unheard',
         \A d \in Cards \ {c} : /\ log'[d] = log[d] /\ at'[d] = at[d] /\ due'[d] = due[d]
                                /\ paid'[d] = paid[d],
         \A r \in Roles : ~unheard' =>
           Plus(CostBy(c, r)', IF at'[c] = r THEN due'[c] ELSE 0) = paid'[c][r]
  PROVE  RoleSums'
<1>0. unheard \in BOOLEAN
  BY DEF Typed
<1> SUFFICES ASSUME NEW d \in Cards, NEW r \in Roles, ~unheard'
             PROVE  Plus(CostBy(d, r)', IF at'[d] = r THEN due'[d] ELSE 0) = paid'[d][r]
  BY DEF RoleSums
<1>1. CASE d = c
  BY <1>1
<1>2. CASE d # c
  <2>1. CostBy(d, r)' = CostBy(d, r) /\ at'[d] = at[d] /\ due'[d] = due[d] /\ paid'[d] = paid[d]
    BY <1>2, OthersBy
  <2>2. Plus(CostBy(d, r), IF at[d] = r THEN due[d] ELSE 0) = paid[d][r]
    BY <1>0 DEF RoleSums
  <2> QED
    BY <2>1, <2>2
<1> QED
  BY <1>1, <1>2

\* A line of the agent at work: one more event, of which it was paid p
LEMMA SumsLine ==
  ASSUME Typed, RoleSums, RolesTold, NEW c \in Cards, at[c] \in Roles, NEW e \in EventState,
         Writes(c, <<e>>), unheard => unheard',
         \A d \in Cards \ {c} : at'[d] = at[d] /\ due'[d] = due[d],
         at'[c] = at[c] \/ (at'[c] \notin Roles /\ due'[c] = 0),
         NEW p \in Price, Charge(c, p) \/ (paid' = paid /\ p = 0),
         LET more == IF e.kind = "result" THEN e.cost ELSE 0 IN
         \A s \in Price : ~unheard' => Plus(Plus(s, more), due'[c]) = Plus(Plus(s, due[c]), p)
  PROVE  RoleSums'
<1>0. /\ log \in [Cards -> Seq(EventState)] /\ <<e>> \in Seq(EventState) /\ e.cost \in Price
      /\ Len(<<e>>) = 1 /\ <<e>>[1] = e /\ log[c] \in Seq(EventState)
      /\ paid \in [Cards -> [Roles -> Price]] /\ due[c] \in Price /\ unheard \in BOOLEAN
  <2>1. /\ log \in [Cards -> Seq(EventState)] /\ paid \in [Cards -> [Roles -> Price]]
        /\ due \in [Cards -> Price] /\ unheard \in BOOLEAN
    BY DEF Typed
  <2>2. <<e>> \in Seq(EventState) /\ Len(<<e>>) = 1 /\ <<e>>[1] = e
    OBVIOUS
  <2>3. e.cost \in Price
    BY DEF EventState
  <2> QED
    BY <2>1, <2>2, <2>3
<1>1. log'[c] = log[c] \o <<e>> /\ \A d \in Cards \ {c} : log'[d] = log[d]
  BY <1>0, Wrote
<1>2. RoleNext(log[c]) = at[c]
  <2>1. TellsRoles(log[c], PhaseOf(at[c]))
    BY DEF RolesTold
  <2> QED
    BY <2>1, PhaseIs DEF TellsRoles, Fits, Roles
<1> DEFINE more == IF e.kind = "result" THEN e.cost ELSE 0
<1>3. ASSUME NEW r \in Roles
      PROVE  /\ CostBy(c, r) \in Price
             /\ r = at[c] => CostBy(c, r)' = Plus(CostBy(c, r), more)
             /\ r # at[c] => CostBy(c, r)' = CostBy(c, r)
  <2>1. CostBy(c, r) \in Price
    BY ByAre
  <2>2. CASE e.kind = "result"
    BY <1>2, <2>1, <2>2, ByResult
  <2>3. CASE e.kind # "result"
    <3>1. \A k \in 1..Len(<<e>>) : <<e>>[k].kind # "result"
      BY <1>0, <2>3
    <3>2. CostBy(c, r)' = CostBy(c, r)
      BY <1>0, <1>1, <3>1, ByQuiet
    <3> QED
      BY <2>1, <2>3, <3>2, PlusIs
  <2> QED
    BY <2>2, <2>3
<1>4. /\ paid'[c][at[c]] = Plus(paid[c][at[c]], p)
      /\ \A r \in Roles \ {at[c]} : paid'[c][r] = paid[c][r]
      /\ \A d \in Cards \ {c} : paid'[d] = paid[d]
  <2>1. CASE Charge(c, p)
    BY <2>1, Charged
  <2>2. CASE paid' = paid /\ p = 0
    <3>1. paid[c][at[c]] \in Price
      BY <1>0
    <3> QED
      BY <2>2, <3>1, PlusIs
  <2> QED
    BY <2>1, <2>2
<1>5. more \in Price
  BY <1>0 DEF Price
<1>5a. \A s \in Price : ~unheard' => Plus(Plus(s, more), due'[c]) = Plus(Plus(s, due[c]), p)
  OBVIOUS
<1> HIDE DEF more
<1>6. ASSUME NEW r \in Roles, ~unheard'
      PROVE  Plus(CostBy(c, r)', IF at'[c] = r THEN due'[c] ELSE 0) = paid'[c][r]
  <2>0. CostBy(c, r) \in Price /\ paid[c][r] \in Price
    BY <1>0, <1>3
  <2>1. Plus(CostBy(c, r), IF at[c] = r THEN due[c] ELSE 0) = paid[c][r]
    BY <1>0, <1>6 DEF RoleSums
  <2>2. CASE r = at[c]
    <3>1. Plus(CostBy(c, r)', due'[c]) = paid'[c][r]
      BY <1>3, <1>4, <1>5a, <1>6, <2>0, <2>1, <2>2
    <3>2. at'[c] # r => due'[c] = 0
      BY <2>2
    <3> QED
      BY <3>1, <3>2
  <2>3. CASE r # at[c]
    <3>1. CostBy(c, r)' = CostBy(c, r) /\ paid'[c][r] = paid[c][r]
      BY <1>3, <1>4, <2>3
    <3>2. at'[c] # r
      BY <2>3
    <3> QED
      BY <2>1, <2>3, <3>1, <3>2
  <2> QED
    BY <2>2, <2>3
<1>7. \A d \in Cards \ {c} : /\ log'[d] = log[d] /\ at'[d] = at[d] /\ due'[d] = due[d]
                             /\ paid'[d] = paid[d]
  BY <1>1, <1>4
<1> QED
  BY <1>6, <1>7, SumsRest

\* A card that writes no result, is paid nothing and has nothing due
LEMMA SumsQuiet ==
  ASSUME Typed, RoleSums, NEW c \in Cards, NEW es \in Seq(EventState), Writes(c, es),
         \A k \in 1..Len(es) : es[k].kind # "result", paid' = paid, unheard => unheard',
         \A d \in Cards \ {c} : at'[d] = at[d] /\ due'[d] = due[d],
         ~unheard' => \/ at'[c] = at[c] /\ due'[c] = due[c]
                      \/ due[c] = 0 /\ due'[c] = 0
  PROVE  RoleSums'
<1>0. log \in [Cards -> Seq(EventState)] /\ unheard \in BOOLEAN
  BY DEF Typed
<1>1. log'[c] = log[c] \o es /\ \A d \in Cards \ {c} : log'[d] = log[d]
  BY <1>0, Wrote
<1>2. ASSUME NEW r \in Roles, ~unheard'
      PROVE  Plus(CostBy(c, r)', IF at'[c] = r THEN due'[c] ELSE 0) = paid'[c][r]
  <2>1. CostBy(c, r)' = CostBy(c, r)
    BY <1>1, ByQuiet
  <2>2. Plus(CostBy(c, r), IF at[c] = r THEN due[c] ELSE 0) = paid[c][r]
    BY <1>0, <1>2 DEF RoleSums
  <2>3. (IF at'[c] = r THEN due'[c] ELSE 0) = (IF at[c] = r THEN due[c] ELSE 0)
    BY <1>2
  <2> QED
    BY <2>1, <2>2, <2>3
<1> QED
  BY <1>1, <1>2, SumsRest

\* A run goes on, or ends, with no agent at work, and moves no other card's.
LEMMA RunsAreStill ==
  ASSUME Typed, NEW c \in Cards, RunNext(c)
  PROVE  /\ agent[c].pending = <<>>
         /\ at' = at \/ \E to : at' = [at EXCEPT ![c] = to]
<1>1. at[c] \notin Roles \/ Silent(c)
  <2>1. CASE Start(c) \/ RefusedAtOnce(c)
    BY <2>1 DEF Start, RefusedAtOnce, Running, Roles
  <2>2. CASE Prepare(c) \/ Worked(c) \/ Test(c) \/ Verdict(c)
    BY <2>2 DEF Prepare, Worked, Test, Verdict, Roles
  <2>3. CASE NoReviewer(c) \/ Open(c) \/ Raises(c)
    BY <2>3 DEF NoReviewer, Open, Raises, Roles
  <2> QED
    BY <2>1, <2>2, <2>3 DEF RunNext
<1>2. agent[c].pending = <<>>
  BY <1>1 DEF Typed, Silent
<1>3. CASE Start(c) \/ RefusedAtOnce(c)
  BY <1>2, <1>3 DEF Start, RefusedAtOnce, Goes, control
<1>4. CASE GoesOn(c)
  BY <1>2, <1>4 DEF GoesOn, Onward, Goes
<1>5. CASE Ending(c)
  BY <1>2, <1>5 DEF Ending, EndsOddly, Goes
<1> QED
  BY <1>3, <1>4, <1>5, RunSteps

\* What each role was paid is counted as a run starts, goes on and ends ...
LEMMA SumsRun ==
  ASSUME Typed, Money, RoleSums, NEW c \in Cards, RunNext(c)
  PROVE  RoleSums'
<1>1. UNCHANGED <<paid, due, unheard>>
  BY RunsAreFree
<1>2. PICK es \in Seq(EventState) : Writes(c, es) /\ Quiet(es)
  BY RunsAreFree
<1>3. \A k \in 1..Len(es) : es[k].kind # "result"
  BY <1>2 DEF Quiet
<1>4. due[c] = 0
  BY RunsAreStill, PendingIs DEF Money, DueIsPending
<1>5. \A d \in Cards \ {c} : at'[d] = at[d] /\ due'[d] = due[d]
  <2>1. at \in [Cards -> Stages]
    BY DEF Typed
  <2> QED
    BY <1>1, <2>1, RunsAreStill
<1> QED
  BY <1>1, <1>2, <1>3, <1>4, <1>5, SumsQuiet

\* ... as an agent that told nothing since its last result leaves ...
LEMMA SumsLeft ==
  ASSUME Typed, Money, RoleSums, NEW c \in Cards, LeftOver(c), NEW why, Exit(c, why), UNCHANGED log
  PROVE  RoleSums'
<1>0. /\ log \in [Cards -> Seq(EventState)] /\ due \in [Cards -> Price] /\ unheard \in BOOLEAN
      /\ at \in [Cards -> Stages]
  BY DEF Typed
<1>1. /\ due' = [due EXCEPT ![c] = 0] /\ unheard' = (unheard \/ agent[c].pending # <<>>)
      /\ paid' = paid
      /\ \E to : at' = [at EXCEPT ![c] = to]
  BY DEF LeftOver, Exit, Goes
<1>2. Writes(c, <<>>) /\ <<>> \in Seq(EventState) /\ \A k \in 1..Len(<<>>) : FALSE
  BY <1>0, WroteNothing
<1>3. ~unheard' => due[c] = 0 /\ due'[c] = 0
  BY <1>0, <1>1, PendingIs DEF Money, DueIsPending
<1>4. \A d \in Cards \ {c} : at'[d] = at[d] /\ due'[d] = due[d]
  BY <1>0, <1>1
<1>5. unheard => unheard'
  BY <1>1
<1> DEFINE es == <<>>
<1>6. es \in Seq(EventState) /\ Writes(c, es) /\ \A k \in 1..Len(es) : es[k].kind # "result"
  BY <1>2
<1> HIDE DEF es
<1> QED
  BY <1>1, <1>3, <1>4, <1>5, <1>6, SumsQuiet

\* ... as it dies or is cut short ...
LEMMA SumsDone ==
  ASSUME Typed, Money, RolesTold, RoleSums, NEW c \in Cards, NEW why, Exit(c, why),
         NEW reason \in Whys, NEW cost \in Price, Writes(c, <<Result(c, cost, 0, reason)>>),
         \/ /\ Silent(c) /\ Charge(c, NoPrice) /\ Settle(c, NoPrice)
            /\ (unheard' = unheard /\ cost = NoPrice) \/ unheard' = TRUE
         \/ /\ ~Silent(c) /\ Settle(c, due[c]) /\ UNCHANGED paid /\ unheard' = unheard
            /\ cost = Pending(c)
  PROVE  RoleSums'
<1> DEFINE e == Result(c, cost, 0, reason)
<1>0. /\ due \in [Cards -> Price] /\ due[c] \in Price /\ unheard \in BOOLEAN /\ due[c] = Pending(c)
      /\ at \in [Cards -> Stages] /\ at[c] \in Roles /\ 0 \in Price /\ NoPrice \in Price
  BY DEF Typed, Money, DueIsPending, Price, Exit
<1>1. e \in EventState /\ e.kind = "result" /\ e.cost = cost /\ Writes(c, <<e>>)
  BY <1>0, ResultIs
<1>2. /\ due' = [due EXCEPT ![c] = 0]
      /\ at' = [at EXCEPT ![c] = IF at[c] = "worker" THEN "worked" ELSE "reviewed"]
  BY DEF Exit, Goes, Settle
<1>3. /\ \A d \in Cards \ {c} : at'[d] = at[d] /\ due'[d] = due[d]
      /\ at'[c] \notin Roles /\ due'[c] = 0
  BY <1>0, <1>2 DEF Roles
<1>4. unheard => unheard'
  OBVIOUS
<1> HIDE DEF e
<1>5. CASE /\ Silent(c) /\ Charge(c, NoPrice) /\ Settle(c, NoPrice)
           /\ (unheard' = unheard /\ cost = NoPrice) \/ unheard' = TRUE
  <2>1. due[c] = 0
    BY <1>0, <1>5, PendingIs DEF Silent
  <2>2. \A s \in Price : Plus(Plus(s, NoPrice), 0) = Plus(Plus(s, 0), NoPrice)
    BY DEF Plus, Price, NoPrice
  <2>3. LET more == IF e.kind = "result" THEN e.cost ELSE 0 IN
        \A s \in Price : ~unheard' => Plus(Plus(s, more), due'[c]) = Plus(Plus(s, due[c]), NoPrice)
    BY <1>1, <1>3, <1>5, <2>1, <2>2
  <2> QED
    BY <1>0, <1>1, <1>3, <1>4, <1>5, <2>3, SumsLine
<1>6. CASE /\ ~Silent(c) /\ Settle(c, due[c]) /\ UNCHANGED paid /\ unheard' = unheard
           /\ cost = Pending(c)
  <2>3. LET more == IF e.kind = "result" THEN e.cost ELSE 0 IN
        \A s \in Price : ~unheard' => Plus(Plus(s, more), due'[c]) = Plus(Plus(s, due[c]), 0)
    BY <1>0, <1>1, <1>3, <1>6
  <2> QED
    BY <1>0, <1>1, <1>3, <1>4, <1>6, <2>3, SumsLine
<1> QED
  BY <1>5, <1>6

\* ... and with every line of an agent before.
LEMMA SumsAgent ==
  ASSUME Typed, Money, RolesTold, RoleSums, SpendConstants, NEW c \in Cards, AgentNext(c)
  PROVE  RoleSums'
<1>0. /\ due \in [Cards -> Price] /\ due[c] \in Price /\ agent \in [Cards -> AgentState]
      /\ due[c] = Pending(c) /\ 0 \in Price /\ NoPrice \in Price /\ unheard \in BOOLEAN
      /\ Prices \subseteq Price
  BY DEF Typed, Money, Price, DueIsPending, SpendConstants
<1>1. CASE Uses(c)
  <2>1. PICK cost \in Prices :
          /\ Line(c) /\ Writes(c, <<[Event("usage", "none") EXCEPT !.used = cost]>>)
          /\ Charge(c, cost) /\ due' = [due EXCEPT ![c] = Plus(@, cost)]
    BY <1>1 DEF Uses
  <2> DEFINE e == [Event("usage", "none") EXCEPT !.used = cost]
  <2>2. cost \in Price /\ at[c] \in Roles /\ at' = at /\ unheard' = unheard
    BY <1>0, <2>1 DEF Line, control
  <2>3. e \in EventState /\ e.kind # "result" /\ Writes(c, <<e>>)
    <3>1. Event("usage", "none") \in EventState
      BY EventTypes DEF Kinds, Whys
    <3> QED
      BY <2>1, <2>2, <3>1 DEF EventState, Event
  <2>4. due'[c] = Plus(due[c], cost) /\ \A d \in Cards \ {c} : due'[d] = due[d]
    BY <1>0, <2>1
  <2>5. \A s \in Price : Plus(Plus(s, 0), Plus(due[c], cost)) = Plus(Plus(s, due[c]), cost)
    BY <1>0, <2>2, PlusIs
  <2> HIDE DEF e
  <2>6. LET more == IF e.kind = "result" THEN e.cost ELSE 0 IN
        \A s \in Price : ~unheard' => Plus(Plus(s, more), due'[c]) = Plus(Plus(s, due[c]), cost)
    BY <2>3, <2>4, <2>5
  <2> QED
    BY <2>1, <2>2, <2>3, <2>4, <2>6, SumsLine
<1>2. CASE Reports(c)
  <2>1. PICK cost \in Prices, why \in {"none"} \cup Faults :
          /\ Line(c)
          /\ Writes(c, <<Result(c, Plus(Pending(c), cost), cost,
                               IF why = "capped" THEN "CRASH" ELSE why)>>)
          /\ Charge(c, cost) /\ Settle(c, Plus(due[c], cost))
    BY <1>2 DEF Reports
  <2> DEFINE all == Plus(Pending(c), cost)
             said == IF why = "capped" THEN "CRASH" ELSE why
             e == Result(c, all, cost, said)
  <2>2. /\ cost \in Price /\ at[c] \in Roles /\ at' = at /\ unheard' = unheard /\ all \in Price
        /\ all = Plus(due[c], cost)
    BY <1>0, <2>1, PlusIs DEF Line, control
  <2>3. e \in EventState /\ e.kind = "result" /\ e.cost = all /\ Writes(c, <<e>>)
    <3>1. said \in Whys
      BY SpendConstants DEF Whys, Fault, SpendConstants
    <3>2. Writes(c, <<Result(c, all, cost, said)>>)
      BY <2>1
    <3> HIDE DEF said, all
    <3> QED
      BY <2>2, <3>1, <3>2, ResultIs
  <2>4. due'[c] = 0 /\ \A d \in Cards \ {c} : due'[d] = due[d]
    BY <1>0, <2>1 DEF Settle
  <2>5. \A s \in Price : Plus(Plus(s, Plus(due[c], cost)), 0) = Plus(Plus(s, due[c]), cost)
    BY <1>0, <2>2 DEF Plus, Price, NoPrice
  <2> HIDE DEF e, all
  <2>6. LET more == IF e.kind = "result" THEN e.cost ELSE 0 IN
        \A s \in Price : ~unheard' => Plus(Plus(s, more), due'[c]) = Plus(Plus(s, due[c]), cost)
    BY <2>2, <2>3, <2>4, <2>5
  <2> QED
    BY <2>1, <2>2, <2>3, <2>4, <2>6, SumsLine
<1>3. CASE Limited(c)
  <2> DEFINE es == <<Event("rate_limit", "none")>>
  <2>1. Writes(c, es) /\ es \in Seq(EventState) /\ Quiet(es)
    BY <1>3, PlainIs, EventSeqs, QuietOnes DEF Limited, Kinds, Whys
  <2>2. UNCHANGED <<at, paid, due, unheard>>
    BY <1>3 DEF Limited, Line, control
  <2> HIDE DEF es
  <2>3. \A k \in 1..Len(es) : es[k].kind # "result"
    BY <2>1 DEF Quiet
  <2> QED
    BY <2>1, <2>2, <2>3, SumsQuiet
<1>4. CASE Finishes(c) \/ Stalls(c)
  BY <1>4, SumsLeft DEF Finishes, Stalls
<1>5. CASE Dies(c)
  <2>1. PICK stalled \in BOOLEAN :
          LET cost == IF agent[c].pending = <<>> THEN NoPrice ELSE Pending(c)
              why == IF stalled THEN "API_UNREACHABLE"
                     ELSE IF agent[c].limited THEN "USAGE_LIMIT" ELSE "CRASH" IN
          /\ agent[c].finals = 0
          /\ Exit(c, why) /\ Writes(c, <<Result(c, cost, 0, why)>>)
          /\ IF Silent(c) THEN Charge(c, NoPrice) /\ Settle(c, NoPrice)
             ELSE Settle(c, due[c]) /\ UNCHANGED paid
          /\ UNCHANGED unheard
    BY <1>5 DEF Dies
  <2> DEFINE cost == IF agent[c].pending = <<>> THEN NoPrice ELSE Pending(c)
             why == IF stalled THEN "API_UNREACHABLE"
                    ELSE IF agent[c].limited THEN "USAGE_LIMIT" ELSE "CRASH"
  <2>2. cost \in Price /\ why \in Whys
    BY <1>0 DEF Whys, Fault
  <2>3. /\ Silent(c) => cost = NoPrice
        /\ ~Silent(c) => cost = Pending(c)
    BY <2>1 DEF Silent
  <2>4. /\ Exit(c, why) /\ Writes(c, <<Result(c, cost, 0, why)>>) /\ UNCHANGED unheard
        /\ Silent(c) => Charge(c, NoPrice) /\ Settle(c, NoPrice)
        /\ ~Silent(c) => Settle(c, due[c]) /\ UNCHANGED paid
    BY <2>1
  <2> HIDE DEF cost, why
  <2>5. CASE Silent(c)
    BY <2>2, <2>3, <2>4, <2>5, SumsDone
  <2>6. CASE ~Silent(c)
    BY <2>2, <2>3, <2>4, <2>6, SumsDone
  <2> QED
    BY <2>5, <2>6
<1>6. CASE Capped(c)
  <2>1. /\ Exit(c, "capped") /\ Writes(c, <<Result(c, Pending(c), 0, "CRASH")>>)
        /\ Silent(c) => Charge(c, NoPrice) /\ Settle(c, NoPrice) /\ unheard' = TRUE
        /\ ~Silent(c) => Settle(c, due[c]) /\ UNCHANGED <<paid, unheard>>
    BY <1>6 DEF Capped, Rest
  <2>2. "CRASH" \in Whys /\ Pending(c) \in Price
    BY <1>0 DEF Whys, Fault
  <2>3. CASE Silent(c)
    BY <2>1, <2>2, <2>3, SumsDone
  <2>4. CASE ~Silent(c)
    BY <2>1, <2>2, <2>4, SumsDone
  <2> QED
    BY <2>3, <2>4
<1> QED
  BY <1>1, <1>2, <1>3, <1>4, <1>5, <1>6 DEF AgentNext

\* A restart loses what the agents used, and charges nobody.
LEMMA SumsRestart ==
  ASSUME Typed, Money, RoleSums, Restart
  PROVE  RoleSums'
<1>0. unheard \in BOOLEAN /\ \A c \in Cards : log[c] \in Seq(EventState)
  BY DEF Typed
<1> SUFFICES ASSUME NEW c \in Cards, NEW r \in Roles, ~unheard'
             PROVE  Plus(CostBy(c, r)', IF at'[c] = r THEN due'[c] ELSE 0) = paid'[c][r]
  BY DEF RoleSums
<1>10. PICK found \in BOOLEAN :
      /\ Orphaned(found) \in Seq(EventState) /\ log'[c] = log[c] \o Orphaned(found)
      /\ at'[c] = "idle" /\ due'[c] = 0
      /\ unheard' = (unheard \/ \E d \in Cards : at[d] \in Roles)
  BY Restarted
<1> DEFINE es == Orphaned(found)
<1>1. /\ es \in Seq(EventState) /\ log'[c] = log[c] \o es /\ at'[c] = "idle" /\ due'[c] = 0
      /\ unheard' = (unheard \/ \E d \in Cards : at[d] \in Roles)
  BY <1>10
<1>2. ~unheard /\ at[c] \notin Roles
  BY <1>0, <1>1
<1>3. paid' = paid
  BY DEF Restart
<1>4. Quiet(es)
  BY QuietOnes DEF Kinds, Orphaned
<1> HIDE DEF es
<1>5. \A k \in 1..Len(es) : es[k].kind # "result"
  BY <1>4 DEF Quiet
<1>6. CostBy(c, r)' = CostBy(c, r)
  BY <1>1, <1>5, ByQuiet
<1>7. Plus(CostBy(c, r), IF at[c] = r THEN due[c] ELSE 0) = paid[c][r]
  BY <1>2 DEF RoleSums
<1> QED
  BY <1>1, <1>2, <1>3, <1>6, <1>7

\* What each role was paid is counted as the board runs.
LEMMA SumsStep ==
  ASSUME Typed, Money, RolesTold, RoleSums, SpendConstants, [Next]_vars
  PROVE  RoleSums'
<1>1. CASE UNCHANGED Asking \/ Turn \/ Midnight
  <2>1. UNCHANGED <<log, at, paid, due, unheard>>
    BY <1>1 DEF Asking, control, money, Turn, Midnight
  <2>2. \A c \in Cards, r \in Roles : CostBy(c, r)' = CostBy(c, r)
    BY <2>1, OthersBy
  <2> QED
    BY <2>1, <2>2 DEF RoleSums
<1> QED
  BY <1>1, SumsRun, SumsAgent, SumsRestart, NextIs

\* At first nobody was paid anything.
LEMMA SumsInit ==
  ASSUME Init
  PROVE  RoleSums
<1> SUFFICES ASSUME NEW c \in Cards, NEW r \in Roles
             PROVE  CostBy(c, r) = 0 /\ due[c] = 0 /\ paid[c][r] = 0
  BY DEF RoleSums, Plus, NoPrice
<1>1. log[c] = <<>> /\ due[c] = 0 /\ paid[c][r] = 0
  BY DEF Init
<1>2. ResultsBy(c, r) = {}
  BY <1>1 DEF ResultsBy, Results
<1>3. EventCost(c, {}) \in [{} -> Price] /\ IsFiniteSet({})
  BY FS_EmptySet DEF EventCost
<1> QED
  BY <1>1, <1>2, <1>3, CostAdds DEF CostBy

\* The whole invariant of the spend holds always.
LEMMA SpendAlways == Spec => [](Typed /\ Money /\ RolesTold /\ RoleSums)
<1>1. Init => Typed /\ Money /\ RolesTold /\ RoleSums
  BY SpendConstants, TypedInit, MoneyInit, RolesInit, SumsInit
<1>2. (Typed /\ Money /\ RolesTold /\ RoleSums) /\ [Next]_vars
        => (Typed /\ Money /\ RolesTold /\ RoleSums)'
  BY SpendConstants, MoneyStep, RolesStep, SumsStep
<1> QED
  BY <1>1, <1>2, PTL DEF Spec

-----------------------------------------------------------------------------
(* the attempts of a log *)

\* The attempt that begins with a start
From(c, s) == {i \in DOMAIN log[c] : i >= s /\ ~\E n \in Starts(c) : s < n /\ n <= i}

\* Each event is of one attempt, and each attempt is what follows its start.
LEMMA AttemptsAre ==
  ASSUME Typed, RolesTold, NEW c \in Cards
  PROVE  /\ Attempts(c) = {From(c, s) : s \in Starts(c)}
         /\ Attempts(c) \in SUBSET SUBSET DOMAIN log[c] /\ IsFiniteSet(Attempts(c))
         /\ UNION Attempts(c) = DOMAIN log[c]
         /\ \A s \in Starts(c) : s \in From(c, s)
         /\ \A s, t \in Starts(c) : s # t => From(c, s) \cap From(c, t) = {}
<1>0. log[c] \in Seq(EventState)
  BY DEF Typed
<1>1. DOMAIN log[c] = 1..Len(log[c]) /\ Len(log[c]) \in Nat
  BY <1>0
<1>2. DOMAIN log[c] \subseteq Int /\ IsFiniteSet(DOMAIN log[c])
  BY <1>0, IndicesOf
<1>3. Starts(c) = {i \in DOMAIN log[c] : log[c][i].kind = "lifecycle_started"}
  BY DEF Starts, Kind
<1>4. DOMAIN log[c] # {} => 1 \in Starts(c)
  <2>1. DOMAIN log[c] # {} => log[c] # <<>> /\ 1 \in DOMAIN log[c]
    <3>1. log[c] = <<>> => DOMAIN log[c] = {}
      OBVIOUS
    <3>2. DOMAIN log[c] # {} => 1 \in DOMAIN log[c]
      BY <1>1
    <3> QED
      BY <3>1, <3>2
  <2>2. log[c] # <<>> => log[c][1].kind = "lifecycle_started"
    BY DEF RolesTold, TellsRoles, Fits
  <2> QED
    BY <1>3, <2>1, <2>2
<1>5. Attempts(c) = {From(c, s) : s \in Starts(c)}
  <2>1. CASE Starts(c) = {}
    <3>1. DOMAIN log[c] = {}
      BY <1>4, <2>1
    <3>2. Attempts(c) = {{}} \ {{}}
      BY <2>1, <3>1 DEF Attempts
    <3> QED
      BY <2>1, <3>2
  <2>2. CASE Starts(c) # {}
    BY <2>2 DEF Attempts, From
  <2> QED
    BY <2>1, <2>2
<1>6. \A s \in Starts(c) : From(c, s) \in SUBSET DOMAIN log[c]
  BY DEF From
<1>7. \A s \in Starts(c) : s \in From(c, s)
  <2>1. \A s \in Starts(c) : s \in DOMAIN log[c] /\ s \in Int
    BY <1>2, <1>3
  <2>2. \A s \in Starts(c) : \A n \in Starts(c) : ~(s < n /\ n <= s)
    BY <2>1
  <2> QED
    BY <2>1, <2>2 DEF From
<1>8. Attempts(c) \in SUBSET SUBSET DOMAIN log[c]
  BY <1>5, <1>6
<1>9. IsFiniteSet(Attempts(c))
  BY <1>2, <1>8, FS_SUBSET, FS_Subset
<1>10. ASSUME NEW i \in DOMAIN log[c]
       PROVE  \E s \in Starts(c) : i \in From(c, s)
  <2> DEFINE S == {s \in Starts(c) : s <= i}
  <2>1. S \subseteq Int /\ IsFiniteSet(S)
    <3>1. S \in SUBSET DOMAIN log[c]
      BY <1>3
    <3> QED
      BY <1>2, <3>1, FS_Subset
  <2>2. 1 \in S
    BY <1>1, <1>4
  <2> DEFINE s == Max(S)
  <2>3. s \in S /\ \A y \in S : y <= s
    <3> HIDE DEF S
    <3> QED
      BY <2>1, <2>2, MaxIs
  <2> HIDE DEF s
  <2>4. s \in Int /\ i \in Int
    BY <1>2, <2>1, <2>3
  <2>5. ASSUME NEW n \in Starts(c), s < n, n <= i
        PROVE  FALSE
    <3>1. n \in S
      BY <2>5
    <3>2. n \in Int /\ n <= s
      BY <2>1, <2>3, <3>1
    <3> QED
      BY <2>4, <2>5, <3>2
  <2> QED
    BY <2>3, <2>4, <2>5 DEF From
<1>11. UNION Attempts(c) = DOMAIN log[c]
  <2>1. \A i \in DOMAIN log[c] : i \in UNION Attempts(c)
    BY <1>5, <1>10
  <2>2. \A i \in UNION Attempts(c) : i \in DOMAIN log[c]
    BY <1>8
  <2> QED
    BY <2>1, <2>2
<1>12. ASSUME NEW s \in Starts(c), NEW t \in Starts(c), s # t, NEW i \in From(c, s),
              i \in From(c, t)
       PROVE  FALSE
  <2>1. s \in Int /\ t \in Int /\ i \in Int /\ s <= i /\ t <= i
    BY <1>2, <1>3, <1>12 DEF From
  <2>2. ~(s < t) /\ ~(t < s)
    BY <1>12, <2>1 DEF From
  <2> QED
    BY <1>12, <2>1, <2>2
<1>13. \A s, t \in Starts(c) : s # t => From(c, s) \cap From(c, t) = {}
  BY <1>12
<1> QED
  BY <1>5, <1>7, <1>8, <1>9, <1>11, <1>13

\* Whose a result is, as it is read from its attempt, is what came before it in the log.
LEMMA RoleOfIs ==
  ASSUME Typed, RolesTold, NEW c \in Cards, NEW I \in Attempts(c), NEW i \in Results(c), i \in I
  PROVE  RoleOf(c, I, i) = RoleAt(log[c], i)
<1> DEFINE q == log[c]
<1>0. q \in Seq(EventState) /\ Said(q) /\ Followed(q)
  BY DEF Typed, RolesTold, TellsRoles
<1>1. PICK s \in Starts(c) : I = From(c, s)
  BY AttemptsAre
<1>2. DOMAIN q \subseteq Int /\ IsFiniteSet(DOMAIN q)
  BY <1>0, IndicesOf
<1>3. /\ s \in DOMAIN q /\ q[s].kind = "lifecycle_started" /\ i \in DOMAIN q
      /\ q[i].kind = "result" /\ i >= s /\ s \in I
  BY <1>1, AttemptsAre DEF Starts, Kind, Results, From
<1>4. s < i /\ s \in Int /\ i \in Int
  <2>1. s # i
    BY <1>3
  <2> QED
    BY <1>2, <1>3, <2>1
<1>5. \A j \in DOMAIN q : j \in I <=> j >= s /\ ~\E n \in Starts(c) : s < n /\ n <= j
  BY <1>1 DEF From
<1>6. \A j \in DOMAIN q : q[j].kind = "lifecycle_started" <=> j \in Starts(c)
  BY DEF Starts, Kind
<1>7. I \in SUBSET DOMAIN q
  BY AttemptsAre
<1>8. \A kinds : Kind(c, I, kinds) = {j \in I : q[j].kind \in kinds}
  BY DEF Kind
<1> HIDE DEF q
<1>9. ASSUME NEW j \in DOMAIN q, NEW k \in I, s <= j, j <= k
      PROVE  j \in I
  <2>1. j \in Int /\ k \in Int /\ \A n \in Starts(c) : n \in Int
    BY <1>2, <1>7 DEF Starts, Kind, q
  <2>2. \A n \in Starts(c) : s < n /\ n <= j => n <= k
    BY <1>9, <2>1
  <2> QED
    BY <1>4, <1>5, <1>7, <1>9, <2>1, <2>2
<1>10. RoleBefore(c, I, i) = RoleAt(q, i)
  <2> DEFINE marks == {j \in I : q[j].kind \in Marking /\ j < i}
  <2>0. RoleBefore(c, I, i) = IF marks # {} /\ q[Max(marks)].kind = "test_gate"
                              THEN "reviewer" ELSE "worker"
    <3>1. marks = {j \in Kind(c, I, {"test_gate", "lifecycle_started", "fix_round"}) : j < i}
      BY <1>8 DEF Marking
    <3> HIDE DEF marks
    <3> QED
      BY <3>1 DEF RoleBefore, q
  <2>1. marks \subseteq Int /\ IsFiniteSet(marks) /\ s \in marks
    <3>1. marks \in SUBSET DOMAIN q
      BY <1>7
    <3>2. s \in marks
      BY <1>3, <1>4 DEF Marking
    <3> HIDE DEF marks
    <3> QED
      BY <1>2, <3>1, <3>2, FS_Subset
  <2> DEFINE m == Max(marks)
  <2>2. m \in marks /\ \A j \in marks : j <= m
    <3> HIDE DEF marks
    <3> QED
      BY <2>1, MaxIs
  <2> HIDE DEF m
  <2>3. m \in DOMAIN q /\ m < i /\ q[m].kind \in Marking /\ m \in Int /\ s <= m
    BY <1>7, <2>1, <2>2
  <2>4. ASSUME NEW j \in DOMAIN q, m < j, j < i, q[j].kind \in Marking
        PROVE  FALSE
    <3>1. j \in Int /\ s <= j /\ j <= i
      BY <1>2, <1>4, <2>3, <2>4
    <3>2. j \in marks
      BY <1>9, <2>4, <3>1
    <3> QED
      BY <2>2, <2>3, <2>4, <3>1, <3>2
  <2>5. RoleAt(q, i) = IF q[m].kind = "test_gate" THEN "reviewer" ELSE "worker"
    BY <1>0, <1>4, <2>3, <2>4, RoleAtIs
  <2>6. marks # {} /\ m = Max(marks)
    BY <2>1 DEF m
  <2> HIDE DEF marks
  <2> QED
    BY <2>0, <2>5, <2>6
<1> DEFINE next == {j \in Kind(c, I, {"result", "worker_summary", "review_gate"}) : j > i}
<1>11. next \subseteq Int /\ IsFiniteSet(next)
  <2>1. next \in SUBSET DOMAIN q
    BY <1>7, <1>8
  <2> HIDE DEF next
  <2> QED
    BY <1>2, <2>1, FS_Subset
<1>12. ASSUME NEW n \in next, \A j \in next : n <= j, q[n].kind # "result"
       PROVE  RoleAt(q, i) = IF q[n].kind = "worker_summary" THEN "worker" ELSE "reviewer"
  <2>1. n \in I /\ n \in DOMAIN q /\ i < n /\ q[n].kind \in {"worker_summary", "review_gate"}
        /\ n \in Int
    BY <1>2, <1>4, <1>7, <1>8, <1>12
  <2>2. ASSUME NEW k \in DOMAIN q, i < k, k < n, q[k].kind \in Answers
        PROVE  FALSE
    <3>1. k \in Int /\ s < k /\ k <= n
      BY <1>2, <1>4, <2>1, <2>2
    <3>2. k \in I
      BY <1>4, <1>9, <2>1, <3>1
    <3>3. k \notin Starts(c)
      BY <1>5, <2>1, <3>1
    <3>4. q[k].kind \in {"result", "worker_summary", "review_gate"}
      BY <1>6, <2>2, <3>3 DEF Answers
    <3>5. k \in next
      BY <1>4, <1>8, <2>2, <3>1, <3>2, <3>4
    <3> QED
      BY <1>12, <2>1, <2>2, <3>1, <3>5
  <2> QED
    BY <1>0, <1>3, <2>1, <2>2 DEF Followed
<1>13. RoleOf(c, I, i) = IF q[i].role # "unsaid" THEN q[i].role
                         ELSE IF next = {} \/ q[Min(next)].kind = "result" THEN RoleBefore(c, I, i)
                         ELSE IF q[Min(next)].kind = "worker_summary" THEN "worker"
                         ELSE "reviewer"
  BY DEF RoleOf, q
<1>14. next # {} => Min(next) \in next /\ \A j \in next : Min(next) <= j
  <2> HIDE DEF next
  <2> QED
    BY <1>11, MinIs
<1>15. q[i].role # "unsaid" => q[i].role = RoleAt(q, i)
  BY <1>0, <1>3 DEF Said
<1> HIDE DEF next
<1> QED
  <2>1. CASE q[i].role # "unsaid"
    BY <1>13, <1>15, <2>1 DEF q
  <2>2. CASE q[i].role = "unsaid" /\ (next = {} \/ q[Min(next)].kind = "result")
    BY <1>10, <1>13, <2>2 DEF q
  <2>3. CASE q[i].role = "unsaid" /\ next # {} /\ q[Min(next)].kind # "result"
    BY <1>12, <1>13, <1>14, <2>3 DEF q
  <2> QED
    BY <2>1, <2>2, <2>3

\* What costs nothing may be left out of a sum.
LEMMA CostOfSome ==
  ASSUME NEW D, IsFiniteSet(D), NEW f \in [D -> Price], NEW S \in SUBSET D,
         \A x \in D \ S : f[x] = 0
  PROVE  CostSum([x \in S |-> f[x]]) = CostSum(f)
<1> DEFINE part(T) == CostSum([x \in T |-> f[x]])
           U == {T \in SUBSET D : S \subseteq T /\ part(T) # part(S)}
<1>1. U = {}
  <2> SUFFICES ASSUME U # {}
               PROVE  FALSE
    OBVIOUS
  <2>0. U \in SUBSET SUBSET D
    OBVIOUS
  <2> HIDE DEF U
  <2>1. PICK u \in U : \A v \in U : v \subseteq u => v = u
    BY <2>0, LeastSubset
  <2> USE DEF U
  <2>2. u \in SUBSET D /\ S \subseteq u /\ part(u) # part(S)
    BY <2>1
  <2>3. PICK z \in u : z \notin S
    <3> HIDE DEF part, U
    <3>1. u # S
      BY <2>2
    <3> QED
      BY <2>2, <3>1
  <2> DEFINE e == [x \in u |-> f[x]]
  <2>4. IsFiniteSet(u) /\ e \in [u -> Price]
    BY <2>2, FS_Subset
  <2>5. u \ {z} \in SUBSET D /\ S \subseteq u \ {z} /\ u \ {z} # u
    BY <2>2, <2>3
  <2>6. u \ {z} \notin U
    <3> HIDE DEF U
    <3> QED
      BY <2>1, <2>5
  <2>7. part(u \ {z}) = part(S)
    BY <2>5, <2>6
  <2>8. Without(e, z) = [x \in u \ {z} |-> f[x]]
    BY DEF Without
  <2>9. CostSum(e) = Plus(e[z], CostSum(Without(e, z))) /\ Without(e, z) \in [u \ {z} -> Price]
    BY <2>3, <2>4, CostAdds
  <2>10. e[z] = 0
    BY <2>2, <2>3
  <2>11. IsFiniteSet(u \ {z})
    BY <2>4, FS_Subset
  <2>12. CostSum(Without(e, z)) \in Price
    BY <2>9, <2>11, CostAdds
  <2>13. CostSum(e) = CostSum(Without(e, z))
    <3> HIDE DEF e, U
    <3> QED
      BY <2>9, <2>10, <2>12, PlusIs
  <2> QED
    BY <2>2, <2>7, <2>8, <2>13
<1>2. f = [x \in D |-> f[x]]
  OBVIOUS
<1>3. D \notin U /\ D \in SUBSET D
  BY <1>1
<1> QED
  BY <1>2, <1>3

\* What a card's attempts cost a role is what its results cost in all.
LEMMA CardCostIs ==
  ASSUME Typed, RolesTold, NEW c \in Cards, NEW r
  PROVE  CardCost(c, r) = CostBy(c, r)
<1> DEFINE D == DOMAIN log[c]
           P == Attempts(c)
           S == ResultsBy(c, r)
           f == [i \in D |-> IF i \in S THEN log[c][i].cost ELSE 0]
<1>0. log \in [Cards -> Seq(EventState)]
  BY DEF Typed
<1>1. S \in SUBSET D /\ EventCost(c, S) \in [S -> Price]
  BY ByAre
<1>2. /\ IsFiniteSet(P) /\ IsFiniteSet(D) /\ UNION P = D /\ \A I \in P : I \subseteq D
      /\ \A I, J \in P : I # J => I \cap J = {}
  <2>1. IsFiniteSet(P) /\ UNION P = D /\ P \in SUBSET SUBSET D
    BY AttemptsAre
  <2>2. IsFiniteSet(D)
    BY <1>0, IndicesAre
  <2>3. \A I, J \in P : I # J => I \cap J = {}
    <3> SUFFICES ASSUME NEW I \in P, NEW J \in P, I # J
                 PROVE  I \cap J = {}
      OBVIOUS
    <3>1. PICK s \in Starts(c) : I = From(c, s)
      BY AttemptsAre
    <3>2. PICK t \in Starts(c) : J = From(c, t)
      BY AttemptsAre
    <3>3. s # t
      BY <3>1, <3>2
    <3> QED
      BY <3>1, <3>2, <3>3, AttemptsAre
  <2> QED
    BY <2>1, <2>2, <2>3
<1>3. f \in [D -> Price] /\ \A i \in S : f[i] = log[c][i].cost /\ \A j \in D \ S : f[j] = 0
  <2>1. \A i \in D : log[c][i].cost \in Price
    BY <1>0, IndicesAre
  <2>2. 0 \in Price
    BY DEF Price
  <2> HIDE DEF S
  <2> QED
    BY <1>1, <2>1, <2>2
<1>4. \A i \in D \ S : f[i] = 0
  OBVIOUS
<1>5. ASSUME NEW I \in P
      PROVE  AttemptCost(c, I, r) = CostSum([i \in I |-> f[i]])
  <2> DEFINE T == S \cap I
             g == [i \in I |-> f[i]]
  <2>1. {i \in Results(c) \cap I : RoleOf(c, I, i) = r} = T
    <3>1. \A i \in Results(c) : i \in I => RoleOf(c, I, i) = RoleAt(log[c], i)
      BY RoleOfIs
    <3>2. \A i : i \in T <=> i \in Results(c) /\ i \in I /\ RoleAt(log[c], i) = r
      BY DEF ResultsBy
    <3> HIDE DEF T
    <3>3. \A i : i \in {j \in Results(c) \cap I : RoleOf(c, I, j) = r} <=> i \in T
      BY <3>1, <3>2
    <3> QED
      BY <3>3
  <2>2. I \subseteq D
    BY <1>2
  <2>3. IsFiniteSet(I)
    BY <1>2, <2>2, FS_Subset
  <2>4. T \in SUBSET I /\ T \subseteq S
    OBVIOUS
  <2>5. g \in [I -> Price] /\ \A x \in I \ T : g[x] = 0
    <3>1. \A x \in I : g[x] = f[x] /\ f[x] \in Price
      BY <1>3, <2>2
    <3>2. \A x \in I \ T : x \in D \ S
      BY <2>2
    <3> HIDE DEF f, T, S
    <3> QED
      BY <1>4, <3>1, <3>2
  <2>6. CostSum([x \in T |-> g[x]]) = CostSum(g)
    <3> HIDE DEF g, T
    <3> QED
      BY <2>3, <2>4, <2>5, CostOfSome
  <2>7. [x \in T |-> g[x]] = EventCost(c, T)
    <3>1. \A x \in T : g[x] = log[c][x].cost
      BY <1>3
    <3> HIDE DEF g, T
    <3> QED
      BY <3>1 DEF EventCost
  <2> HIDE DEF T, g
  <2> QED
    BY <2>1, <2>6, <2>7 DEF AttemptCost, g
<1>6. CostSum([i \in S |-> f[i]]) = CostSum(f)
  <2> HIDE DEF f, S, D
  <2> QED
    BY <1>1, <1>2, <1>3, <1>4, CostOfSome
<1>7. [i \in S |-> f[i]] = EventCost(c, S)
  <2>1. \A i \in S : f[i] = log[c][i].cost
    BY <1>3
  <2> HIDE DEF f, S
  <2> QED
    BY <2>1 DEF EventCost
<1>8. CostSum([I \in P |-> CostSum([i \in I |-> f[i]])]) = CostSum(f)
  <2>1. f \in [D -> Price]
    BY <1>3
  <2> HIDE DEF f, P, D
  <2> QED
    BY <1>2, <2>1, CostOfParts
<1>9. [I \in P |-> AttemptCost(c, I, r)] = [I \in P |-> CostSum([i \in I |-> f[i]])]
  <2> HIDE DEF f, P
  <2> QED
    BY <1>5
<1> HIDE DEF f
<1> QED
  BY <1>6, <1>7, <1>8, <1>9 DEF CardCost, CostBy

\* What the log says each card's worker and reviewer cost, and the board's rows, the card's cap
\* and the view by model, is what they cost.
THEOREM SpendCounted == Spec => []SpendIsCounted
<1>1. Typed /\ Money /\ RolesTold /\ RoleSums => SpendIsCounted
  <2> SUFFICES ASSUME Typed, Money, RolesTold, RoleSums, ~unheard, \A c \in Cards : due[c] = 0
               PROVE  /\ \A c \in Cards :
                           /\ \A r \in Roles : CardCost(c, r) = paid[c][r]
                           /\ CardSpend(c) = Total(c)
                           /\ Total(c) # NoPrice => UsageCost(c) = Total(c)
                      /\ \A r \in Roles : BoardCost(r) = CostSum([c \in Cards |-> paid[c][r]])
    BY DEF SpendIsCounted, Total
  <2>1. ASSUME NEW c \in Cards, NEW r \in Roles
        PROVE  CardCost(c, r) = paid[c][r]
    <3>1. CardCost(c, r) = CostBy(c, r) /\ CostBy(c, r) \in Price
      BY CardCostIs, ByAre
    <3>2. Plus(CostBy(c, r), 0) = paid[c][r]
      BY DEF RoleSums
    <3> QED
      BY <3>1, <3>2, PlusIs
  <2>2. \A c \in Cards : /\ CardSpend(c) = Total(c)
                         /\ Total(c) # NoPrice => UsageCost(c) = Total(c)
    BY SpendConstants, TotalIsRead
  <2>3. ASSUME NEW r \in Roles
        PROVE  BoardCost(r) = CostSum([c \in Cards |-> paid[c][r]])
    <3>1. [c \in Cards |-> CardCost(c, r)] = [c \in Cards |-> paid[c][r]]
      BY <2>1
    <3> QED
      BY <3>1 DEF BoardCost
  <2> QED
    BY <2>1, <2>2, <2>3
<1> QED
  BY <1>1, SpendAlways, PTL

-----------------------------------------------------------------------------
(* how an attempt of a log ended *)

\* Where the attempts of a log begin ...
StartsOf(q) == {i \in DOMAIN q : q[i].kind = "lifecycle_started"}
\* ... those begun by an event of it ...
Begun(q, i) == {s \in StartsOf(q) : s <= i}
\* ... its n-th attempt ...
Part(q, n) == {i \in DOMAIN q : Cardinality(Begun(q, i)) = n}
\* ... and the newest
Newest(q) == {i \in DOMAIN q : \A s \in StartsOf(q) : s <= i}

\* Some events of a log are of these kinds
Has(q, I, kinds) == \E i \in I : q[i].kind \in kinds
\* Those of a kind that carry a reason of note ...
Noted(q, I, kind, fine) == {i \in I : q[i].kind = kind /\ q[i].why \notin fine}
\* ... and the last such reason
LastWhy(q, J) == q[Max(J)].why

\* How an attempt ended: Outcome, of a log
OutcomeOf(q, I) ==
  IF Has(q, I, {"merge_request"}) THEN "pull request"
  ELSE IF Has(q, I, {"run_refused"}) THEN "refused"
  ELSE IF Has(q, I, {"run_stopped"}) THEN "stopped"
  ELSE IF Has(q, I, {"run_orphaned", "run_crashed"}) THEN "CRASH"
  ELSE IF Has(q, I, {"merge_conflict"}) THEN "MERGE_CONFLICT"
  ELSE IF Has(q, I, {"rebase_conflict"}) THEN "OUTDATED"
  ELSE IF Has(q, I, {"rate_limit"}) THEN "USAGE_LIMIT"
  ELSE IF Noted(q, I, "result", {"none"}) # {} THEN LastWhy(q, Noted(q, I, "result", {"none"}))
  ELSE IF Noted(q, I, "review_gate", {"approved"}) # {}
    THEN LastWhy(q, Noted(q, I, "review_gate", {"approved"}))
  ELSE IF Noted(q, I, "test_gate", {"none"}) # {}
    THEN IF Has(q, I, {"base_red"}) THEN "BASE_RED" ELSE "TESTS_FAILED"
  ELSE IF ~Has(q, I, {"worker_summary", "worker_skipped"}) THEN "refused" ELSE "in progress"

\* Each attempt that is over is told of, and so many are not over.
Recorded(q, h, on) ==
  /\ Cardinality(StartsOf(q)) = Len(h) + on
  /\ \A n \in 1..Cardinality(StartsOf(q)) : \E s \in StartsOf(q) : Cardinality(Begun(q, s)) = n
  /\ \A n \in DOMAIN h : ~h[n].odd => OutcomeOf(q, Part(q, n)) = h[n].how

\* The kinds that decide at once how an attempt ended
Deciding == EndKinds \cup {"run_orphaned", "base_red"}
\* Nothing in the newest attempt has marked its end, and no tests of it failed.
Undecided(q) == \A i \in Newest(q) :
  q[i].kind \notin Deciding /\ (q[i].kind = "test_gate" => q[i].why = "none")

\* No result in it carries a reason ...
NoReason(q) == \A i \in Newest(q) : q[i].kind = "result" => q[i].why = "none"
\* ... or the last one that does carries this one ...
LastReason(q, why) == \E i \in Newest(q) :
  /\ q[i].kind = "result" /\ q[i].why = why /\ why # "none"
  /\ \A j \in Newest(q) : i < j /\ q[j].kind = "result" => q[j].why = "none"

\* ... and a line of it tells of a limit.
Limit(q) == Has(q, Newest(q), {"rate_limit"})
\* What the newest attempt says of its agent `a`, a run's that is at `stage`
Stands(q, stage, a) ==
  /\ stage \in {"begun", "tests", "opening"} => NoReason(q) /\ ~Limit(q)
  /\ stage \in Roles =>
       /\ Limit(q) <=> a.limited
       /\ a.finals = 0 \/ a.why = "none" => NoReason(q)
       /\ a.finals = 1 /\ a.why # "none" => LastReason(q, Reason(a.why))
  /\ stage \in {"worked", "reviewed"} =>
       /\ a.why = "none" => NoReason(q) /\ ~Limit(q)
       /\ a.why # "none" => IF Limit(q) THEN a.why = "USAGE_LIMIT"
                            ELSE LastReason(q, Reason(a.why))

\* What the log of a card says of it
Tells(q, h, stage, a, off) ==
  /\ Recorded(q, h, IF stage = "idle" THEN 0 ELSE 1)
  /\ stage # "idle" => Undecided(q)
  /\ stage # "idle" /\ ~off => Stands(q, stage, a)

\* What the log of each card says of its attempts, those that are over and the one that is not
OutcomesTold == \A c \in Cards : Tells(log[c], ends[c], at[c], agent[c], astray[c])

\* The newest attempt is the last one.
LEMMA NewestIs ==
  ASSUME NEW q \in Seq(EventState)
  PROVE  /\ IsFiniteSet(StartsOf(q)) /\ Cardinality(StartsOf(q)) \in Nat
         /\ Part(q, Cardinality(StartsOf(q))) = Newest(q)
         /\ Newest(q) \in SUBSET DOMAIN q
         /\ \A i \in DOMAIN q : /\ Begun(q, i) \in SUBSET StartsOf(q)
                                /\ Cardinality(Begun(q, i)) \in 0..Cardinality(StartsOf(q))
<1>1. DOMAIN q \subseteq Int /\ IsFiniteSet(DOMAIN q)
  BY IndicesOf
<1>2. StartsOf(q) \in SUBSET DOMAIN q /\ Newest(q) \in SUBSET DOMAIN q
  BY DEF StartsOf, Newest
<1>3. IsFiniteSet(StartsOf(q))
  BY <1>1, <1>2, FS_Subset
<1>4. Cardinality(StartsOf(q)) \in Nat
  BY <1>3, FS_CardinalityType
<1>5. ASSUME NEW i \in DOMAIN q
      PROVE  /\ Begun(q, i) \in SUBSET StartsOf(q)
             /\ Cardinality(Begun(q, i)) \in 0..Cardinality(StartsOf(q))
             /\ Cardinality(Begun(q, i)) = Cardinality(StartsOf(q)) <=> i \in Newest(q)
  <2>1. Begun(q, i) \in SUBSET StartsOf(q)
    BY DEF Begun
  <2>2. /\ IsFiniteSet(Begun(q, i)) /\ Cardinality(Begun(q, i)) <= Cardinality(StartsOf(q))
        /\ Cardinality(Begun(q, i)) = Cardinality(StartsOf(q)) => Begun(q, i) = StartsOf(q)
    BY <1>3, <2>1, FS_Subset
  <2>3. Cardinality(Begun(q, i)) \in Nat
    BY <2>2, FS_CardinalityType
  <2>4. Begun(q, i) = StartsOf(q) <=> i \in Newest(q)
    BY DEF Begun, Newest
  <2> QED
    BY <1>4, <2>1, <2>2, <2>3, <2>4
<1>6. Part(q, Cardinality(StartsOf(q))) = Newest(q)
  BY <1>2, <1>5 DEF Part
<1> QED
  BY <1>2, <1>3, <1>4, <1>5, <1>6

\* A log goes on, and no attempt of it starts.
Extends(q, es, p) == p = q \o es /\ \A k \in 1..Len(es) : es[k].kind # "lifecycle_started"

\* What goes on after an attempt changes nothing in those before it.
LEMMA PartsGrow ==
  ASSUME NEW q \in Seq(EventState), NEW es \in Seq(EventState), NEW p, Extends(q, es, p)
  PROVE  /\ StartsOf(p) = StartsOf(q)
         /\ \A s \in StartsOf(q) : Begun(p, s) = Begun(q, s)
         /\ \A m : m # Cardinality(StartsOf(q)) => Part(p, m) = Part(q, m)
         /\ Newest(p) = Newest(q) \cup (DOMAIN p \ DOMAIN q)
<1>1. /\ p \in Seq(EventState) /\ Len(q) \in Nat /\ Len(es) \in Nat /\ DOMAIN q = 1..Len(q)
      /\ DOMAIN p = 1..(Len(q) + Len(es))
      /\ \A i \in DOMAIN q : i \in DOMAIN p /\ p[i] = q[i]
      /\ \A i \in DOMAIN p \ DOMAIN q : i - Len(q) \in 1..Len(es) /\ p[i] = es[i - Len(q)]
  BY Longer DEF Extends
<1>2. StartsOf(p) = StartsOf(q)
  BY <1>1 DEF StartsOf, Extends
<1>3. \A i : Begun(p, i) = Begun(q, i)
  BY <1>2 DEF Begun
<1>4. \A i \in DOMAIN p \ DOMAIN q : \A s \in StartsOf(q) : s <= i
  BY <1>1 DEF StartsOf
<1>5. Newest(p) = Newest(q) \cup (DOMAIN p \ DOMAIN q)
  BY <1>1, <1>2, <1>4 DEF Newest
<1>6. ASSUME NEW i \in DOMAIN p \ DOMAIN q
      PROVE  Cardinality(Begun(p, i)) = Cardinality(StartsOf(q))
  <2>1. Begun(q, i) = StartsOf(q)
    BY <1>4 DEF Begun
  <2> QED
    BY <1>3, <2>1
<1>7. \A m : m # Cardinality(StartsOf(q)) => Part(p, m) = Part(q, m)
  BY <1>1, <1>3, <1>6 DEF Part
<1> QED
  BY <1>2, <1>3, <1>5, <1>7

\* A start goes after a log.
Begins(q, e, p) == e.kind = "lifecycle_started" /\ p = q \o <<e>>

\* A start begins the next attempt.
LEMMA PartsBegin ==
  ASSUME NEW q \in Seq(EventState), NEW e \in EventState, NEW p, Begins(q, e, p)
  PROVE  /\ Cardinality(StartsOf(p)) = Cardinality(StartsOf(q)) + 1
         /\ StartsOf(p) = StartsOf(q) \cup {Len(q) + 1} /\ Len(q) + 1 \notin DOMAIN q
         /\ Cardinality(Begun(p, Len(q) + 1)) = Cardinality(StartsOf(q)) + 1
         /\ \A s \in StartsOf(q) : Begun(p, s) = Begun(q, s)
         /\ \A m \in 0..Cardinality(StartsOf(q)) : Part(p, m) = Part(q, m)
         /\ Newest(p) = {Len(q) + 1}
<1> DEFINE n == Len(q)
<1>1. /\ n \in Nat /\ p \in Seq(EventState) /\ DOMAIN q = 1..n /\ DOMAIN p = 1..(n + 1)
      /\ p[n + 1] = e /\ \A i \in 1..n : p[i] = q[i]
  <2>1. p = Append(q, e)
    BY AppendIsConcat DEF Begins
  <2> QED
    BY <2>1, OneLonger
<1> HIDE DEF n
<1>2. StartsOf(p) = StartsOf(q) \cup {n + 1} /\ n + 1 \notin StartsOf(q) /\ n + 1 \notin DOMAIN q
  BY <1>1 DEF StartsOf, Begins
<1>3. IsFiniteSet(StartsOf(q)) /\ Cardinality(StartsOf(q)) \in Nat
  BY NewestIs
<1>4. Cardinality(StartsOf(p)) = Cardinality(StartsOf(q)) + 1
  BY <1>2, <1>3, FS_AddElement
<1>5. \A i \in DOMAIN q : Begun(p, i) = Begun(q, i)
  BY <1>1, <1>2 DEF Begun
<1>6. Begun(p, n + 1) = StartsOf(p)
  BY <1>1 DEF Begun, StartsOf
<1>7. ASSUME NEW m \in 0..Cardinality(StartsOf(q))
      PROVE  Part(p, m) = Part(q, m)
  <2>1. Cardinality(Begun(p, n + 1)) # m
    BY <1>3, <1>4, <1>6
  <2> QED
    BY <1>1, <1>5, <2>1 DEF Part
<1>8. Newest(p) = {n + 1}
  BY <1>1, <1>2 DEF Newest, StartsOf
<1> QED
  BY <1>2, <1>4, <1>5, <1>6, <1>7, <1>8 DEF n, StartsOf

\* How an attempt ended is read off its own events.
LEMMA OutcomeSame ==
  ASSUME NEW q \in Seq(EventState), NEW I \in SUBSET DOMAIN q, NEW p, \A i \in I : p[i] = q[i]
  PROVE  OutcomeOf(p, I) = OutcomeOf(q, I)
<1>1. \A kinds : Has(p, I, kinds) <=> Has(q, I, kinds)
  BY DEF Has
<1>2. ASSUME NEW kind, NEW fine
      PROVE  /\ Noted(p, I, kind, fine) = Noted(q, I, kind, fine)
             /\ Noted(q, I, kind, fine) # {} =>
                  LastWhy(p, Noted(q, I, kind, fine)) = LastWhy(q, Noted(q, I, kind, fine))
  <2> DEFINE J == Noted(q, I, kind, fine)
  <2>1. Noted(p, I, kind, fine) = J /\ J \in SUBSET I
    BY DEF Noted
  <2>2. J \subseteq Int /\ IsFiniteSet(J)
    <3>1. DOMAIN q \subseteq Int /\ IsFiniteSet(DOMAIN q) /\ J \in SUBSET DOMAIN q
      BY <2>1, IndicesOf
    <3> HIDE DEF J
    <3> QED
      BY <3>1, FS_Subset
  <2> HIDE DEF J
  <2>3. J # {} => Max(J) \in J
    BY <2>2, MaxIs
  <2>4. J # {} => LastWhy(p, J) = LastWhy(q, J)
    BY <2>1, <2>3 DEF LastWhy
  <2> QED
    BY <2>1, <2>4 DEF J
<1> QED
  BY <1>1, <1>2 DEF OutcomeOf

\* A mark of the end decides by itself.
LEMMA OutcomeMarked ==
  ASSUME NEW q \in Seq(EventState), NEW I \in SUBSET DOMAIN q, NEW m \in I,
         q[m].kind \in EndKinds \cup {"run_orphaned"},
         \A i \in I : q[i].kind \in Deciding => q[i].kind = q[m].kind
  PROVE  /\ q[m].kind = "run_orphaned" => OutcomeOf(q, I) = "CRASH"
         /\ q[m].kind \in EndKinds => OutcomeOf(q, I) = MarkOf(q[m].kind)
<1>1. \A kind \in EndKinds \cup {"run_orphaned"} :
        \A kinds : Has(q, I, kinds) /\ kinds \subseteq Deciding => q[m].kind \in kinds
  BY DEF Has
<1>2. \A kinds : q[m].kind \in kinds => Has(q, I, kinds)
  BY DEF Has
<1>3. \A kinds : kinds \in SUBSET Deciding => (Has(q, I, kinds) <=> q[m].kind \in kinds)
  BY <1>1, <1>2
<1>4. /\ Has(q, I, {"merge_request"}) <=> q[m].kind = "merge_request"
      /\ Has(q, I, {"run_refused"}) <=> q[m].kind = "run_refused"
      /\ Has(q, I, {"run_stopped"}) <=> q[m].kind = "run_stopped"
      /\ Has(q, I, {"run_orphaned", "run_crashed"}) <=> q[m].kind \in {"run_orphaned",
           "run_crashed"}
      /\ Has(q, I, {"merge_conflict"}) <=> q[m].kind = "merge_conflict"
      /\ Has(q, I, {"rebase_conflict"}) <=> q[m].kind = "rebase_conflict"
  <2>1. /\ {"merge_request"} \in SUBSET Deciding /\ {"run_refused"} \in SUBSET Deciding
        /\ {"run_stopped"} \in SUBSET Deciding
        /\ {"run_orphaned", "run_crashed"} \in SUBSET Deciding
        /\ {"merge_conflict"} \in SUBSET Deciding /\ {"rebase_conflict"} \in SUBSET Deciding
    BY DEF Deciding, EndKinds
  <2> QED
    BY <1>3, <2>1
<1> QED
  BY <1>4 DEF OutcomeOf, MarkOf, EndKinds

\* The last reason is that of an event that none follows.
LEMMA LastIs ==
  ASSUME NEW q \in Seq(EventState), NEW J \in SUBSET DOMAIN q, NEW m \in J, \A i \in J : ~(m < i)
  PROVE  LastWhy(q, J) = q[m].why
<1>1. DOMAIN q \subseteq Int /\ IsFiniteSet(DOMAIN q)
  BY IndicesOf
<1>2. J \subseteq Int /\ IsFiniteSet(J)
  BY <1>1, FS_Subset
<1>3. \A i \in J : i <= m
  BY <1>2
<1>4. Max(J) = m
  BY <1>2, <1>3, ExtremeIs
<1> QED
  BY <1>4 DEF LastWhy

\* Without a mark of the end a limit decides, and without one what the agents and the gates said.
LEMMA OutcomeRead ==
  ASSUME NEW q \in Seq(EventState), NEW I \in SUBSET DOMAIN q,
         \A i \in I : q[i].kind \notin EndKinds \cup {"run_orphaned"}
  PROVE  /\ Has(q, I, {"rate_limit"}) => OutcomeOf(q, I) = "USAGE_LIMIT"
         /\ ~Has(q, I, {"rate_limit"}) =>
              /\ \A m \in I :
                   /\ q[m].kind = "result" /\ q[m].why # "none"
                   /\ \A j \in I : m < j /\ q[j].kind = "result" => q[j].why = "none"
                   => OutcomeOf(q, I) = q[m].why
              /\ (\A i \in I : q[i].kind = "result" => q[i].why = "none") =>
                   /\ \A m \in I :
                        /\ q[m].kind = "review_gate" /\ q[m].why # "approved"
                        /\ \A j \in I : m < j /\ q[j].kind = "review_gate" => q[j].why = "approved"
                        => OutcomeOf(q, I) = q[m].why
                   /\ (\A i \in I : q[i].kind = "review_gate" => q[i].why = "approved")
                      /\ (\E i \in I : q[i].kind = "test_gate" /\ q[i].why # "none")
                      => OutcomeOf(q, I) = IF Has(q, I, {"base_red"}) THEN "BASE_RED"
                                           ELSE "TESTS_FAILED"
<1>1. \A kinds : kinds \in SUBSET (EndKinds \cup {"run_orphaned"}) => ~Has(q, I, kinds)
  BY DEF Has
<1>2. /\ ~Has(q, I, {"merge_request"}) /\ ~Has(q, I, {"run_refused"}) /\ ~Has(q, I, {"run_stopped"})
      /\ ~Has(q, I, {"run_orphaned", "run_crashed"}) /\ ~Has(q, I, {"merge_conflict"})
      /\ ~Has(q, I, {"rebase_conflict"})
  <2> DEFINE E == EndKinds \cup {"run_orphaned"}
  <2>1. /\ {"merge_request"} \in SUBSET E /\ {"run_refused"} \in SUBSET E
        /\ {"run_stopped"} \in SUBSET E /\ {"run_orphaned", "run_crashed"} \in SUBSET E
        /\ {"merge_conflict"} \in SUBSET E /\ {"rebase_conflict"} \in SUBSET E
    BY DEF EndKinds
  <2> QED
    BY <1>1, <2>1
<1>3. Has(q, I, {"rate_limit"}) => OutcomeOf(q, I) = "USAGE_LIMIT"
  BY <1>2 DEF OutcomeOf
<1>4. ASSUME ~Has(q, I, {"rate_limit"}), NEW m \in I, q[m].kind = "result", q[m].why # "none",
             \A j \in I : m < j /\ q[j].kind = "result" => q[j].why = "none"
      PROVE  OutcomeOf(q, I) = q[m].why
  <2>1. /\ LastWhy(q, Noted(q, I, "result", {"none"})) = q[m].why
        /\ Noted(q, I, "result", {"none"}) # {}
    <3> DEFINE J == Noted(q, I, "result", {"none"})
    <3>1. J \in SUBSET DOMAIN q /\ m \in J /\ \A i \in J : ~(m < i)
      BY <1>4 DEF Noted
    <3> HIDE DEF J
    <3>2. LastWhy(q, J) = q[m].why /\ J # {}
      BY <3>1, LastIs
    <3> QED
      BY <3>2 DEF J
  <2> QED
    BY <1>2, <1>4, <2>1 DEF OutcomeOf
<1>5. ASSUME \A i \in I : q[i].kind = "result" => q[i].why = "none"
      PROVE  Noted(q, I, "result", {"none"}) = {}
  BY <1>5 DEF Noted
<1>6. ASSUME ~Has(q, I, {"rate_limit"}), \A i \in I : q[i].kind = "result" => q[i].why = "none",
             NEW m \in I, q[m].kind = "review_gate", q[m].why # "approved",
             \A j \in I : m < j /\ q[j].kind = "review_gate" => q[j].why = "approved"
      PROVE  OutcomeOf(q, I) = q[m].why
  <2>1. /\ LastWhy(q, Noted(q, I, "review_gate", {"approved"})) = q[m].why
        /\ Noted(q, I, "review_gate", {"approved"}) # {}
    <3> DEFINE J == Noted(q, I, "review_gate", {"approved"})
    <3>1. J \in SUBSET DOMAIN q /\ m \in J /\ \A i \in J : ~(m < i)
      BY <1>6 DEF Noted
    <3> HIDE DEF J
    <3>2. LastWhy(q, J) = q[m].why /\ J # {}
      BY <3>1, LastIs
    <3> QED
      BY <3>2 DEF J
  <2>2. Noted(q, I, "result", {"none"}) = {}
    BY <1>5, <1>6
  <2> QED
    BY <1>2, <1>6, <2>1, <2>2 DEF OutcomeOf
<1>7. ASSUME ~Has(q, I, {"rate_limit"}), \A i \in I : q[i].kind = "result" => q[i].why = "none",
             \A i \in I : q[i].kind = "review_gate" => q[i].why = "approved",
             NEW m \in I, q[m].kind = "test_gate", q[m].why # "none"
      PROVE  OutcomeOf(q, I) = IF Has(q, I, {"base_red"}) THEN "BASE_RED" ELSE "TESTS_FAILED"
  <2>1. Noted(q, I, "result", {"none"}) = {}
    BY <1>5, <1>7
  <2>2. Noted(q, I, "review_gate", {"approved"}) = {} /\ Noted(q, I, "test_gate", {"none"}) # {}
    BY <1>7 DEF Noted
  <2> QED
    BY <1>2, <1>7, <2>1, <2>2 DEF OutcomeOf
<1> QED
  BY <1>3, <1>4, <1>6, <1>7

\* Seven and three are ten.
LEMMA Joined ==
  ASSUME NEW T, NEW a \in Seq(T), NEW b \in Seq(T), Len(a) = 7, Len(b) = 3
  PROVE  /\ DOMAIN (a \o b) = 1..10
         /\ \A i \in 1..10 : (a \o b)[i] = IF i <= 7 THEN a[i] ELSE b[i - 7]
<1>1. /\ a \o b \in Seq(T) /\ Len(a \o b) = Len(a) + Len(b)
      /\ \A i \in 1..(Len(a) + Len(b)) : (a \o b)[i] = IF i <= Len(a) THEN a[i] ELSE b[i - Len(a)]
  BY ConcatProperties
<1>2. DOMAIN (a \o b) = 1..Len(a \o b)
  BY <1>1, LenProperties
<1>3. Len(a) + Len(b) = 10
  OBVIOUS
<1>4. Len(a \o b) = 10 /\ 1..(Len(a) + Len(b)) = 1..10
  BY <1>1, <1>3, Zenon
<1>5. DOMAIN (a \o b) = 1..10
  BY <1>2, <1>4, Zenon
<1>6. \A i \in 1..10 : (a \o b)[i] = IF i <= 7 THEN a[i] ELSE b[i - 7]
  BY <1>1, <1>4, Zenon
<1> QED
  BY <1>5, <1>6

\* Ten signs, one after another
LEMMA JoinedSigns ==
  ASSUME NEW a1, NEW a2, NEW a3, NEW a4, NEW a5, NEW a6, NEW a7, NEW b1, NEW b2, NEW b3, NEW s,
         s = <<a1, a2, a3, a4, a5, a6, a7>> \o <<b1, b2, b3>>
  PROVE  /\ DOMAIN s = 1..10
         /\ s[1] = a1 /\ s[2] = a2 /\ s[3] = a3 /\ s[4] = a4 /\ s[5] = a5 /\ s[6] = a6 /\ s[7] = a7
         /\ s[8] = b1 /\ s[9] = b2 /\ s[10] = b3
<1> DEFINE T == {a1, a2, a3, a4, a5, a6, a7, b1, b2, b3}
           a == <<a1, a2, a3, a4, a5, a6, a7>>
           b == <<b1, b2, b3>>
<1>1. a \in Seq(T) /\ b \in Seq(T) /\ Len(a) = 7 /\ Len(b) = 3
  OBVIOUS
<1>2. /\ a[1] = a1 /\ a[2] = a2 /\ a[3] = a3 /\ a[4] = a4 /\ a[5] = a5 /\ a[6] = a6 /\ a[7] = a7
      /\ b[1] = b1 /\ b[2] = b2 /\ b[3] = b3
  OBVIOUS
<1>3. s = a \o b
  OBVIOUS
<1> HIDE DEF T, a, b
<1>4. /\ DOMAIN s = 1..10
      /\ \A i \in 1..10 : s[i] = IF i <= 7 THEN a[i] ELSE b[i - 7]
  <2>1. /\ DOMAIN (a \o b) = 1..10
        /\ \A i \in 1..10 : (a \o b)[i] = IF i <= 7 THEN a[i] ELSE b[i - 7]
    BY <1>1, Joined
  <2> DEFINE r == a \o b
  <2>2. DOMAIN r = 1..10 /\ \A i \in 1..10 : r[i] = IF i <= 7 THEN a[i] ELSE b[i - 7]
    BY <2>1
  <2>3. s = r
    BY <1>3
  <2> HIDE DEF r
  <2> QED
    BY <2>2, <2>3
<1> QED
  BY <1>2, <1>4

\* There are ten of them.
LEMMA UpToTen == IsFiniteSet(1..10)
<1> DEFINE n == 10
<1>1. 1 \in Int /\ n \in Int
  OBVIOUS
<1> HIDE DEF n
<1>2. IsFiniteSet(1..n)
  BY <1>1, FS_Interval
<1> QED
  BY <1>2 DEF n

\* The first sign that is seen decides.
LEMMA FirstSign ==
  ASSUME NEW s, DOMAIN s = 1..10, NEW seen, seen = {n \in DOMAIN s : s[n][1] # {}},
         NEW k \in 1..10, s[k][1] # {}, \A j \in 1..10 : j < k => s[j][1] = {}
  PROVE  seen # {} /\ Min(seen) = k
<1>1. k \in seen /\ \A j \in seen : ~(j < k)
  OBVIOUS
<1>2. seen \subseteq Int /\ IsFiniteSet(seen)
  <2>1. IsFiniteSet(1..10) /\ seen \in SUBSET (1..10)
    BY UpToTen
  <2> QED
    BY <2>1, FS_Subset
<1>3. \A j \in seen : k <= j
  BY <1>1, <1>2
<1> QED
  BY <1>1, <1>2, <1>3, ExtremeIs

\* The first of ten signs
LEMMA FirstOfTen ==
  ASSUME NEW s, DOMAIN s = 1..10, NEW seen \in SUBSET DOMAIN s,
         \A n \in DOMAIN s : n \in seen <=> s[n][1] # {}
  PROVE  /\ seen = {} => \A k \in 1..10 : s[k][1] = {}
         /\ \A k \in 1..10 : s[k][1] # {} /\ (\A j \in 1..10 : j < k => s[j][1] = {}) =>
              seen # {} /\ Min(seen) = k
<1>1. seen = {n \in DOMAIN s : s[n][1] # {}}
  OBVIOUS
<1>2. ASSUME NEW k \in 1..10, s[k][1] # {}, \A j \in 1..10 : j < k => s[j][1] = {}
      PROVE  seen # {} /\ Min(seen) = k
  BY <1>1, <1>2, FirstSign
<1> QED
  BY <1>2

\* What is read of an attempt of a card is what its log says.
LEMMA OutcomeReads ==
  ASSUME NEW c \in Cards, NEW I
  PROVE  Outcome(c, I) = OutcomeOf(log[c], I)
<1> DEFINE q == log[c]
           s == Signs(c, I)
           seen == {n \in DOMAIN s : s[n][1] # {}}
           k1 == Kind(c, I, {"merge_request"})
           k2 == Kind(c, I, {"run_refused"})
           k3 == Kind(c, I, {"run_stopped"})
           k4 == Kind(c, I, {"run_orphaned", "run_crashed"})
           k5 == Kind(c, I, {"merge_conflict"})
           k6 == Kind(c, I, {"rebase_conflict"})
           k7 == Kind(c, I, {"rate_limit"})
           k8 == Noted(q, I, "result", {"none"})
           k9 == Noted(q, I, "review_gate", {"approved"})
           k10 == Noted(q, I, "test_gate", {"none"})
           why8 == WhyOf(c, k8)
           why9 == WhyOf(c, k9)
           red == IF Has(q, I, {"base_red"}) THEN "BASE_RED" ELSE "TESTS_FAILED"
           rest == IF Kind(c, I, {"worker_summary", "worker_skipped"}) = {} THEN "refused"
                   ELSE "in progress"
           a1 == <<k1, "pull request">>
           a2 == <<k2, "refused">>
           a3 == <<k3, "stopped">>
           a4 == <<k4, "CRASH">>
           a5 == <<k5, "MERGE_CONFLICT">>
           a6 == <<k6, "OUTDATED">>
           a7 == <<k7, "USAGE_LIMIT">>
           a8 == <<k8, why8>>
           a9 == <<k9, why9>>
           a10 == <<k10, red>>
<1>1. \A kinds : Kind(c, I, kinds) # {} <=> Has(q, I, kinds)
  BY DEF Kind, Has
<1>2. \A kind, fine : {i \in Kind(c, I, {kind}) : log[c][i].why \notin fine}
                        = Noted(q, I, kind, fine)
  BY DEF Kind, Noted
<1>3. Verdicts(c, I) = <<a8, a9, a10>>
  <2>1. /\ {i \in Kind(c, I, {"result"}) : log[c][i].why \notin {"none"}} = k8
        /\ {i \in Kind(c, I, {"review_gate"}) : log[c][i].why \notin {"approved"}} = k9
        /\ {i \in Kind(c, I, {"test_gate"}) : log[c][i].why \notin {"none"}} = k10
    BY <1>2, Zenon
  <2>2. (IF Kind(c, I, {"base_red"}) # {} THEN "BASE_RED" ELSE "TESTS_FAILED") = red
    BY <1>1, Zenon
  <2> HIDE DEF k8, k9, k10, red
  <2> QED
    BY <2>1, <2>2 DEF Verdicts
<1>4. Marks(c, I) = <<a1, a2, a3, a4, a5, a6, a7>>
  BY DEF Marks
<1> HIDE DEF k1, k2, k3, k4, k5, k6, k7, k8, k9, k10, why8, why9, red, rest
<1>0. /\ a1[1] = k1 /\ a2[1] = k2 /\ a3[1] = k3 /\ a4[1] = k4 /\ a5[1] = k5
      /\ a6[1] = k6 /\ a7[1] = k7 /\ a8[1] = k8 /\ a9[1] = k9 /\ a10[1] = k10
      /\ a1[2] = "pull request" /\ a2[2] = "refused" /\ a3[2] = "stopped" /\ a4[2] = "CRASH"
      /\ a5[2] = "MERGE_CONFLICT" /\ a6[2] = "OUTDATED" /\ a7[2] = "USAGE_LIMIT"
      /\ a8[2] = why8 /\ a9[2] = why9 /\ a10[2] = red
  OBVIOUS
<1> HIDE DEF a1, a2, a3, a4, a5, a6, a7, a8, a9, a10
<1>5. s = <<a1, a2, a3, a4, a5, a6, a7>> \o <<a8, a9, a10>>
  BY <1>3, <1>4 DEF Signs
<1>6. Outcome(c, I) = IF seen # {} THEN s[Min(seen)][2] ELSE rest
  BY DEF Outcome, rest
<1> HIDE DEF s
<1>7. /\ DOMAIN s = 1..10
      /\ s[1] = a1 /\ s[2] = a2 /\ s[3] = a3 /\ s[4] = a4 /\ s[5] = a5 /\ s[6] = a6 /\ s[7] = a7
      /\ s[8] = a8 /\ s[9] = a9 /\ s[10] = a10
  BY <1>5, JoinedSigns
<1>8. /\ s[1][1] = k1 /\ s[2][1] = k2 /\ s[3][1] = k3 /\ s[4][1] = k4 /\ s[5][1] = k5
      /\ s[6][1] = k6 /\ s[7][1] = k7 /\ s[8][1] = k8 /\ s[9][1] = k9 /\ s[10][1] = k10
  BY <1>0, <1>7, Zenon
<1>9. /\ s[1][2] = "pull request" /\ s[2][2] = "refused" /\ s[3][2] = "stopped"
      /\ s[4][2] = "CRASH" /\ s[5][2] = "MERGE_CONFLICT" /\ s[6][2] = "OUTDATED"
      /\ s[7][2] = "USAGE_LIMIT" /\ s[8][2] = why8 /\ s[9][2] = why9 /\ s[10][2] = red
  BY <1>0, <1>7, Zenon
<1>10. Outcome(c, I) =
         IF k1 # {} THEN "pull request" ELSE IF k2 # {} THEN "refused" 
         ELSE IF k3 # {} THEN "stopped" ELSE IF k4 # {} THEN "CRASH"
         ELSE IF k5 # {} THEN "MERGE_CONFLICT"
         ELSE IF k6 # {} THEN "OUTDATED" ELSE IF k7 # {} THEN "USAGE_LIMIT"
         ELSE IF k8 # {} THEN why8 ELSE IF k9 # {} THEN why9 ELSE IF k10 # {} THEN red ELSE rest
  <2>1. /\ seen \in SUBSET DOMAIN s /\ \A n \in DOMAIN s : n \in seen <=> s[n][1] # {}
        /\ DOMAIN s = 1..10
    BY <1>7
  <2> HIDE DEF seen
  <2>2. ASSUME NEW k \in 1..10, s[k][1] # {}, \A j \in 1..10 : j < k => s[j][1] = {}
        PROVE  Outcome(c, I) = s[k][2]
    <3>1. \A m \in 1..10 : s[m][1] # {} /\ (\A j \in 1..10 : j < m => s[j][1] = {}) =>
            seen # {} /\ Min(seen) = m
      BY <2>1, FirstOfTen
    <3>2. seen # {} /\ Min(seen) = k
      BY <2>2, <3>1, Zenon
    <3> QED
      BY <1>6, <3>2, Zenon
  <2>3. (\A k \in 1..10 : s[k][1] = {}) => Outcome(c, I) = rest
    BY <1>6, <2>1
  <2> DEFINE o == Outcome(c, I)
  <2>4. /\ \A k \in 1..10 : s[k][1] # {} /\ (\A j \in 1..10 : j < k => s[j][1] = {}) => o = s[k][2]
        /\ (\A k \in 1..10 : s[k][1] = {}) => o = rest
    BY <2>2, <2>3
  <2> HIDE DEF o
  <2>5. /\ s[1][1] # {} => o = s[1][2]
        /\ s[1][1] = {} /\ s[2][1] # {} => o = s[2][2]
        /\ s[1][1] = {} /\ s[2][1] = {} /\ s[3][1] # {} => o = s[3][2]
        /\ s[1][1] = {} /\ s[2][1] = {} /\ s[3][1] = {} /\ s[4][1] # {} => o = s[4][2]
        /\ s[1][1] = {} /\ s[2][1] = {} /\ s[3][1] = {} /\ s[4][1] = {} /\ s[5][1] # {}
             => o = s[5][2]
    BY <2>4
  <2>6. ASSUME s[1][1] = {}, s[2][1] = {}, s[3][1] = {}, s[4][1] = {}, s[5][1] = {}
        PROVE  /\ s[6][1] # {} => o = s[6][2]
               /\ s[6][1] = {} /\ s[7][1] # {} => o = s[7][2]
               /\ s[6][1] = {} /\ s[7][1] = {} /\ s[8][1] # {} => o = s[8][2]
               /\ s[6][1] = {} /\ s[7][1] = {} /\ s[8][1] = {} /\ s[9][1] # {} => o = s[9][2]
               /\ s[6][1] = {} /\ s[7][1] = {} /\ s[8][1] = {} /\ s[9][1] = {} /\ s[10][1] # {}
                    => o = s[10][2]
               /\ s[6][1] = {} /\ s[7][1] = {} /\ s[8][1] = {} /\ s[9][1] = {} /\ s[10][1] = {}
                    => o = rest
    BY <2>4, <2>6
  <2>7. o = IF s[1][1] # {} THEN s[1][2] ELSE IF s[2][1] # {} THEN s[2][2]
            ELSE IF s[3][1] # {} THEN s[3][2] ELSE IF s[4][1] # {} THEN s[4][2]
            ELSE IF s[5][1] # {} THEN s[5][2] ELSE IF s[6][1] # {} THEN s[6][2]
            ELSE IF s[7][1] # {} THEN s[7][2] ELSE IF s[8][1] # {} THEN s[8][2]
            ELSE IF s[9][1] # {} THEN s[9][2] ELSE IF s[10][1] # {} THEN s[10][2] ELSE rest
    BY <2>5, <2>6
  <2> QED
    BY <1>8, <1>9, <2>7, Zenon DEF o
<1>11. /\ k1 # {} <=> Has(q, I, {"merge_request"})
       /\ k2 # {} <=> Has(q, I, {"run_refused"})
       /\ k3 # {} <=> Has(q, I, {"run_stopped"})
       /\ k4 # {} <=> Has(q, I, {"run_orphaned", "run_crashed"})
       /\ k5 # {} <=> Has(q, I, {"merge_conflict"})
       /\ k6 # {} <=> Has(q, I, {"rebase_conflict"})
       /\ k7 # {} <=> Has(q, I, {"rate_limit"})
  BY <1>1, Zenon DEF k1, k2, k3, k4, k5, k6, k7
<1>12. /\ k8 # {} => why8 = LastWhy(q, k8)
       /\ k9 # {} => why9 = LastWhy(q, k9)
  BY DEF why8, why9, WhyOf, LastWhy
<1>13. rest = IF ~Has(q, I, {"worker_summary", "worker_skipped"}) THEN "refused" ELSE "in progress"
  BY <1>1, Zenon DEF rest
<1> QED
  BY <1>10, <1>11, <1>12, <1>13 DEF OutcomeOf, k8, k9, k10, red

\* The attempt that begins with a start is the one of its number.
LEMMA FromIs ==
  ASSUME Typed, NEW c \in Cards, NEW s \in Starts(c)
  PROVE  /\ From(c, s) = Part(log[c], Cardinality(Begun(log[c], s)))
         /\ s \in From(c, s) /\ Min(From(c, s)) = s
         /\ {t \in Starts(c) : t <= s} = Begun(log[c], s)
<1> DEFINE q == log[c]
<1>0. q \in Seq(EventState)
  BY DEF Typed
<1>1. DOMAIN q \subseteq Int /\ IsFiniteSet(DOMAIN q)
  BY <1>0, IndicesOf
<1>2. Starts(c) = StartsOf(q) /\ StartsOf(q) \in SUBSET DOMAIN q
  BY DEF Starts, Kind, StartsOf
<1>3. IsFiniteSet(StartsOf(q))
  BY <1>1, <1>2, FS_Subset
<1>4. s \in StartsOf(q) /\ s \in DOMAIN q /\ s \in Int /\ \A t \in StartsOf(q) : t \in Int
  BY <1>1, <1>2
<1>5. {t \in Starts(c) : t <= s} = Begun(q, s)
  BY <1>2 DEF Begun
<1>6. \A i : i \in From(c,
        s) <=> i \in DOMAIN q /\ s <= i /\ ~\E t \in StartsOf(q) : s < t /\ t <= i
  BY <1>1, <1>2, <1>4 DEF From
<1>7. ASSUME NEW i \in DOMAIN q
      PROVE  i \in From(c, s) <=> Cardinality(Begun(q, i)) = Cardinality(Begun(q, s))
  <2>1. i \in Int
    BY <1>1
  <2>2. ASSUME i \in From(c, s)
        PROVE  Begun(q, i) = Begun(q, s)
    <3>1. \A t \in StartsOf(q) : t <= i <=> t <= s
      BY <1>4, <1>6, <2>1, <2>2
    <3> QED
      BY <3>1 DEF Begun
  <2>3. ASSUME Cardinality(Begun(q, i)) = Cardinality(Begun(q, s))
        PROVE  Begun(q, i) = Begun(q, s)
    <3>1. Begun(q, i) \in SUBSET StartsOf(q) /\ Begun(q, s) \in SUBSET StartsOf(q)
      BY DEF Begun
    <3>2. IsFiniteSet(Begun(q, i)) /\ IsFiniteSet(Begun(q, s))
      BY <1>3, <3>1, FS_Subset
    <3>3. Begun(q, i) \in SUBSET Begun(q, s) \/ Begun(q, s) \in SUBSET Begun(q, i)
      <4>1. CASE i <= s
        <5>1. \A t \in StartsOf(q) : t <= i => t <= s
          BY <1>4, <2>1, <4>1
        <5> QED
          BY <5>1 DEF Begun
      <4>2. CASE s <= i
        <5>1. \A t \in StartsOf(q) : t <= s => t <= i
          BY <1>4, <2>1, <4>2
        <5> QED
          BY <5>1 DEF Begun
      <4> QED
        BY <1>4, <2>1, <4>1, <4>2
    <3> QED
      BY <2>3, <3>2, <3>3, FS_Subset
  <2>4. ASSUME Begun(q, i) = Begun(q, s)
        PROVE  i \in From(c, s)
    <3>1. \A t \in StartsOf(q) : t <= i <=> t <= s
      BY <2>4 DEF Begun
    <3>2. s <= i
      BY <1>4, <3>1
    <3>3. ~\E t \in StartsOf(q) : s < t /\ t <= i
      BY <1>4, <3>1
    <3> QED
      BY <1>6, <3>2, <3>3
  <2> QED
    BY <2>2, <2>3, <2>4
<1>8. From(c, s) = Part(q, Cardinality(Begun(q, s)))
  <2>1. From(c, s) \in SUBSET DOMAIN q /\ Part(q, Cardinality(Begun(q, s))) \in SUBSET DOMAIN q
    BY DEF From, Part
  <2>2. \A i \in DOMAIN q : i \in Part(q, Cardinality(Begun(q, s)))
          <=> Cardinality(Begun(q, i)) = Cardinality(Begun(q, s))
    BY DEF Part
  <2> QED
    BY <1>7, <2>1, <2>2
<1>9. s \in From(c, s)
  BY <1>4, <1>7
<1>10. Min(From(c, s)) = s
  <2> DEFINE F == From(c, s)
  <2>1. F \in SUBSET DOMAIN q /\ s \in F /\ \A i \in F : s <= i
    BY <1>6, <1>9
  <2>2. F \subseteq Int /\ IsFiniteSet(F)
    <3> HIDE DEF F
    <3> QED
      BY <1>1, <2>1, FS_Subset
  <2> HIDE DEF F
  <2>3. Min(F) = s
    BY <2>1, <2>2, ExtremeIs
  <2> QED
    BY <2>3 DEF F
<1> QED
  BY <1>5, <1>8, <1>9, <1>10 DEF q

\* The attempts of a card are counted from its first start on.
LEMMA NthIs ==
  ASSUME Typed, RolesTold, NEW c \in Cards, NEW n,
         \E s \in StartsOf(log[c]) : Cardinality(Begun(log[c], s)) = n
  PROVE  Nth(c, n) = Part(log[c], n)
<1>1. Starts(c) = StartsOf(log[c])
  BY DEF Starts, Kind, StartsOf
<1>2. Attempts(c) = {From(c, s) : s \in Starts(c)}
  BY AttemptsAre
<1> DEFINE number(I) == Cardinality({s \in Starts(c) : s <= Min(I)})
<1>3. \A s \in Starts(c) : /\ number(From(c, s)) = Cardinality(Begun(log[c], s))
                           /\ From(c, s) = Part(log[c], Cardinality(Begun(log[c], s)))
  <2> SUFFICES ASSUME NEW s \in Starts(c)
               PROVE  /\ number(From(c, s)) = Cardinality(Begun(log[c], s))
                      /\ From(c, s) = Part(log[c], Cardinality(Begun(log[c], s)))
    OBVIOUS
  <2>1. /\ From(c, s) = Part(log[c], Cardinality(Begun(log[c], s)))
        /\ Min(From(c, s)) = s /\ {t \in Starts(c) : t <= s} = Begun(log[c], s)
    BY FromIs
  <2>2. number(From(c, s)) = Cardinality({t \in Starts(c) : t <= s})
    BY <2>1
  <2> QED
    BY <2>1, <2>2
<1>4. Nth(c, n) = CHOOSE I \in Attempts(c) : number(I) = n
  BY DEF Nth
<1> HIDE DEF number
<1>5. \E I \in Attempts(c) : number(I) = n
  BY <1>1, <1>2, <1>3
<1>6. Nth(c, n) \in Attempts(c) /\ number(Nth(c, n)) = n
  BY <1>4, <1>5
<1> QED
  BY <1>2, <1>3, <1>6

\* The latest attempt of a card is its newest.
LEMMA LatestIs ==
  ASSUME Typed, RolesTold, NEW c \in Cards, log[c] # <<>>
  PROVE  Latest(c) = Newest(log[c])
<1> DEFINE q == log[c]
           n == Len(q)
<1>0. q \in Seq(EventState)
  BY DEF Typed
<1>1. DOMAIN q = 1..n /\ n \in Nat /\ IsFiniteSet(DOMAIN q) /\ DOMAIN q \subseteq Int
  BY <1>0, IndicesOf
<1>2. n \in DOMAIN q
  BY <1>0, <1>1
<1>3. Starts(c) = StartsOf(q) /\ StartsOf(q) \in SUBSET DOMAIN q
  BY DEF Starts, Kind, StartsOf
<1>4. /\ Attempts(c) = {From(c, s) : s \in Starts(c)}
      /\ Attempts(c) \in SUBSET SUBSET DOMAIN q /\ UNION Attempts(c) = DOMAIN q
      /\ \A s \in Starts(c) : s \in From(c, s)
      /\ \A s, t \in Starts(c) : s # t => From(c, s) \cap From(c, t) = {}
  BY AttemptsAre
<1> HIDE DEF q
<1>5. PICK m \in Starts(c) : n \in From(c, m)
  BY <1>2, <1>4
<1>6. From(c, m) = Newest(q)
  <2>1. m \in Int /\ \A t \in StartsOf(q) : t \in Int /\ t <= n
    BY <1>1, <1>3
  <2>2. \A t \in StartsOf(q) : t <= m
    <3>1. \A t \in StartsOf(q) : ~(m < t)
      BY <1>3, <1>5, <2>1 DEF From
    <3> QED
      BY <2>1, <3>1
  <2>3. \A i \in DOMAIN q : i \in From(c, m) <=> m <= i
    <3>1. \A i \in DOMAIN q : i \in From(c, m) <=> i >= m /\ ~\E t \in Starts(c) : m < t /\ t <= i
      BY DEF From, q
    <3>2. \A t \in Starts(c) : ~(m < t)
      BY <1>3, <2>1, <2>2
    <3>3. \A i \in DOMAIN q : i >= m <=> m <= i
      BY <1>1, <2>1
    <3> QED
      BY <3>1, <3>2, <3>3
  <2>4. \A i \in DOMAIN q : m <= i <=> \A t \in StartsOf(q) : t <= i
    <3>1. \A i \in DOMAIN q : i \in Int
      BY <1>1
    <3> QED
      BY <1>3, <2>1, <2>2, <3>1
  <2>5. From(c, m) \in SUBSET DOMAIN q /\ Newest(q) \in SUBSET DOMAIN q
    BY DEF From, Newest, q
  <2>6. \A i \in DOMAIN q : i \in Newest(q) <=> \A t \in StartsOf(q) : t <= i
    BY DEF Newest
  <2> QED
    BY <2>3, <2>4, <2>5, <2>6
<1>7. ASSUME NEW I \in Attempts(c)
      PROVE  Max(I) \in I /\ Max(I) \in DOMAIN q /\ Max(I) <= n /\ (n \in I => Max(I) = n)
  <2>1. I \in SUBSET DOMAIN q /\ I # {}
    BY <1>4
  <2>2. I \subseteq Int /\ IsFiniteSet(I)
    BY <1>1, <2>1, FS_Subset
  <2>3. Max(I) \in I
    BY <2>1, <2>2, MaxIs
  <2>4. \A i \in I : i <= n
    BY <1>1, <2>1
  <2>5. n \in I => Max(I) = n
    BY <2>2, <2>4, ExtremeIs
  <2> QED
    BY <2>1, <2>3, <2>4, <2>5
<1>8. From(c, m) \in Attempts(c) /\ Max(From(c, m)) = n
  BY <1>4, <1>5, <1>7
<1>9. \A J \in Attempts(c) : Max(J) <= Max(From(c, m))
  BY <1>7, <1>8
<1> DEFINE I == Latest(c)
<1>10. I \in Attempts(c) /\ \A J \in Attempts(c) : Max(J) <= Max(I)
  BY <1>8, <1>9 DEF Latest
<1> HIDE DEF I
<1>11. Max(I) = n
  <2>1. n <= Max(I) /\ Max(I) <= n /\ Max(I) \in DOMAIN q
    BY <1>7, <1>8, <1>10
  <2> QED
    BY <1>1, <2>1
<1>12. n \in I
  BY <1>7, <1>10, <1>11
<1>13. I = From(c, m)
  BY <1>4, <1>5, <1>10, <1>12
<1> QED
  BY <1>6, <1>13 DEF I, q

\* What is written after an attempt leaves those before it told of as they were.
LEMMA RecordedGrows ==
  ASSUME NEW q \in Seq(EventState), NEW es \in Seq(EventState), NEW p, Extends(q, es, p),
         NEW h, Len(h) \in Nat, DOMAIN h = 1..Len(h), NEW on \in {0, 1}, Recorded(q, h, on)
  PROVE  /\ Cardinality(StartsOf(p)) = Len(h) + on
         /\ \A n \in 1..Cardinality(StartsOf(p)) :
              \E s \in StartsOf(p) : Cardinality(Begun(p, s)) = n
         /\ \A n \in DOMAIN h : (on = 1 \/ n # Len(h)) /\ ~h[n].odd =>
              OutcomeOf(p, Part(p, n)) = h[n].how
<1>1. /\ StartsOf(p) = StartsOf(q)
      /\ \A s \in StartsOf(q) : Begun(p, s) = Begun(q, s)
      /\ \A m : m # Cardinality(StartsOf(q)) => Part(p, m) = Part(q, m)
  BY PartsGrow
<1>2. \A i \in DOMAIN q : p[i] = q[i]
  BY Longer DEF Extends
<1>3. Cardinality(StartsOf(q)) = Len(h) + on
  BY DEF Recorded
<1>4. ASSUME NEW n \in DOMAIN h, on = 1 \/ n # Len(h), ~h[n].odd
      PROVE  OutcomeOf(p, Part(p, n)) = h[n].how
  <2>1. n # Cardinality(StartsOf(q))
    BY <1>3, <1>4
  <2>2. Part(p, n) = Part(q, n) /\ Part(q, n) \in SUBSET DOMAIN q
    BY <1>1, <2>1 DEF Part
  <2>3. OutcomeOf(p, Part(q, n)) = OutcomeOf(q, Part(q, n))
    BY <1>2, <2>2, OutcomeSame
  <2>4. OutcomeOf(q, Part(q, n)) = h[n].how
    BY <1>4 DEF Recorded
  <2> QED
    BY <2>2, <2>3, <2>4
<1>5. ASSUME NEW n \in 1..Cardinality(StartsOf(p))
      PROVE  \E s \in StartsOf(p) : Cardinality(Begun(p, s)) = n
  <2>1. PICK s \in StartsOf(q) : Cardinality(Begun(q, s)) = n
    BY <1>1, <1>5 DEF Recorded
  <2> QED
    BY <1>1, <2>1
<1> QED
  BY <1>1, <1>3, <1>4, <1>5

\* A run goes on
LEMMA RecordedOn ==
  ASSUME NEW q \in Seq(EventState), NEW es \in Seq(EventState), NEW p, Extends(q, es, p),
         NEW h, Len(h) \in Nat, DOMAIN h = 1..Len(h), Recorded(q, h, 1)
  PROVE  Recorded(p, h, 1)
BY RecordedGrows DEF Recorded

\* A run ends
LEMMA RecordedEnds ==
  ASSUME NEW q \in Seq(EventState), NEW es \in Seq(EventState), NEW p, Extends(q, es, p),
         NEW h, Len(h) \in Nat, DOMAIN h = 1..Len(h), Recorded(q, h, 1),
         NEW g, Len(g) = Len(h) + 1, DOMAIN g = 1..Len(g), \A n \in 1..Len(h) : g[n] = h[n],
         ~g[Len(g)].odd => OutcomeOf(p, Newest(p)) = g[Len(g)].how
  PROVE  Recorded(p, g, 0)
<1>1. /\ Cardinality(StartsOf(p)) = Len(h) + 1
      /\ \A n \in 1..Cardinality(StartsOf(p)) :
           \E s \in StartsOf(p) : Cardinality(Begun(p, s)) = n
      /\ \A n \in DOMAIN h : ~h[n].odd => OutcomeOf(p, Part(p, n)) = h[n].how
  BY RecordedGrows
<1>2. Part(p, Len(g)) = Newest(p)
  <2>1. p \in Seq(EventState)
    BY Longer DEF Extends
  <2>2. Cardinality(StartsOf(p)) = Len(g)
    BY <1>1
  <2> QED
    BY <2>1, <2>2, NewestIs
<1>3. ASSUME NEW n \in DOMAIN g, ~g[n].odd
      PROVE  OutcomeOf(p, Part(p, n)) = g[n].how
  <2>1. CASE n = Len(g)
    BY <1>2, <1>3, <2>1
  <2>2. CASE n \in 1..Len(h)
    BY <1>1, <1>3, <2>2
  <2> QED
    BY <2>1, <2>2
<1>4. Cardinality(StartsOf(p)) = Len(g) + 0
  BY <1>1
<1> QED
  BY <1>1, <1>3, <1>4 DEF Recorded

\* A run starts
LEMMA RecordedStarts ==
  ASSUME NEW q \in Seq(EventState), NEW e \in EventState, NEW p, Begins(q, e, p),
         NEW h, Len(h) \in Nat, DOMAIN h = 1..Len(h), Recorded(q, h, 0)
  PROVE  Recorded(p, h, 1)
<1>1. /\ Cardinality(StartsOf(p)) = Cardinality(StartsOf(q)) + 1
      /\ StartsOf(p) = StartsOf(q) \cup {Len(q) + 1}
      /\ Cardinality(Begun(p, Len(q) + 1)) = Cardinality(StartsOf(q)) + 1
      /\ \A s \in StartsOf(q) : Begun(p, s) = Begun(q, s)
      /\ \A m \in 0..Cardinality(StartsOf(q)) : Part(p, m) = Part(q, m)
  BY PartsBegin
<1>2. Cardinality(StartsOf(q)) = Len(h)
  BY DEF Recorded
<1>3. \A i \in DOMAIN q : p[i] = q[i]
  <2>1. <<e>> \in Seq(EventState)
    OBVIOUS
  <2> QED
    BY <2>1, Longer DEF Begins
<1>4. ASSUME NEW n \in DOMAIN h, ~h[n].odd
      PROVE  OutcomeOf(p, Part(p, n)) = h[n].how
  <2>1. Part(p, n) = Part(q, n) /\ Part(q, n) \in SUBSET DOMAIN q
    BY <1>1, <1>2 DEF Part
  <2>2. OutcomeOf(p, Part(q, n)) = OutcomeOf(q, Part(q, n))
    BY <1>3, <2>1, OutcomeSame
  <2>3. OutcomeOf(q, Part(q, n)) = h[n].how
    BY <1>4 DEF Recorded
  <2> QED
    BY <2>1, <2>2, <2>3
<1>5. ASSUME NEW n \in 1..Cardinality(StartsOf(p))
      PROVE  \E s \in StartsOf(p) : Cardinality(Begun(p, s)) = n
  <2>1. CASE n = Len(h) + 1
    BY <1>1, <1>2, <2>1
  <2>2. CASE n \in 1..Len(h)
    <3>1. PICK s \in StartsOf(q) : Cardinality(Begun(q, s)) = n
      BY <1>2, <2>2 DEF Recorded
    <3> QED
      BY <1>1, <3>1
  <2> QED
    BY <1>1, <1>2, <2>1, <2>2
<1> QED
  BY <1>1, <1>2, <1>4, <1>5 DEF Recorded

\* A run is refused before it starts
LEMMA RecordedRefused ==
  ASSUME NEW q \in Seq(EventState), NEW es \in Seq(EventState), NEW p, Extends(q, es, p),
         NEW h, Len(h) \in Nat, DOMAIN h = 1..Len(h), Recorded(q, h, 0),
         NEW g, Len(g) = Len(h), DOMAIN g = DOMAIN h, \A n \in DOMAIN h : n # Len(h) => g[n] = h[n],
         Len(h) \in DOMAIN h => g[Len(h)].odd
  PROVE  Recorded(p, g, 0)
<1>1. /\ Cardinality(StartsOf(p)) = Len(h) + 0
      /\ \A n \in 1..Cardinality(StartsOf(p)) :
           \E s \in StartsOf(p) : Cardinality(Begun(p, s)) = n
      /\ \A n \in DOMAIN h : n # Len(h) /\ ~h[n].odd => OutcomeOf(p, Part(p, n)) = h[n].how
  BY RecordedGrows
<1>2. \A n \in DOMAIN g : ~g[n].odd => OutcomeOf(p, Part(p, n)) = g[n].how
  BY <1>1
<1> QED
  BY <1>1, <1>2 DEF Recorded

-----------------------------------------------------------------------------
(* the newest attempt as its log goes on *)

\* What is written goes into the newest attempt.
LEMMA NewestGrows ==
  ASSUME NEW q \in Seq(EventState), NEW es \in Seq(EventState), NEW p, Extends(q, es, p)
  PROVE  /\ p \in Seq(EventState) /\ Newest(p) \in SUBSET DOMAIN p /\ Len(q) \in Nat
         /\ \A i \in Newest(q) : i \in Newest(p) /\ p[i] = q[i] /\ i \in 1..Len(q)
         /\ \A k \in 1..Len(es) : Len(q) + k \in Newest(p) /\ p[Len(q) + k] = es[k]
         /\ \A i \in Newest(p) : i \in Newest(q) \/ \E k \in 1..Len(es) : i = Len(q) + k
<1>1. /\ p \in Seq(EventState) /\ Len(q) \in Nat /\ Len(es) \in Nat /\ DOMAIN q = 1..Len(q)
      /\ DOMAIN p = 1..(Len(q) + Len(es))
      /\ \A i \in DOMAIN q : i \in DOMAIN p /\ p[i] = q[i]
      /\ \A i \in DOMAIN p \ DOMAIN q : i - Len(q) \in 1..Len(es) /\ p[i] = es[i - Len(q)]
      /\ \A k \in 1..Len(es) : p[Len(q) + k] = es[k]
  BY Longer DEF Extends
<1>2. Newest(p) = Newest(q) \cup (DOMAIN p \ DOMAIN q) /\ Newest(q) \in SUBSET DOMAIN q
  BY PartsGrow DEF Newest
<1>3. \A i \in Newest(q) : i \in Newest(p) /\ p[i] = q[i] /\ i \in 1..Len(q)
  BY <1>1, <1>2
<1>4. \A k \in 1..Len(es) : Len(q) + k \in Newest(p) /\ p[Len(q) + k] = es[k]
  BY <1>1, <1>2
<1>5. ASSUME NEW i \in Newest(p), i \notin Newest(q)
      PROVE  \E k \in 1..Len(es) : i = Len(q) + k
  <2>1. i \in DOMAIN p \ DOMAIN q
    BY <1>2, <1>5
  <2>2. i - Len(q) \in 1..Len(es) /\ i = Len(q) + (i - Len(q))
    BY <1>1, <2>1
  <2> QED
    BY <2>2
<1>6. Newest(p) \in SUBSET DOMAIN p
  BY DEF Newest
<1> QED
  BY <1>1, <1>3, <1>4, <1>5, <1>6

\* A start is all of the newest attempt.
LEMMA NewestStarts ==
  ASSUME NEW q \in Seq(EventState), NEW e \in EventState, NEW p, Begins(q, e, p)
  PROVE  Undecided(p) /\ NoReason(p) /\ ~Limit(p)
<1>1. Newest(p) = {Len(q) + 1}
  BY PartsBegin
<1>2. p[Len(q) + 1] = e
  <2>1. p = Append(q, e)
    BY AppendIsConcat DEF Begins
  <2> QED
    BY <2>1, OneLonger
<1>3. e.kind = "lifecycle_started"
  BY DEF Begins
<1> QED
  BY <1>1, <1>2, <1>3 DEF Undecided, NoReason, Limit, Has, Deciding, EndKinds

\* An event that says nothing of how the attempt stands, or events that do not
Calm(e) == /\ e.kind \notin Deciding \cup {"lifecycle_started", "result", "rate_limit"}
           /\ e.kind = "test_gate" => e.why = "none"
Still(es) == \A k \in 1..Len(es) : Calm(es[k])

\* It leaves it as it was.
LEMMA StillKeeps ==
  ASSUME NEW q \in Seq(EventState), NEW es \in Seq(EventState), NEW p, Extends(q, es, p), Still(es)
  PROVE  /\ Undecided(q) => Undecided(p)
         /\ NoReason(q) => NoReason(p)
         /\ Limit(p) <=> Limit(q)
         /\ \A why : LastReason(q, why) => LastReason(p, why)
<1>1. /\ Len(q) \in Nat
      /\ \A i \in Newest(q) : i \in Newest(p) /\ p[i] = q[i] /\ i \in 1..Len(q)
      /\ \A k \in 1..Len(es) : Len(q) + k \in Newest(p) /\ p[Len(q) + k] = es[k]
      /\ \A i \in Newest(p) : i \in Newest(q) \/ \E k \in 1..Len(es) : i = Len(q) + k
  BY NewestGrows
<1>2. ASSUME NEW i \in Newest(p)
      PROVE  \/ i \in Newest(q) /\ p[i] = q[i]
             \/ /\ p[i].kind \notin Deciding \cup {"result", "rate_limit"}
                /\ p[i].kind = "test_gate" => p[i].why = "none"
  <2>1. CASE i \in Newest(q)
    BY <1>1, <2>1
  <2>2. ASSUME NEW k \in 1..Len(es), i = Len(q) + k
        PROVE  /\ p[i].kind \notin Deciding \cup {"result", "rate_limit"}
               /\ p[i].kind = "test_gate" => p[i].why = "none"
    <3>1. p[i] = es[k]
      BY <1>1, <2>2
    <3> QED
      BY <3>1 DEF Still, Calm
  <2> QED
    BY <1>1, <2>1, <2>2
<1>3. Undecided(q) => Undecided(p)
  BY <1>2 DEF Undecided
<1>4. NoReason(q) => NoReason(p)
  BY <1>2 DEF NoReason
<1>5. Limit(p) <=> Limit(q)
  BY <1>1, <1>2 DEF Limit, Has
<1>6. ASSUME NEW why, LastReason(q, why)
      PROVE  LastReason(p, why)
  <2>1. PICK i \in Newest(q) :
          /\ q[i].kind = "result" /\ q[i].why = why /\ why # "none"
          /\ \A j \in Newest(q) : i < j /\ q[j].kind = "result" => q[j].why = "none"
    BY <1>6 DEF LastReason
  <2>2. i \in Newest(p) /\ p[i] = q[i]
    BY <1>1
  <2>3. \A j \in Newest(p) : i < j /\ p[j].kind = "result" => p[j].why = "none"
    BY <1>2, <2>1
  <2> QED
    BY <2>1, <2>2, <2>3 DEF LastReason
<1> QED
  BY <1>3, <1>4, <1>5, <1>6

\* A log goes on by one event.
ByOne(q, es, p, e) == Extends(q, es, p) /\ Len(es) = 1 /\ es[1] = e

\* It is the last of the newest attempt.
LEMMA OneMore ==
  ASSUME NEW q \in Seq(EventState), NEW es \in Seq(EventState), NEW p, NEW e, ByOne(q, es, p, e)
  PROVE  /\ Len(q) \in Nat
         /\ \A i \in Newest(q) : i \in Newest(p) /\ p[i] = q[i] /\ i \in 1..Len(q)
         /\ Len(q) + 1 \in Newest(p) /\ p[Len(q) + 1] = e
         /\ \A i \in Newest(p) : i \in Newest(q) \/ i = Len(q) + 1
<1>1. Extends(q, es, p)
  BY DEF ByOne
<1>0. Len(es) = 1 /\ es[1] = e
  BY DEF ByOne
<1>2. /\ Len(q) \in Nat
      /\ \A i \in Newest(q) : i \in Newest(p) /\ p[i] = q[i] /\ i \in 1..Len(q)
      /\ \A k \in 1..Len(es) : Len(q) + k \in Newest(p) /\ p[Len(q) + k] = es[k]
      /\ \A i \in Newest(p) : i \in Newest(q) \/ \E k \in 1..Len(es) : i = Len(q) + k
  BY <1>1, NewestGrows
<1>3. Len(q) + 1 \in Newest(p) /\ p[Len(q) + 1] = e
  BY <1>0, <1>2
<1>4. \A i \in Newest(p) : i \in Newest(q) \/ i = Len(q) + 1
  BY <1>0, <1>2
<1> QED
  BY <1>2, <1>3, <1>4

\* An event follows a log.
LEMMA ByOneIs ==
  ASSUME NEW q \in Seq(EventState), NEW e \in EventState, e.kind # "lifecycle_started",
         NEW es, es = <<e>>, NEW p, p = q \o es
  PROVE  es \in Seq(EventState) /\ ByOne(q, es, p, e)
<1>1. Len(es) = 1 /\ es[1] = e /\ es \in Seq(EventState)
  OBVIOUS
<1>2. \A k \in 1..Len(es) : es[k] = e
  BY <1>1
<1> QED
  BY <1>1, <1>2 DEF ByOne, Extends

\* A result, with a reason or without, and a limit
LEMMA LineKeeps ==
  ASSUME NEW q \in Seq(EventState), NEW es \in Seq(EventState), NEW p, NEW e, ByOne(q, es, p, e),
         e.kind \in {"result", "rate_limit", "usage"}, Undecided(q)
  PROVE  /\ Undecided(p)
         /\ e.kind # "result" \/ e.why = "none" => (NoReason(q) => NoReason(p))
         /\ e.kind # "result" => \A why : LastReason(q, why) => LastReason(p, why)
         /\ e.kind = "result" /\ e.why # "none" => LastReason(p, e.why)
         /\ e.kind # "rate_limit" => (Limit(p) <=> Limit(q))
         /\ e.kind = "rate_limit" => Limit(p)
<1>1. /\ Len(q) \in Nat
      /\ \A i \in Newest(q) : i \in Newest(p) /\ p[i] = q[i] /\ i \in 1..Len(q)
      /\ Len(q) + 1 \in Newest(p) /\ p[Len(q) + 1] = e
      /\ \A i \in Newest(p) : i \in Newest(q) \/ i = Len(q) + 1
  BY OneMore
<1>2. Undecided(p)
  BY <1>1 DEF Undecided, Deciding, EndKinds
<1>3. e.kind # "result" \/ e.why = "none" => (NoReason(q) => NoReason(p))
  BY <1>1 DEF NoReason
<1>4. ASSUME e.kind # "result", NEW why, LastReason(q, why)
      PROVE  LastReason(p, why)
  <2>1. PICK i \in Newest(q) :
          /\ q[i].kind = "result" /\ q[i].why = why /\ why # "none"
          /\ \A j \in Newest(q) : i < j /\ q[j].kind = "result" => q[j].why = "none"
    BY <1>4 DEF LastReason
  <2>2. \A j \in Newest(p) : i < j /\ p[j].kind = "result" => p[j].why = "none"
    BY <1>1, <1>4, <2>1
  <2> QED
    BY <1>1, <2>1, <2>2 DEF LastReason
<1>5. ASSUME e.kind = "result", e.why # "none"
      PROVE  LastReason(p, e.why)
  <2>1. \A j \in Newest(p) : ~(Len(q) + 1 < j)
    BY <1>1
  <2> QED
    BY <1>1, <1>5, <2>1 DEF LastReason
<1>6. /\ e.kind # "rate_limit" => (Limit(p) <=> Limit(q))
      /\ e.kind = "rate_limit" => Limit(p)
  BY <1>1 DEF Limit, Has
<1> QED
  BY <1>1, <1>2, <1>3, <1>4, <1>5, <1>6

\* None of these, one or two
LEMMA StillOnes ==
  /\ Still(<<>>)
  /\ \A e : Calm(e) => Still(<<e>>)
  /\ \A e, f : Calm(e) /\ Calm(f) => Still(<<e, f>>)
<1>1. Still(<<>>)
  BY DEF Still
<1>2. ASSUME NEW e, Calm(e)
      PROVE  Still(<<e>>)
  BY <1>2 DEF Still
<1>3. ASSUME NEW e, NEW f, Calm(e), Calm(f)
      PROVE  Still(<<e, f>>)
  BY <1>3 DEF Still
<1> QED
  BY <1>1, <1>2, <1>3

\* A run that goes on writes none that does.
LEMMA OnwardStill ==
  ASSUME NEW c, NEW to, NEW es, NEW off, Onward(c, to, es, off)
  PROVE  Still(es)
<1>1. /\ Calm(Event("worker_skipped", "none")) /\ Calm(Event("worker_summary", "none"))
      /\ Calm(Event("test_gate", "none")) /\ Calm(Event("review_reused", "none"))
      /\ Calm(Event("review_gate", "approved"))
      /\ Calm(Event("review_gate", "REVIEW_REJECTED")) /\ Calm(Event("fix_round", "none"))
  <2>1. \A kind, why : Event(kind, why).kind = kind /\ Event(kind, why).why = why
    BY DEF Event
  <2> QED
    BY <2>1 DEF Calm, Deciding, EndKinds
<1>2. \/ es = <<>>
      \/ es = <<Event("worker_skipped", "none")>>
      \/ es = <<Event("worker_summary", "none")>>
      \/ es = <<Event("test_gate", "none"), Event("review_reused", "none")>>
      \/ es = <<Event("test_gate", "none")>>
      \/ es = <<Event("review_gate", "approved")>>
      \/ es = <<Event("review_gate", "REVIEW_REJECTED"), Event("fix_round", "none")>>
  BY DEF Onward
<1> QED
  BY <1>1, <1>2, StillOnes

\* What is written after a log that says nothing of it begins no attempt.
LEMMA StillExtends ==
  ASSUME NEW q, NEW es, Still(es), NEW p, p = q \o es
  PROVE  Extends(q, es, p)
BY DEF Extends, Still, Calm

\* How an agent, and its ends, are told of
LEMMA EndsAre ==
  ASSUME Typed, NEW c \in Cards
  PROVE  /\ ends[c] \in Seq([how : Hows, odd : BOOLEAN])
         /\ Len(ends[c]) \in Nat /\ DOMAIN ends[c] = 1..Len(ends[c])
<1> DEFINE T == [how : Hows, odd : BOOLEAN]
<1>1. ends[c] \in Seq(T)
  BY DEF Typed
<1> HIDE DEF T
<1>2. Len(ends[c]) \in Nat /\ DOMAIN ends[c] = 1..Len(ends[c])
  BY <1>1
<1> QED
  BY <1>1, <1>2 DEF T

\* An agent that has not begun
LEMMA FreshStands ==
  ASSUME NEW p, NEW stage \in {"begun", "worker", "tests", "reviewer", "opening"}, NEW a,
         NoReason(p), ~Limit(p), a.finals = 0, ~a.limited
  PROVE  Stands(p, stage, a)
BY DEF Stands, Roles

\* A run that goes on is told of as one that does.
LEMMA TellsOnward ==
  ASSUME Typed, NEW c \in Cards, NEW to, NEW es \in Seq(EventState), NEW off \in BOOLEAN,
         Onward(c, to, es, off), NEW p, p = log[c] \o es,
         Tells(log[c], ends[c], at[c], agent[c], astray[c])
  PROVE  Tells(p, ends[c], to, agent[c], astray[c] \/ off)
<1> DEFINE q == log[c]
           h == ends[c]
<1>1. q \in Seq(EventState) /\ Len(h) \in Nat /\ DOMAIN h = 1..Len(h)
  BY EndsAre DEF Typed
<1>2. Still(es) /\ Extends(q, es, p)
  BY OnwardStill, StillExtends
<1>3. at[c] # "idle" /\ to \in {"worker", "tests", "reviewer", "opening"}
  BY DEF Onward
<1>4. /\ Recorded(q, h, 1) /\ Undecided(q)
      /\ ~astray[c] => Stands(q, at[c], agent[c])
  BY <1>3 DEF Tells
<1>5. ASSUME ~astray[c], ~off
      PROVE  /\ NoReason(q) /\ ~Limit(q) /\ agent[c].finals = 0 /\ ~agent[c].limited
  <2>1. Stands(q, at[c], agent[c])
    BY <1>4, <1>5
  <2>2. \/ at[c] \in {"begun", "tests"}
        \/ at[c] \in {"worked", "reviewed"} /\ agent[c].why = "none"
        \/ at[c] = "reviewer" /\ agent[c].finals = 0 /\ ~agent[c].limited
    BY <1>5 DEF Onward, Silent
  <2>3. at[c] \notin Roles => agent[c].finals = 0 /\ ~agent[c].limited
    BY DEF Typed
  <2> HIDE DEF q
  <2>4. agent[c].finals = 0 /\ ~agent[c].limited
    BY <2>2, <2>3 DEF Roles
  <2>5. CASE at[c] \in {"begun", "tests"}
    BY <2>1, <2>4, <2>5 DEF Stands
  <2>6. CASE at[c] \in {"worked", "reviewed"} /\ agent[c].why = "none"
    BY <2>1, <2>4, <2>6 DEF Stands
  <2>7. CASE at[c] = "reviewer"
    BY <2>1, <2>4, <2>7 DEF Stands, Roles
  <2> QED
    BY <2>2, <2>4, <2>5, <2>6, <2>7
<1> HIDE DEF q, h
<1>6. /\ Undecided(p)
      /\ NoReason(q) => NoReason(p)
      /\ Limit(p) <=> Limit(q)
  BY <1>1, <1>2, <1>4, StillKeeps
<1>7. Recorded(p, h, 1)
  BY <1>1, <1>2, <1>4, RecordedOn
<1>8. ~(astray[c] \/ off) => Stands(p, to, agent[c])
  BY <1>3, <1>5, <1>6, FreshStands
<1>9. (IF to = "idle" THEN 0 ELSE 1) = 1
  BY <1>3
<1> QED
  BY <1>6, <1>7, <1>8, <1>9 DEF Tells, h

-----------------------------------------------------------------------------
(* how what is written last decides *)

\* Events that close with one of a kind, after at most one that says nothing
Closes(es, kind) == /\ Len(es) \in {1, 2} /\ es[Len(es)].kind = kind
                    /\ Len(es) = 2 => Calm(es[1])

\* A mark of the end decides.
LEMMA MarkDecides ==
  ASSUME NEW q \in Seq(EventState), NEW es \in Seq(EventState), NEW p, Extends(q, es, p),
         NEW kind \in EndKinds \cup {"run_orphaned"}, Closes(es, kind), Undecided(q)
  PROVE  /\ kind = "run_orphaned" => OutcomeOf(p, Newest(p)) = "CRASH"
         /\ kind \in EndKinds => OutcomeOf(p, Newest(p)) = MarkOf(kind)
<1>1. /\ p \in Seq(EventState) /\ Newest(p) \in SUBSET DOMAIN p
      /\ \A i \in Newest(q) : p[i] = q[i]
      /\ \A k \in 1..Len(es) : Len(q) + k \in Newest(p) /\ p[Len(q) + k] = es[k]
      /\ \A i \in Newest(p) : i \in Newest(q) \/ \E k \in 1..Len(es) : i = Len(q) + k
  BY NewestGrows
<1>2. Len(es) \in 1..Len(es) /\ \A k \in 1..Len(es) : k = Len(es) \/ Calm(es[k])
  BY DEF Closes
<1>3. PICK m \in Newest(p) : p[m].kind = kind
  <2>1. p[Len(q) + Len(es)] = es[Len(es)] /\ Len(q) + Len(es) \in Newest(p)
    BY <1>1, <1>2
  <2> QED
    BY <2>1 DEF Closes
<1>4. ASSUME NEW i \in Newest(p), p[i].kind \in Deciding
      PROVE  p[i].kind = kind
  <2>1. CASE i \in Newest(q)
    BY <1>1, <1>4, <2>1 DEF Undecided
  <2>2. ASSUME NEW k \in 1..Len(es), i = Len(q) + k
        PROVE  p[i].kind = kind
    <3>1. p[i] = es[k]
      BY <1>1, <2>2
    <3>2. ~Calm(es[k])
      BY <1>4, <3>1 DEF Calm
    <3> QED
      BY <1>2, <3>1, <3>2 DEF Closes
  <2> QED
    BY <1>1, <2>1, <2>2
<1>5. /\ p[m].kind = "run_orphaned" => OutcomeOf(p, Newest(p)) = "CRASH"
      /\ p[m].kind \in EndKinds => OutcomeOf(p, Newest(p)) = MarkOf(p[m].kind)
  BY <1>1, <1>3, <1>4, OutcomeMarked
<1> QED
  BY <1>3, <1>5

\* Where nothing has, the agent's reason decides ...
LEMMA ReasonDecides ==
  ASSUME NEW p \in Seq(EventState), Undecided(p), NEW why,
         IF Limit(p) THEN why = "USAGE_LIMIT" ELSE LastReason(p, why)
  PROVE  OutcomeOf(p, Newest(p)) = why
<1>1. \A i \in Newest(p) : p[i].kind \notin EndKinds \cup {"run_orphaned"}
  BY DEF Undecided, Deciding
<1>2. Newest(p) \in SUBSET DOMAIN p
  BY DEF Newest
<1>3. CASE Limit(p)
  BY <1>1, <1>2, <1>3, OutcomeRead DEF Limit
<1>4. CASE ~Limit(p)
  <2>1. PICK m \in Newest(p) :
          /\ p[m].kind = "result" /\ p[m].why = why /\ why # "none"
          /\ \A j \in Newest(p) : m < j /\ p[j].kind = "result" => p[j].why = "none"
    BY <1>4 DEF LastReason
  <2>2. ~Has(p, Newest(p), {"rate_limit"})
    BY <1>4 DEF Limit
  <2>3. OutcomeOf(p, Newest(p)) = p[m].why
    BY <1>1, <1>2, <2>1, <2>2, OutcomeRead
  <2> QED
    BY <2>1, <2>3
<1> QED
  BY <1>3, <1>4

\* ... without one the reviewer's last word ...
LEMMA GateDecides ==
  ASSUME NEW q \in Seq(EventState), NEW es \in Seq(EventState), NEW p, NEW e, ByOne(q, es, p, e),
         e.kind = "review_gate", e.why # "approved", Undecided(q), NoReason(q), ~Limit(q)
  PROVE  OutcomeOf(p, Newest(p)) = e.why
<1>1. /\ Len(q) \in Nat
      /\ \A i \in Newest(q) : i \in Newest(p) /\ p[i] = q[i] /\ i \in 1..Len(q)
      /\ Len(q) + 1 \in Newest(p) /\ p[Len(q) + 1] = e
      /\ \A i \in Newest(p) : i \in Newest(q) \/ i = Len(q) + 1
  BY OneMore
<1>2. p \in Seq(EventState) /\ Newest(p) \in SUBSET DOMAIN p
  BY NewestGrows DEF ByOne
<1>3. \A i \in Newest(p) : p[i].kind \notin EndKinds \cup {"run_orphaned"}
  BY <1>1 DEF Undecided, Deciding, EndKinds
<1>4. ~Has(p, Newest(p), {"rate_limit"})
  BY <1>1 DEF Limit, Has
<1>5. \A i \in Newest(p) : p[i].kind = "result" => p[i].why = "none"
  BY <1>1 DEF NoReason
<1>6. PICK m \in Newest(p) : m = Len(q) + 1 /\ p[m] = e /\ \A j \in Newest(p) : ~(m < j)
  BY <1>1
<1>7. OutcomeOf(p, Newest(p)) = p[m].why
  BY <1>2, <1>3, <1>4, <1>5, <1>6, OutcomeRead
<1> QED
  BY <1>6, <1>7

\* Tests that fail, `red` on the base as well
Fails(es, red) ==
  /\ Len(es) = (IF red THEN 2 ELSE 1)
  /\ es[1].kind = "test_gate" /\ es[1].why = "failed" /\ (red => es[2].kind = "base_red")

\* ... and without that the tests.
LEMMA TestsDecide ==
  ASSUME NEW q \in Seq(EventState), NEW es \in Seq(EventState), NEW p, Extends(q, es, p),
         NEW red \in BOOLEAN, Fails(es, red), Undecided(q), NoReason(q), ~Limit(q),
         \A i \in Newest(q) : q[i].kind = "review_gate" => q[i].why = "approved"
  PROVE  OutcomeOf(p, Newest(p)) = IF red THEN "BASE_RED" ELSE "TESTS_FAILED"
<1>1. /\ p \in Seq(EventState) /\ Newest(p) \in SUBSET DOMAIN p
      /\ \A i \in Newest(q) : p[i] = q[i]
      /\ \A k \in 1..Len(es) : Len(q) + k \in Newest(p) /\ p[Len(q) + k] = es[k]
      /\ \A i \in Newest(p) : i \in Newest(q) \/ \E k \in 1..Len(es) : i = Len(q) + k
  BY NewestGrows
<1>2. \A k \in 1..Len(es) : (red /\ es[k].kind = "base_red") \/ es[k].kind = "test_gate"
  BY DEF Fails
<1>3. \A i \in Newest(p) : \/ i \in Newest(q) /\ p[i] = q[i]
                           \/ p[i].kind = "test_gate"
                           \/ red /\ p[i].kind = "base_red"
  <2> SUFFICES ASSUME NEW i \in Newest(p), i \notin Newest(q)
               PROVE  p[i].kind = "test_gate" \/ (red /\ p[i].kind = "base_red")
    BY <1>1
  <2>1. PICK k \in 1..Len(es) : i = Len(q) + k
    BY <1>1
  <2>2. p[i] = es[k]
    BY <1>1, <2>1
  <2> QED
    BY <1>2, <2>2
<1>4. \A i \in Newest(p) : p[i].kind \notin EndKinds \cup {"run_orphaned"}
  BY <1>3 DEF Undecided, Deciding, EndKinds
<1>5. ~Has(p, Newest(p), {"rate_limit"})
  BY <1>3 DEF Limit, Has
<1>6. \A i \in Newest(p) : p[i].kind = "result" => p[i].why = "none"
  BY <1>3 DEF NoReason
<1>7. \A i \in Newest(p) : p[i].kind = "review_gate" => p[i].why = "approved"
  BY <1>3
<1>8. 1 \in 1..Len(es) /\ (red => 2 \in 1..Len(es))
  BY DEF Fails
<1>9. \E i \in Newest(p) : p[i].kind = "test_gate" /\ p[i].why # "none"
  <2>1. Len(q) + 1 \in Newest(p) /\ p[Len(q) + 1] = es[1]
    BY <1>1, <1>8
  <2> QED
    BY <2>1 DEF Fails
<1>10. Has(p, Newest(p), {"base_red"}) <=> red
  <2>1. ASSUME red
        PROVE  Has(p, Newest(p), {"base_red"})
    <3>1. Len(q) + 2 \in Newest(p) /\ p[Len(q) + 2] = es[2]
      BY <1>1, <1>8, <2>1
    <3> QED
      BY <2>1, <3>1 DEF Fails, Has
  <2>2. ASSUME ~red
        PROVE  ~Has(p, Newest(p), {"base_red"})
    BY <1>3, <2>2 DEF Has, Undecided, Deciding
  <2> QED
    BY <2>1, <2>2
<1>11. OutcomeOf(p, Newest(p)) = IF Has(p, Newest(p), {"base_red"}) THEN "BASE_RED"
                                ELSE "TESTS_FAILED"
  BY <1>1, <1>4, <1>5, <1>6, <1>7, <1>9, OutcomeRead
<1> QED
  BY <1>10, <1>11

\* A card whose run goes on, as its log tells of it
LEMMA RunTold ==
  ASSUME Typed, NEW c \in Cards, at[c] # "idle",
         Tells(log[c], ends[c], at[c], agent[c], astray[c])
  PROVE  /\ log[c] \in Seq(EventState) /\ Recorded(log[c], ends[c], 1) /\ Undecided(log[c])
         /\ ~astray[c] => Stands(log[c], at[c], agent[c])
<1>1. log[c] \in Seq(EventState)
  BY DEF Typed
<1> QED
  BY <1>1 DEF Tells

\* A mark of the end is told of.
LEMMA MarkedTold ==
  ASSUME NEW c, NEW how, NEW es \in Seq(EventState), Marked(c, how, es),
         NEW q \in Seq(EventState), Undecided(q), NEW p, p = q \o es
  PROVE  Extends(q, es, p) /\ OutcomeOf(p, Newest(p)) = how
<1>1. PICK kind \in EndKinds, before \in Seq(EventState) :
        /\ es = Append(before, Event(kind, "none")) /\ how = MarkOf(kind)
        /\ \/ before = <<>>
           \/ before = <<Event("worker_summary", "none")>>
           \/ before = <<Event("test_gate", "none")>>
           \/ \E says \in Whys : before = <<Event("review_gate", says)>>
  BY DEF Marked
<1>2. \A k, w : Event(k, w).kind = k /\ Event(k, w).why = w
  BY DEF Event
<1> DEFINE m == Event(kind, "none")
<1>3. m.kind = kind
  BY <1>2
<1>4. before = <<>> \/ \E e : Calm(e) /\ before = <<e>>
  <2>1. /\ Calm(Event("worker_summary", "none")) /\ Calm(Event("test_gate", "none"))
        /\ \A says : Calm(Event("review_gate", says))
    BY <1>2 DEF Calm, Deciding, EndKinds
  <2> QED
    BY <1>1, <2>1
<1>5. es = Append(before, m)
  BY <1>1
<1> HIDE DEF m
<1>6. /\ Len(es) \in {1, 2} /\ es[Len(es)] = m
      /\ Len(es) = 2 => Calm(es[1])
  <2>1. CASE before = <<>>
    <3>1. es = <<m>>
      BY <1>5, <2>1
    <3> QED
      BY <3>1
  <2>2. ASSUME NEW e, Calm(e), before = <<e>>
        PROVE  Len(es) = 2 /\ es[Len(es)] = m /\ Calm(es[1])
    <3>1. es = <<e, m>>
      BY <1>5, <2>2, InARow
    <3>2. Len(es) = 2 /\ es[1] = e /\ es[2] = m
      BY <3>1
    <3> QED
      BY <2>2, <3>2
  <2> QED
    BY <1>4, <2>1, <2>2
<1>7. Closes(es, kind)
  BY <1>3, <1>6 DEF Closes
<1>8. Extends(q, es, p)
  <2>1. kind # "lifecycle_started"
    BY DEF EndKinds
  <2>2. \A k \in 1..Len(es) : es[k].kind # "lifecycle_started"
    <3>1. \A k \in 1..Len(es) : k = Len(es) \/ (k = 1 /\ Len(es) = 2)
      BY <1>6
    <3> QED
      BY <1>3, <1>6, <2>1, <3>1 DEF Calm
  <2> QED
    BY <2>2 DEF Extends
<1>9. OutcomeOf(p, Newest(p)) = MarkOf(kind)
  BY <1>7, <1>8, MarkDecides
<1> QED
  BY <1>1, <1>8, <1>9

\* So is the reason of an agent ...
LEMMA ReasonedTold ==
  ASSUME NEW c, NEW how, NEW odd \in BOOLEAN, NEW es \in Seq(EventState), Reasoned(c, how, odd, es),
         NEW q \in Seq(EventState), Undecided(q), NEW p, p = q \o es
  PROVE  /\ Extends(q, es, p)
         /\ ~odd /\ Stands(q, at[c], agent[c]) => OutcomeOf(p, Newest(p)) = how
<1>1. \A says : Calm(Event("review_gate", says))
  BY DEF Event, Calm, Deciding, EndKinds
<1>2. es = <<>> \/ \E e : Calm(e) /\ es = <<e>>
  BY <1>1 DEF Reasoned
<1>3. Still(es) /\ Extends(q, es, p)
  BY <1>2, StillOnes, StillExtends
<1>4. ASSUME ~odd, Stands(q, at[c], agent[c])
      PROVE  OutcomeOf(p, Newest(p)) = how
  <2> DEFINE why == Reason(agent[c].why)
  <2>1. how = why /\ agent[c].why # "none" /\ at[c] \in {"worked", "reviewed"}
    BY <1>4 DEF Reasoned
  <2>2. IF Limit(q) THEN agent[c].why = "USAGE_LIMIT" ELSE LastReason(q, why)
    BY <1>4, <2>1 DEF Stands
  <2>3. /\ Undecided(p) /\ (Limit(p) <=> Limit(q))
        /\ LastReason(q, why) => LastReason(p, why)
    BY <1>3, StillKeeps
  <2>4. p \in Seq(EventState)
    BY <1>3, NewestGrows
  <2>5. agent[c].why = "USAGE_LIMIT" => why = "USAGE_LIMIT"
    BY DEF Reason
  <2> HIDE DEF why
  <2>6. IF Limit(p) THEN why = "USAGE_LIMIT" ELSE LastReason(p, why)
    BY <2>2, <2>3, <2>5
  <2> QED
    BY <2>1, <2>3, <2>4, <2>6, ReasonDecides
<1> QED
  BY <1>3, <1>4

\* ... what the reviewer says ...
LEMMA RejectedTold ==
  ASSUME NEW c, NEW how, NEW odd \in BOOLEAN, NEW es \in Seq(EventState), Rejected(c, how, odd, es),
         NEW q \in Seq(EventState), Undecided(q), NEW p, p = q \o es
  PROVE  /\ Extends(q, es, p)
         /\ ~odd /\ Stands(q, at[c], agent[c]) => OutcomeOf(p, Newest(p)) = how
<1> DEFINE e == Event("review_gate", how)
<1>1. e.kind = "review_gate" /\ e.why = how
  BY DEF Event
<1>2. /\ es = <<e>> /\ how \in {"REVIEW_REJECTED", "CRASH"} /\ at[c] = "reviewed"
      /\ ~odd => agent[c].why = "none"
  BY DEF Rejected
<1>3. e \in EventState
  BY <1>2, EventTypes DEF Kinds, Whys, Fault
<1> HIDE DEF e
<1>4. ByOne(q, es, p, e)
  <2>1. e.kind # "lifecycle_started"
    BY <1>1
  <2> QED
    BY <1>2, <1>3, <2>1, ByOneIs
<1>5. ASSUME ~odd, Stands(q, at[c], agent[c])
      PROVE  OutcomeOf(p, Newest(p)) = how
  <2>1. NoReason(q) /\ ~Limit(q)
    BY <1>2, <1>5 DEF Stands
  <2>2. e.why # "approved"
    BY <1>1, <1>2
  <2>3. OutcomeOf(p, Newest(p)) = e.why
    BY <1>1, <1>4, <2>1, <2>2, GateDecides
  <2> QED
    BY <1>1, <1>2, <2>3
<1> QED
  BY <1>4, <1>5 DEF ByOne

\* ... and that tests failed.
LEMMA FailedTold ==
  ASSUME Typed, RolesTold, NEW c \in Cards, log[c] # <<>>,
         NEW how, NEW odd \in BOOLEAN, NEW es \in Seq(EventState), FailedAs(c, how, odd, es),
         Undecided(log[c]), NEW p, p = log[c] \o es
  PROVE  /\ Extends(log[c], es, p)
         /\ ~odd /\ Stands(log[c], at[c], agent[c]) => OutcomeOf(p, Newest(p)) = how
<1> DEFINE q == log[c]
           e == Event("test_gate", "failed")
           f == Event("base_red", "none")
<1>1. e.kind = "test_gate" /\ e.why = "failed" /\ f.kind = "base_red"
  BY DEF Event
<1>2. PICK red \in BOOLEAN : /\ how = IF red THEN "BASE_RED" ELSE "TESTS_FAILED"
                             /\ es = IF red THEN <<e, f>> ELSE <<e>>
  <2>1. CASE how = "TESTS_FAILED" /\ es = <<e>>
    BY <2>1
  <2>2. CASE how = "BASE_RED" /\ es = <<e, f>>
    BY <2>2
  <2> QED
    BY <2>1, <2>2 DEF FailedAs
<1>3. /\ at[c] \in {"tests", "opening"}
      /\ ~odd => \A i \in Kind(c, Latest(c), {"review_gate"}) : q[i].why = "approved"
  BY DEF FailedAs
<1>4. Latest(c) = Newest(q) /\ q \in Seq(EventState)
  BY LatestIs DEF Typed
<1>5. ~odd => \A i \in Newest(q) : q[i].kind = "review_gate" => q[i].why = "approved"
  BY <1>3, <1>4 DEF Kind
<1> HIDE DEF q, e, f
<1>6. Fails(es, red) /\ \A k \in 1..Len(es) : es[k].kind \in {"test_gate", "base_red"}
  <2>1. CASE red
    <3>1. Len(es) = 2 /\ es[1] = e /\ es[2] = f
      BY <1>2, <2>1
    <3>2. \A k \in 1..Len(es) : k = 1 \/ k = 2
      BY <3>1
    <3> QED
      BY <1>1, <2>1, <3>1, <3>2 DEF Fails
  <2>2. CASE ~red
    <3>1. Len(es) = 1 /\ es[1] = e
      BY <1>2, <2>2
    <3>2. \A k \in 1..Len(es) : k = 1
      BY <3>1
    <3> QED
      BY <1>1, <2>2, <3>1, <3>2 DEF Fails
  <2> QED
    BY <2>1, <2>2
<1>7. Extends(q, es, p)
  BY <1>6 DEF Extends, q
<1>8. ASSUME ~odd, Stands(log[c], at[c], agent[c])
      PROVE  OutcomeOf(p, Newest(p)) = how
  <2>1. NoReason(q) /\ ~Limit(q)
    BY <1>3, <1>8 DEF Stands, q
  <2>2. Undecided(q)
    BY DEF q
  <2>3. OutcomeOf(p, Newest(p)) = IF red THEN "BASE_RED" ELSE "TESTS_FAILED"
    BY <1>4, <1>5, <1>6, <1>7, <1>8, <2>1, <2>2, TestsDecide
  <2> QED
    BY <1>2, <2>3
<1> QED
  BY <1>7, <1>8 DEF q

\* However a run ends, its log tells how.
LEMMA EndingTold ==
  ASSUME Typed, RolesTold, NEW c \in Cards, log[c] # <<>>,
         NEW how, NEW odd \in BOOLEAN, NEW es \in Seq(EventState),
         \/ Marked(c, how, es)
         \/ Reasoned(c, how, odd, es)
         \/ Rejected(c, how, odd, es)
         \/ FailedAs(c, how, odd, es)
         \/ odd /\ es = <<>>,
         Undecided(log[c]), NEW p, p = log[c] \o es
  PROVE  /\ Extends(log[c], es, p)
         /\ ~odd /\ Stands(log[c], at[c], agent[c]) => OutcomeOf(p, Newest(p)) = how
<1>0. log[c] \in Seq(EventState)
  BY DEF Typed
<1>1. CASE Marked(c, how, es)
  BY <1>0, <1>1, MarkedTold
<1>2. CASE Reasoned(c, how, odd, es)
  BY <1>0, <1>2, ReasonedTold
<1>3. CASE Rejected(c, how, odd, es)
  BY <1>0, <1>3, RejectedTold
<1>4. CASE FailedAs(c, how, odd, es)
  BY <1>4, FailedTold
<1>5. CASE odd /\ es = <<>>
  <2>1. Extends(log[c], es, p)
    BY <1>5, StillOnes, StillExtends
  <2> QED
    BY <1>5, <2>1
<1> QED
  BY <1>1, <1>2, <1>3, <1>4, <1>5

\* The end of a run is recorded with the ends before it.
LEMMA TellsEnd ==
  ASSUME NEW q \in Seq(EventState), NEW es \in Seq(EventState), NEW p, Extends(q, es, p),
         NEW h, Len(h) \in Nat, DOMAIN h = 1..Len(h), Recorded(q, h, 1),
         NEW g, Len(g) = Len(h) + 1, DOMAIN g = 1..Len(g), \A n \in 1..Len(h) : g[n] = h[n],
         ~g[Len(g)].odd => OutcomeOf(p, Newest(p)) = g[Len(g)].how, NEW a, NEW off
  PROVE  Tells(p, g, "idle", a, off)
<1>1. Recorded(p, g, 0)
  BY RecordedEnds
<1> QED
  BY <1>1 DEF Tells

\* A run that ends leaves its log telling of its end.
LEMMA TellsEnding ==
  ASSUME Typed, RolesTold, SpendConstants, NEW c \in Cards, Ending(c),
         Tells(log[c], ends[c], at[c], agent[c], astray[c]), at[c] # "idle" => log[c] # <<>>
  PROVE  Tells(log'[c], ends'[c], at'[c], agent'[c], astray'[c])
<1>1. PICK how \in Hows, odd \in BOOLEAN, es \in Seq(EventState) :
        /\ \/ Marked(c, how, es)
           \/ Reasoned(c, how, odd, es)
           \/ Rejected(c, how, odd, es)
           \/ FailedAs(c, how, odd, es)
           \/ odd /\ es = <<>>
        /\ MayEnd(c) /\ EndsOddly(c, how, odd) /\ Writes(c, es)
  BY DEF Ending
<1>2. at[c] # "idle" /\ log[c] # <<>>
  BY <1>1 DEF MayEnd
<1>3. /\ log[c] \in Seq(EventState) /\ Recorded(log[c], ends[c], 1) /\ Undecided(log[c])
      /\ ~astray[c] => Stands(log[c], at[c], agent[c])
  BY <1>2, RunTold
<1>4. log'[c] = log[c] \o es
  BY <1>1, Wrote DEF Typed
<1>5. how \in Hows /\ odd \in BOOLEAN /\ EndsOddly(c, how, odd)
  BY <1>1
<1>6. /\ Extends(log[c], es, log'[c])
      /\ ~odd /\ Stands(log[c], at[c], agent[c]) => OutcomeOf(log'[c], Newest(log'[c])) = how
  BY <1>1, <1>2, <1>3, <1>4, EndingTold
<1>7. /\ at'[c] = "idle" /\ ends'[c] \in Seq([how : Hows, odd : BOOLEAN])
      /\ Len(ends'[c]) = Len(ends[c]) + 1
      /\ \A n \in 1..Len(ends[c]) : ends'[c][n] = ends[c][n]
      /\ ends'[c][Len(ends'[c])] = [how |-> how, odd |-> astray[c] \/ odd]
  <2>1. /\ at'[c] = "idle"
        /\ ends'[c] = Append(ends[c], [how |-> how, odd |-> astray[c] \/ odd])
    BY <1>5 DEF EndsOddly, Goes, Typed
  <2>2. ends[c] \in Seq([how : Hows, odd : BOOLEAN])
    BY EndsAre
  <2> DEFINE T == [how : Hows, odd : BOOLEAN]
             x == [how |-> how, odd |-> astray[c] \/ odd]
  <2>3. x \in T /\ ends[c] \in Seq(T) /\ ends'[c] = Append(ends[c], x)
    BY <1>5, <2>1, <2>2 DEF Typed
  <2> HIDE DEF T, x
  <2>4. /\ ends'[c] \in Seq(T) /\ Len(ends'[c]) = Len(ends[c]) + 1 /\ Len(ends[c]) \in Nat
        /\ \A n \in 1..Len(ends[c]) : ends'[c][n] = ends[c][n]
        /\ ends'[c][Len(ends[c]) + 1] = x
    BY <2>3, AppendProperties
  <2> QED
    BY <2>1, <2>4 DEF T, x
<1>8. DOMAIN ends'[c] = 1..Len(ends'[c])
  <2> DEFINE T == [how : Hows, odd : BOOLEAN]
  <2>1. ends'[c] \in Seq(T)
    BY <1>7
  <2> HIDE DEF T
  <2> QED
    BY <2>1
<1>9. Len(ends[c]) \in Nat /\ DOMAIN ends[c] = 1..Len(ends[c])
  BY EndsAre
<1> DEFINE g == ends'[c]
<1>10. ~g[Len(g)].odd => OutcomeOf(log'[c], Newest(log'[c])) = g[Len(g)].how
  <2>1. g[Len(g)].how = how /\ (g[Len(g)].odd <=> (astray[c] \/ odd))
    BY <1>7
  <2> HIDE DEF g
  <2> QED
    BY <1>3, <1>6, <2>1
<1>11. /\ Len(g) = Len(ends[c]) + 1 /\ DOMAIN g = 1..Len(g)
       /\ \A n \in 1..Len(ends[c]) : g[n] = ends[c][n]
  BY <1>7, <1>8
<1> HIDE DEF g
<1>12. Tells(log'[c], g, "idle", agent'[c], astray'[c])
  BY <1>3, <1>6, <1>9, <1>10, <1>11, TellsEnd
<1> QED
  BY <1>7, <1>12 DEF g

\* A run that starts is told of as one that has only begun ...
LEMMA TellsStart ==
  ASSUME Typed, NEW c \in Cards, Start(c), Tells(log[c], ends[c], at[c], agent[c], astray[c])
  PROVE  Tells(log'[c], ends'[c], at'[c], agent'[c], astray'[c])
<1> DEFINE e == Event("lifecycle_started", "none")
<1>1. e \in EventState /\ e.kind = "lifecycle_started" /\ <<e>> \in Seq(EventState)
  <2>1. "lifecycle_started" \in Kinds /\ "none" \in Whys
    BY DEF Kinds, Whys
  <2> QED
    BY <2>1, EventIs, EventSeqs
<1>2. /\ Writes(c, <<e>>) /\ at[c] = "idle" /\ at' = [at EXCEPT ![c] = "begun"] /\ ends' = ends
      /\ agent' = agent
  BY PlainIs DEF Start, Clears, Running, Goes, history
<1> HIDE DEF e
<1>3. log'[c] = log[c] \o <<e>> /\ at'[c] = "begun"
  BY <1>1, <1>2, Wrote DEF Typed
<1>4. /\ log[c] \in Seq(EventState) /\ Len(ends[c]) \in Nat /\ DOMAIN ends[c] = 1..Len(ends[c])
      /\ Recorded(log[c], ends[c], 0)
  BY <1>2, EndsAre DEF Typed, Tells
<1>5. Begins(log[c], e, log'[c])
  BY <1>1, <1>3 DEF Begins
<1>6. Recorded(log'[c], ends[c], 1) /\ Undecided(log'[c])
      /\ NoReason(log'[c]) /\ ~Limit(log'[c])
  BY <1>1, <1>4, <1>5, RecordedStarts, NewestStarts
<1>7. agent[c].finals = 0 /\ ~agent[c].limited
  BY <1>2 DEF Typed, Roles
<1>8. Stands(log'[c], "begun", agent[c])
  BY <1>6, <1>7, FreshStands
<1> QED
  BY <1>2, <1>3, <1>6, <1>8 DEF Tells

\* ... and one that is refused at once leaves the end before it in doubt.
LEMMA TellsRefused ==
  ASSUME Typed, NEW c \in Cards, RefusedAtOnce(c),
         Tells(log[c], ends[c], at[c], agent[c], astray[c])
  PROVE  Tells(log'[c], ends'[c], at'[c], agent'[c], astray'[c])
<1> DEFINE e == Event("run_refused", "at once")
           es == <<e>>
           T == [how : Hows, odd : BOOLEAN]
           h == ends[c]
           n == Len(h)
           x == [h[n] EXCEPT !.odd = TRUE]
<1>1. e \in EventState /\ e.kind = "run_refused" /\ es \in Seq(EventState)
  <2>1. "run_refused" \in Kinds /\ "at once" \in Whys
    BY DEF Kinds, Whys
  <2> QED
    BY <2>1, EventIs, EventSeqs
<1>2. /\ Writes(c, es) /\ at[c] = "idle" /\ at' = at
      /\ ends' = [ends EXCEPT ![c][n].odd = TRUE]
  BY DEF RefusedAtOnce, Running, control
<1> HIDE DEF e
<1>3. ByOne(log[c], es, log'[c], e)
  <2> DEFINE p == log'[c]
  <2>1. p = log[c] \o es /\ log[c] \in Seq(EventState)
    <3> HIDE DEF es
    <3> QED
      BY <1>1, <1>2, Wrote DEF Typed
  <2> HIDE DEF p
  <2>2. e.kind # "lifecycle_started"
    BY <1>1
  <2>3. es = <<e>>
    OBVIOUS
  <2> HIDE DEF es
  <2> QED
    BY <1>1, <2>1, <2>2, <2>3, ByOneIs DEF p
<1>4. /\ log[c] \in Seq(EventState) /\ h \in Seq(T) /\ n \in Nat /\ DOMAIN h = 1..n
      /\ Recorded(log[c], h, 0) /\ ends \in [Cards -> Seq(T)]
  BY <1>2, EndsAre DEF Typed, Tells
<1>5. ends'[c] = [h EXCEPT ![n] = x] /\ (n # 0 => h[n] \in T)
  <2>1. ends'[c] = [h EXCEPT ![n] = x]
    BY <1>2, <1>4
  <2>2. n # 0 => n \in 1..n
    BY <1>4
  <2> HIDE DEF h, n, x, T
  <2> QED
    BY <1>4, <2>1, <2>2
<1> DEFINE g == ends'[c]
<1>6. n # 0 => x.odd = TRUE
  BY <1>4, <1>5
<1>7. /\ DOMAIN g = DOMAIN h /\ \A k \in DOMAIN h : k # n => g[k] = h[k]
      /\ n \in DOMAIN h => g[n].odd
  <2>1. g = [h EXCEPT ![n] = x] /\ (n \in DOMAIN h => n # 0)
    BY <1>4, <1>5
  <2> HIDE DEF g, h, x, n
  <2> QED
    BY <1>6, <2>1
<1>8. Len(g) = Len(h)
  <2>1. g \in Seq(T)
    <3>1. n # 0 => x \in T
      BY <1>4, <1>5
    <3>3. g = [h EXCEPT ![n] = x] /\ (n = 0 => 1..n = {})
      BY <1>4, <1>5
    <3> HIDE DEF g, h, x, T, n
    <3>2. \A k \in 1..n : h[k] \in T
      BY <1>4
    <3>4. h \in [1..n -> T]
      BY <1>4, <3>2
    <3>5. g \in [1..n -> T]
      BY <3>1, <3>3, <3>4
    <3> QED
      BY <1>4, <3>5
  <2> HIDE DEF g, h, T, n
  <2>2. DOMAIN g = 1..Len(g) /\ Len(g) \in Nat
    BY <2>1
  <2> QED
    BY <1>4, <1>7, <2>2 DEF n
<1> HIDE DEF g, es, x, T
<1>9. Recorded(log'[c], g, 0)
  <2>1. Extends(log[c], es, log'[c])
    BY <1>3 DEF ByOne
  <2>2. Len(h) \in DOMAIN h => g[Len(h)].odd
    BY <1>7
  <2>3. \A k \in DOMAIN h : k # Len(h) => g[k] = h[k]
    BY <1>7
  <2> HIDE DEF h
  <2> QED
    BY <1>1, <1>4, <1>7, <1>8, <2>1, <2>2, <2>3, RecordedRefused DEF n
<1>10. at'[c] = "idle"
  BY <1>2
<1> QED
  BY <1>9, <1>10 DEF Tells, g

\* A restart marks the end of a run it finds.
LEMMA TellsRestart ==
  ASSUME Typed, Restart, NEW c \in Cards, Tells(log[c], ends[c], at[c], agent[c], astray[c])
  PROVE  Tells(log'[c], ends'[c], at'[c], agent'[c], astray'[c])
<1>0. PICK found \in BOOLEAN :
        /\ found => Running(c)
        /\ at'[c] = "idle" /\ Orphaned(found) \in Seq(EventState)
        /\ log'[c] = log[c] \o Orphaned(found)
        /\ ends'[c] = IF Running(c) THEN Append(ends[c], [how |-> "CRASH", odd |-> ~found])
                      ELSE ends[c]
  BY Restarted
<1> DEFINE e == Event("run_orphaned", "none")
           es == IF found THEN <<e>> ELSE <<>>
           x == [how |-> "CRASH", odd |-> ~found]
<1>1. /\ at'[c] = "idle" /\ es \in Seq(EventState) /\ log'[c] = log[c] \o es
      /\ ends'[c] = IF Running(c) THEN Append(ends[c], x) ELSE ends[c]
  BY <1>0 DEF Orphaned
<1>2. /\ log[c] \in Seq(EventState) /\ ends[c] \in Seq([how : Hows, odd : BOOLEAN])
      /\ Len(ends[c]) \in Nat /\ DOMAIN ends[c] = 1..Len(ends[c])
  BY EndsAre DEF Typed
<1>3. e.kind = "run_orphaned"
  BY DEF Event
<1>4. CASE ~Running(c)
  <2>1. log'[c] = log[c] \o <<>>
    BY <1>0, <1>1, <1>4
  <2>2. log'[c] = log[c]
    BY <1>2, <2>1
  <2> QED
    BY <1>1, <1>4, <2>2 DEF Tells, Running
<1>5. CASE Running(c)
  <2>1. Recorded(log[c], ends[c], 1) /\ Undecided(log[c])
    BY <1>5, RunTold DEF Running
  <2>2. x \in [how : Hows, odd : BOOLEAN] /\ x.how = "CRASH" /\ (x.odd <=> ~found)
    BY DEF Hows, Fault
  <2> HIDE DEF x
  <2>3. /\ Len(ends'[c]) = Len(ends[c]) + 1 /\ ends'[c][Len(ends[c]) + 1] = x
        /\ \A n \in 1..Len(ends[c]) : ends'[c][n] = ends[c][n]
        /\ DOMAIN ends'[c] = 1..Len(ends'[c])
    <3> DEFINE T == [how : Hows, odd : BOOLEAN]
    <3>1. ends[c] \in Seq(T) /\ x \in T /\ ends'[c] = Append(ends[c], x)
      BY <1>1, <1>2, <1>5, <2>2
    <3> HIDE DEF T
    <3> QED
      BY <3>1, AppendProperties
  <2>4. \/ ~found /\ es = <<>>
        \/ found /\ es = <<e>>
    BY <1>5
  <2> HIDE DEF e
  <2>5. /\ Extends(log[c], es, log'[c])
        /\ found => OutcomeOf(log'[c], Newest(log'[c])) = "CRASH"
    <3>1. CASE ~found /\ es = <<>>
      <4>1. Still(es)
        BY <3>1, StillOnes
      <4>2. log'[c] = log[c] \o es
        BY <1>1
      <4> HIDE DEF es
      <4> QED
        BY <3>1, <4>1, <4>2, StillExtends
    <3>2. CASE found /\ es = <<e>>
      <4>1. Len(es) = 1 /\ es[1] = e
        BY <3>2
      <4>2. Closes(es, "run_orphaned")
        <5> HIDE DEF es
        <5> QED
          BY <1>3, <4>1 DEF Closes
      <4>3. log'[c] = log[c] \o es /\ es \in Seq(EventState)
        BY <1>1
      <4>4. Extends(log[c], es, log'[c])
        <5> HIDE DEF es
        <5> QED
          BY <1>3, <4>1, <4>3 DEF Extends
      <4> HIDE DEF es
      <4>5. OutcomeOf(log'[c], Newest(log'[c])) = "CRASH"
        BY <1>2, <2>1, <4>2, <4>3, <4>4, MarkDecides
      <4> QED
        BY <4>4, <4>5
    <3> QED
      BY <2>4, <3>1, <3>2
  <2> DEFINE g == ends'[c]
  <2>6. ~g[Len(g)].odd => OutcomeOf(log'[c], Newest(log'[c])) = g[Len(g)].how
    BY <2>2, <2>3, <2>5
  <2>7. Len(g) = Len(ends[c]) + 1 /\ DOMAIN g = 1..Len(g)
        /\ \A n \in 1..Len(ends[c]) : g[n] = ends[c][n]
    BY <2>3
  <2> HIDE DEF g, es
  <2>8. Tells(log'[c], g, "idle", agent'[c], astray'[c])
    BY <1>1, <1>2, <2>1, <2>5, <2>6, <2>7, TellsEnd
  <2> QED
    BY <1>1, <2>8 DEF g
<1> QED
  BY <1>4, <1>5

-----------------------------------------------------------------------------
(* what an agent's lines tell *)

\* A card that runs is told of as running where its log stands as its agent does.
LEMMA TellsRunning ==
  ASSUME NEW p, NEW h, NEW stage, stage # "idle", NEW a, NEW off,
         Recorded(p, h, 1), Undecided(p), ~off => Stands(p, stage, a)
  PROVE  Tells(p, h, stage, a, off)
BY DEF Tells

\* A line of an agent
LEMMA LineTold ==
  ASSUME Typed, NEW c \in Cards, at[c] \in Roles,
         Tells(log[c], ends[c], at[c], agent[c], astray[c]),
         NEW e \in EventState, e.kind \in {"result", "rate_limit", "usage"}, Writes(c, <<e>>)
  PROVE  /\ Recorded(log'[c], ends[c], 1) /\ Undecided(log'[c])
         /\ e.kind # "result" \/ e.why = "none" => (NoReason(log[c]) => NoReason(log'[c]))
         /\ e.kind # "result" => \A why : LastReason(log[c], why) => LastReason(log'[c], why)
         /\ e.kind = "result" /\ e.why # "none" => LastReason(log'[c], e.why)
         /\ e.kind # "rate_limit" => (Limit(log'[c]) <=> Limit(log[c]))
         /\ e.kind = "rate_limit" => Limit(log'[c])
<1> DEFINE es == <<e>>
           q == log[c]
           p == log'[c]
<1>1. es = <<e>> /\ es \in Seq(EventState) /\ Writes(c, es) /\ e.kind # "lifecycle_started"
  OBVIOUS
<1>2. at[c] # "idle"
  BY DEF Roles
<1>3. q \in Seq(EventState) /\ Recorded(q, ends[c], 1) /\ Undecided(q)
  BY <1>2, RunTold
<1>4. Len(ends[c]) \in Nat /\ DOMAIN ends[c] = 1..Len(ends[c])
  BY EndsAre
<1>5. p = q \o es
  <2> HIDE DEF es
  <2> QED
    BY <1>1, Wrote DEF Typed
<1> HIDE DEF es, q, p
<1>6. ByOne(q, es, p, e)
  BY <1>1, <1>3, <1>5, ByOneIs
<1>7. Recorded(p, ends[c], 1)
  <2>1. Extends(q, es, p)
    BY <1>6 DEF ByOne
  <2> HIDE DEF Extends
  <2> QED
    BY <1>1, <1>3, <1>4, <2>1, RecordedOn
<1>8. /\ Undecided(p)
      /\ e.kind # "result" \/ e.why = "none" => (NoReason(q) => NoReason(p))
      /\ e.kind # "result" => \A why : LastReason(q, why) => LastReason(p, why)
      /\ e.kind = "result" /\ e.why # "none" => LastReason(p, e.why)
      /\ e.kind # "rate_limit" => (Limit(p) <=> Limit(q))
      /\ e.kind = "rate_limit" => Limit(p)
  BY <1>1, <1>3, <1>6, LineKeeps
<1> QED
  BY <1>7, <1>8 DEF q, p

\* A log stands as an agent at work does ...
LEMMA WorkStands ==
  ASSUME NEW p, NEW stage \in Roles, NEW a
  PROVE  Stands(p, stage, a) <=>
           /\ Limit(p) <=> a.limited
           /\ a.finals = 0 \/ a.why = "none" => NoReason(p)
           /\ a.finals = 1 /\ a.why # "none" => LastReason(p, Reason(a.why))
BY DEF Stands, Roles

\* ... or one that came back.
LEMMA BackStands ==
  ASSUME NEW p, NEW stage \in {"worked", "reviewed"}, NEW a
  PROVE  Stands(p, stage, a) <=>
           /\ a.why = "none" => NoReason(p) /\ ~Limit(p)
           /\ a.why # "none" => IF Limit(p) THEN a.why = "USAGE_LIMIT"
                                ELSE LastReason(p, Reason(a.why))
BY DEF Stands, Roles

\* Lines of usage, results and limits
LEMMA TellsLine ==
  ASSUME Typed, SpendConstants, NEW c \in Cards, Uses(c) \/ Reports(c) \/ Limited(c),
         Tells(log[c], ends[c], at[c], agent[c], astray[c])
  PROVE  Tells(log'[c], ends'[c], at'[c], agent'[c], astray'[c])
<1>0. /\ agent[c] \in AgentState /\ Prices \subseteq Price /\ agent \in [Cards -> AgentState]
      /\ astray \in [Cards -> BOOLEAN] /\ at[c] \in Roles
      /\ UNCHANGED <<at, ends>>
  BY DEF Typed, SpendConstants, Price, Uses, Reports, Limited, Line, control
<1>1. /\ at[c] # "idle" /\ ~astray[c] => Stands(log[c], at[c], agent[c])
  BY <1>0, RunTold DEF Roles
<1>2. /\ agent[c].finals \in {0, 1} /\ agent[c].limited \in BOOLEAN
      /\ agent[c].why \in Fault \cup {"none"}
  BY <1>0 DEF AgentState
<1>3. ASSUME ~astray[c]
      PROVE  /\ Limit(log[c]) <=> agent[c].limited
             /\ agent[c].finals = 0 \/ agent[c].why = "none" => NoReason(log[c])
             /\ agent[c].finals = 1 /\ agent[c].why # "none" =>
                  LastReason(log[c], Reason(agent[c].why))
  BY <1>0, <1>1, <1>3, WorkStands DEF Roles
<1>4. ASSUME Recorded(log'[c], ends[c], 1), Undecided(log'[c]),
             ~astray'[c] =>
               /\ Limit(log'[c]) <=> agent'[c].limited
               /\ agent'[c].finals = 0 \/ agent'[c].why = "none" => NoReason(log'[c])
               /\ agent'[c].finals = 1 /\ agent'[c].why # "none" =>
                    LastReason(log'[c], Reason(agent'[c].why))
      PROVE  Tells(log'[c], ends'[c], at'[c], agent'[c], astray'[c])
  <2>1. ~astray'[c] => Stands(log'[c], at[c], agent'[c])
    BY <1>0, <1>4, WorkStands
  <2>2. at[c] # "idle"
    BY <1>0 DEF Roles
  <2>3. Tells(log'[c], ends[c], at[c], agent'[c], astray'[c])
    BY <1>4, <2>1, <2>2, TellsRunning
  <2> QED
    BY <1>0, <2>3
<1>5. CASE Uses(c)
  <2>1. PICK cost \in Prices :
          /\ Writes(c, <<[Event("usage", "none") EXCEPT !.used = cost]>>)
          /\ agent' = [agent EXCEPT ![c].pending = Append(@, cost)] /\ UNCHANGED astray
    BY <1>5 DEF Uses
  <2> DEFINE e == [Event("usage", "none") EXCEPT !.used = cost]
  <2>2. cost \in Price /\ Event("usage", "none") \in EventState
    BY <1>0, EventTypes DEF Kinds, Whys
  <2>3. e \in EventState /\ e.kind = "usage"
    BY <2>2 DEF EventState, Event
  <2>4. Writes(c, <<e>>)
    BY <2>1
  <2> HIDE DEF e
  <2>5. /\ Recorded(log'[c], ends[c], 1) /\ Undecided(log'[c])
        /\ NoReason(log[c]) => NoReason(log'[c])
        /\ \A why : LastReason(log[c], why) => LastReason(log'[c], why)
        /\ Limit(log'[c]) <=> Limit(log[c])
    BY <1>0, <2>3, <2>4, LineTold
  <2>6. /\ agent'[c].finals = agent[c].finals /\ agent'[c].why = agent[c].why
        /\ agent'[c].limited = agent[c].limited
    BY <1>0, <2>1 DEF AgentState
  <2>7. astray'[c] = astray[c]
    BY <2>1
  <2> QED
    BY <1>3, <1>4, <2>5, <2>6, <2>7
<1>6. CASE Reports(c)
  <2>1. PICK cost \in Prices, why \in {"none"} \cup Faults :
          /\ Writes(c, <<Result(c, Plus(Pending(c), cost), cost,
                               IF why = "capped" THEN "CRASH" ELSE why)>>)
          /\ agent' = [agent EXCEPT ![c] = [@ EXCEPT !.pending = <<>>, !.finals = 1, !.why = why]]
          /\ astray' = [astray EXCEPT ![c] =
                  @ \/ (agent[c].finals = 1 /\ agent[c].why # "none" /\ why = "none")]
    BY <1>6 DEF Reports
  <2> DEFINE e == Result(c, Plus(Pending(c), cost), cost, Reason(why))
  <2>2. Reason(why) \in Whys /\ (why = "none" <=> Reason(why) = "none")
    BY SpendConstants DEF Reason, Whys, Fault, SpendConstants
  <2>3. Plus(Pending(c), cost) \in Price /\ cost \in Price
    <3>1. Pending(c) \in Price /\ cost \in Price
      BY <1>0, PendingIs
    <3> QED
      BY <3>1, PlusIs
  <2>4. e \in EventState /\ e.kind = "result" /\ e.why = Reason(why)
    BY <1>0, <2>2, <2>3, ResultIs
  <2>5. Writes(c, <<e>>)
    BY <2>1 DEF Reason
  <2> HIDE DEF e
  <2>6. /\ Recorded(log'[c], ends[c], 1) /\ Undecided(log'[c])
        /\ why = "none" => (NoReason(log[c]) => NoReason(log'[c]))
        /\ why # "none" => LastReason(log'[c], Reason(why))
        /\ Limit(log'[c]) <=> Limit(log[c])
    BY <1>0, <2>2, <2>4, <2>5, LineTold
  <2>7. agent'[c].finals = 1 /\ agent'[c].why = why /\ agent'[c].limited = agent[c].limited
    BY <1>0, <2>1 DEF AgentState
  <2>8. ~astray'[c] => ~astray[c] /\ (why # "none" \/ agent[c].finals = 0 \/ agent[c].why = "none")
    BY <1>0, <1>2, <2>1
  <2> QED
    BY <1>3, <1>4, <2>6, <2>7, <2>8
<1>7. CASE Limited(c)
  <2> DEFINE e == Event("rate_limit", "none")
  <2>1. e \in EventState /\ e.kind = "rate_limit"
    BY EventIs DEF Kinds, Whys
  <2>2. /\ Writes(c, <<e>>) /\ agent' = [agent EXCEPT ![c].limited = TRUE] /\ UNCHANGED astray
    BY <1>7, PlainIs DEF Limited
  <2> HIDE DEF e
  <2>3. /\ Recorded(log'[c], ends[c], 1) /\ Undecided(log'[c])
        /\ NoReason(log[c]) => NoReason(log'[c])
        /\ \A why : LastReason(log[c], why) => LastReason(log'[c], why)
        /\ Limit(log'[c])
    BY <1>0, <2>1, <2>2, LineTold
  <2>4. agent'[c].finals = agent[c].finals /\ agent'[c].why = agent[c].why
    BY <1>0, <2>2 DEF AgentState
  <2>5. agent'[c].limited = TRUE /\ astray'[c] = astray[c]
    BY <1>0, <2>2 DEF AgentState
  <2> QED
    BY <1>3, <1>4, <2>3, <2>4, <2>5
<1> QED
  BY <1>5, <1>6, <1>7

\* A result of an agent that dies or is cut short
LEMMA LastLine ==
  ASSUME Typed, NEW c \in Cards, at[c] \in Roles,
         Tells(log[c], ends[c], at[c], agent[c], astray[c]),
         NEW cost \in Price, NEW why \in Whys \ {"none"}, Writes(c, <<Result(c, cost, 0, why)>>)
  PROVE  /\ Recorded(log'[c], ends[c], 1) /\ Undecided(log'[c])
         /\ LastReason(log'[c], why)
         /\ Limit(log'[c]) <=> Limit(log[c])
<1> DEFINE e == Result(c, cost, 0, why)
<1>1. e \in EventState /\ e.kind = "result" /\ e.why = why
  <2>1. 0 \in Price
    BY DEF Price
  <2> QED
    BY <2>1, ResultIs
<1>2. Writes(c, <<e>>)
  OBVIOUS
<1> HIDE DEF e
<1> QED
  BY <1>1, <1>2, LineTold

\* An agent that comes back
LEMMA TellsExit ==
  ASSUME Typed, SpendConstants, NEW c \in Cards,
         Finishes(c) \/ Stalls(c) \/ Dies(c) \/ Capped(c),
         Tells(log[c], ends[c], at[c], agent[c], astray[c])
  PROVE  Tells(log'[c], ends'[c], at'[c], agent'[c], astray'[c])
<1>0. /\ agent[c] \in AgentState /\ agent \in [Cards -> AgentState] /\ at \in [Cards -> Stages]
      /\ astray \in [Cards -> BOOLEAN] /\ at[c] \in Roles /\ ends' = ends
      /\ log \in [Cards -> Seq(EventState)]
  BY DEF Typed, Finishes, Stalls, Dies, Capped, Exit
<1>1. /\ Recorded(log[c], ends[c], 1) /\ Undecided(log[c])
      /\ ~astray[c] => Stands(log[c], at[c], agent[c])
  BY <1>0, RunTold DEF Roles
<1>2. /\ agent[c].finals \in {0, 1} /\ agent[c].limited \in BOOLEAN
      /\ agent[c].why \in Fault \cup {"none"}
  BY <1>0 DEF AgentState
<1>3. ASSUME ~astray[c]
      PROVE  /\ Limit(log[c]) <=> agent[c].limited
             /\ agent[c].finals = 0 \/ agent[c].why = "none" => NoReason(log[c])
             /\ agent[c].finals = 1 /\ agent[c].why # "none" =>
                  LastReason(log[c], Reason(agent[c].why))
  BY <1>0, <1>1, <1>3, WorkStands DEF Roles
<1>4. ASSUME NEW why, Exit(c, why)
      PROVE  at'[c] \in {"worked", "reviewed"} /\ agent'[c].why = why
  <2>1. at' = [at EXCEPT ![c] = IF at[c] = "worker" THEN "worked" ELSE "reviewed"]
    BY <1>4 DEF Exit, Goes
  <2>2. agent'[c] = [NoAgent EXCEPT !.why = why]
    BY <1>0, <1>4 DEF Exit
  <2>3. agent'[c].why = why
    BY <2>2 DEF NoAgent
  <2> QED
    BY <1>0, <2>1, <2>3
<1>5. ASSUME NEW why, Exit(c, why), Recorded(log'[c], ends[c], 1), Undecided(log'[c]),
             ~astray'[c] =>
               /\ why = "none" => NoReason(log'[c]) /\ ~Limit(log'[c])
               /\ why # "none" => IF Limit(log'[c]) THEN why = "USAGE_LIMIT"
                                  ELSE LastReason(log'[c], Reason(why))
      PROVE  Tells(log'[c], ends'[c], at'[c], agent'[c], astray'[c])
  <2>1. at'[c] \in {"worked", "reviewed"} /\ agent'[c].why = why
    BY <1>4, <1>5
  <2>2. ~astray'[c] => Stands(log'[c], at'[c], agent'[c])
    BY <1>5, <2>1, BackStands
  <2>3. Tells(log'[c], ends[c], at'[c], agent'[c], astray'[c])
    BY <1>5, <2>1, <2>2, TellsRunning
  <2> QED
    BY <1>0, <2>3
<1>6. CASE Finishes(c)
  <2> DEFINE why == IF agent[c].why = "none" /\ agent[c].limited THEN "USAGE_LIMIT"
                    ELSE agent[c].why
  <2>1. /\ Exit(c, why) /\ log' = log /\ agent[c].finals = 1
        /\ astray' = [astray EXCEPT ![c] =
             @ \/ (agent[c].limited /\ agent[c].why \notin {"none", "USAGE_LIMIT"})]
    BY <1>6 DEF Finishes, LeftOver
  <2>2. ~astray'[c] => ~astray[c] /\ (~agent[c].limited \/ agent[c].why \in {"none", "USAGE_LIMIT"})
    BY <1>0, <2>1
  <2>3. log'[c] = log[c]
    BY <2>1
  <2>4. ~astray'[c] =>
          /\ why = "none" => NoReason(log'[c]) /\ ~Limit(log'[c])
          /\ why # "none" => IF Limit(log'[c]) THEN why = "USAGE_LIMIT"
                             ELSE LastReason(log'[c], Reason(why))
    BY <1>3, <2>1, <2>2, <2>3
  <2> HIDE DEF why
  <2> QED
    BY <1>1, <1>5, <2>1, <2>3, <2>4
<1>7. CASE Stalls(c)
  <2>1. Exit(c, "API_UNREACHABLE") /\ log' = log /\ astray'[c] = TRUE
    BY <1>0, <1>7 DEF Stalls
  <2> QED
    BY <1>1, <1>5, <2>1
<1>8. CASE Dies(c)
  <2>1. PICK stalled \in BOOLEAN :
          LET cost == IF agent[c].pending = <<>> THEN NoPrice ELSE Pending(c)
              why == IF stalled THEN "API_UNREACHABLE"
                     ELSE IF agent[c].limited THEN "USAGE_LIMIT" ELSE "CRASH" IN
          /\ Exit(c, why) /\ Writes(c, <<Result(c, cost, 0, why)>>)
          /\ astray' = [astray EXCEPT ![c] = @ \/ (stalled /\ agent[c].limited)]
    BY <1>8 DEF Dies
  <2> DEFINE cost == IF agent[c].pending = <<>> THEN NoPrice ELSE Pending(c)
             why == IF stalled THEN "API_UNREACHABLE"
                    ELSE IF agent[c].limited THEN "USAGE_LIMIT" ELSE "CRASH"
  <2>2. /\ cost \in Price /\ why \in Whys \ {"none"} /\ Reason(why) = why
        /\ agent[c].limited /\ ~stalled => why = "USAGE_LIMIT"
    <3>1. Pending(c) \in Price /\ NoPrice \in Price
      BY PendingIs DEF Price
    <3> QED
      BY <3>1 DEF Whys, Fault, Reason
  <2>3. /\ Exit(c, why) /\ Writes(c, <<Result(c, cost, 0, why)>>)
        /\ astray' = [astray EXCEPT ![c] = @ \/ (stalled /\ agent[c].limited)]
    BY <2>1
  <2> HIDE DEF cost, why
  <2>4. /\ Recorded(log'[c], ends[c], 1) /\ Undecided(log'[c])
        /\ LastReason(log'[c], why)
        /\ Limit(log'[c]) <=> Limit(log[c])
    BY <1>0, <2>2, <2>3, LastLine
  <2>5. ~astray'[c] => ~astray[c] /\ ~(stalled /\ agent[c].limited)
    BY <1>0, <2>3
  <2>6. ~astray'[c] => IF Limit(log'[c]) THEN why = "USAGE_LIMIT"
                       ELSE LastReason(log'[c], Reason(why))
    BY <1>3, <2>2, <2>4, <2>5
  <2> QED
    BY <1>5, <2>2, <2>3, <2>4, <2>6
<1>9. CASE Capped(c)
  <2>1. /\ Exit(c, "capped") /\ Writes(c, <<Result(c, Pending(c), 0, "CRASH")>>)
        /\ ~agent[c].limited /\ astray' = astray
    BY <1>9 DEF Capped, Rest
  <2>2. Pending(c) \in Price /\ "CRASH" \in Whys \ {"none"} /\ Reason("capped") = "CRASH"
    BY PendingIs DEF Whys, Fault, Reason
  <2>3. /\ Recorded(log'[c], ends[c], 1) /\ Undecided(log'[c])
        /\ LastReason(log'[c], "CRASH")
        /\ Limit(log'[c]) <=> Limit(log[c])
    BY <1>0, <2>1, <2>2, LastLine
  <2>4. ~astray'[c] => ~Limit(log'[c])
    BY <1>3, <2>1, <2>3
  <2> QED
    BY <1>5, <2>1, <2>2, <2>3, <2>4
<1> QED
  BY <1>6, <1>7, <1>8, <1>9

\* One card alone goes on.
LEMMA OutcomesRest ==
  ASSUME OutcomesTold, NEW c \in Cards,
         \A d \in Cards \ {c} : log'[d] = log[d] /\ at'[d] = at[d] /\ ends'[d] = ends[d]
                                /\ agent'[d] = agent[d] /\ astray'[d] = astray[d],
         Tells(log'[c], ends'[c], at'[c], agent'[c], astray'[c])
  PROVE  OutcomesTold'
<1> SUFFICES ASSUME NEW d \in Cards
             PROVE  Tells(log'[d], ends'[d], at'[d], agent'[d], astray'[d])
  BY DEF OutcomesTold
<1>1. CASE d = c
  BY <1>1
<1>2. CASE d # c
  <2>1. /\ log'[d] = log[d] /\ at'[d] = at[d] /\ ends'[d] = ends[d]
        /\ agent'[d] = agent[d] /\ astray'[d] = astray[d]
    BY <1>2
  <2>2. Tells(log[d], ends[d], at[d], agent[d], astray[d])
    BY DEF OutcomesTold
  <2> QED
    BY <2>1, <2>2
<1> QED
  BY <1>1, <1>2

\* No step of a card is told of another.
LEMMA OthersAgentRest ==
  ASSUME Typed, NEW c \in Cards, AgentNext(c), NEW d \in Cards \ {c}
  PROVE  /\ log'[d] = log[d] /\ at'[d] = at[d] /\ ends'[d] = ends[d]
         /\ agent'[d] = agent[d] /\ astray'[d] = astray[d]
<1>0. /\ log \in [Cards -> Seq(EventState)] /\ at \in [Cards -> Stages]
      /\ agent \in [Cards -> AgentState] /\ astray \in [Cards -> BOOLEAN]
  BY DEF Typed
<1>1. CASE Uses(c) \/ Reports(c) \/ Limited(c)
  <2>1. at' = at /\ ends' = ends
    BY <1>1 DEF Uses, Reports, Limited, Line, control
  <2>2. \E es : log' = [log EXCEPT ![c] = @ \o es]
    BY <1>1 DEF Uses, Reports, Limited, Writes
  <2>3. agent'[d] = agent[d]
    BY <1>0, <1>1 DEF Uses, Reports, Limited
  <2>4. astray'[d] = astray[d]
    BY <1>0, <1>1 DEF Uses, Reports, Limited
  <2> QED
    BY <1>0, <2>1, <2>2, <2>3, <2>4
<1>2. CASE Finishes(c) \/ Stalls(c) \/ Dies(c) \/ Capped(c)
  <2>1. PICK why : Exit(c, why)
    BY <1>2 DEF Finishes, Stalls, Dies, Capped
  <2>2. at'[d] = at[d] /\ agent'[d] = agent[d] /\ ends' = ends
    BY <1>0, <2>1 DEF Exit, Goes
  <2>3. log' = log \/ \E es : log' = [log EXCEPT ![c] = @ \o es]
    BY <1>2 DEF Finishes, Stalls, Dies, Capped, Writes
  <2>4. astray'[d] = astray[d]
    BY <1>0, <1>2 DEF Finishes, Stalls, Dies, Capped
  <2> QED
    BY <1>0, <2>2, <2>3, <2>4
<1> QED
  BY <1>1, <1>2 DEF AgentNext

\* Whatever an agent does, its log tells how it stands ...
LEMMA OutcomesAgent ==
  ASSUME Typed, OutcomesTold, SpendConstants, NEW c \in Cards, AgentNext(c)
  PROVE  OutcomesTold'
<1>1. Tells(log[c], ends[c], at[c], agent[c], astray[c])
  BY DEF OutcomesTold
<1>2. Tells(log'[c], ends'[c], at'[c], agent'[c], astray'[c])
  BY <1>1, TellsLine, TellsExit DEF AgentNext
<1>3. \A d \in Cards \ {c} : /\ log'[d] = log[d] /\ at'[d] = at[d] /\ ends'[d] = ends[d]
                             /\ agent'[d] = agent[d] /\ astray'[d] = astray[d]
  BY OthersAgentRest
<1> QED
  BY <1>2, <1>3, OutcomesRest

\* ... and whatever its run does, how it ended.
LEMMA OutcomesRun ==
  ASSUME Typed, RolesTold, OutcomesTold, SpendConstants, NEW c \in Cards, RunNext(c)
  PROVE  OutcomesTold'
<1>0. /\ log \in [Cards -> Seq(EventState)] /\ at \in [Cards -> Stages]
      /\ agent \in [Cards -> AgentState] /\ astray \in [Cards -> BOOLEAN]
      /\ ends \in [Cards -> Seq([how : Hows, odd : BOOLEAN])]
  BY DEF Typed
<1>1. Tells(log[c], ends[c], at[c], agent[c], astray[c])
  BY DEF OutcomesTold
<1>2. at[c] # "idle" => log[c] # <<>>
  <2>1. TellsRoles(log[c], PhaseOf(at[c])) /\ at[c] \in Stages
    BY <1>0 DEF RolesTold
  <2>2. at[c] # "idle" => PhaseOf(at[c]) # "over"
    BY <2>1, PhaseIs DEF Stages
  <2> QED
    BY <2>1, <2>2 DEF TellsRoles, Fits
<1>3. CASE Start(c)
  <2>1. Tells(log'[c], ends'[c], at'[c], agent'[c], astray'[c])
    BY <1>1, <1>3, TellsStart
  <2>2. /\ at' = [at EXCEPT ![c] = "begun"] /\ UNCHANGED <<agent, ends, astray>>
        /\ \E es : log' = [log EXCEPT ![c] = @ \o es]
    BY <1>3 DEF Start, Clears, Goes, Writes, history
  <2>3. \A d \in Cards \ {c} : /\ log'[d] = log[d] /\ at'[d] = at[d] /\ ends'[d] = ends[d]
                               /\ agent'[d] = agent[d] /\ astray'[d] = astray[d]
    BY <1>0, <2>2
  <2> QED
    BY <2>1, <2>3, OutcomesRest
<1>4. CASE RefusedAtOnce(c)
  <2>1. Tells(log'[c], ends'[c], at'[c], agent'[c], astray'[c])
    BY <1>1, <1>4, TellsRefused
  <2>2. /\ ends' = [ends EXCEPT ![c][Len(ends[c])].odd = TRUE] /\ UNCHANGED <<agent, at, astray>>
        /\ \E es : log' = [log EXCEPT ![c] = @ \o es]
    BY <1>4 DEF RefusedAtOnce, Clears, Writes, control
  <2>3. \A d \in Cards \ {c} : /\ log'[d] = log[d] /\ at'[d] = at[d] /\ ends'[d] = ends[d]
                               /\ agent'[d] = agent[d] /\ astray'[d] = astray[d]
    BY <1>0, <2>2
  <2> QED
    BY <2>1, <2>3, OutcomesRest
<1>5. CASE GoesOn(c)
  <2>1. PICK to \in Stages, es \in Seq(EventState), off \in BOOLEAN :
          /\ Onward(c, to, es, off) /\ Goes(c, to) /\ Writes(c, es)
          /\ astray' = [astray EXCEPT ![c] = @ \/ off]
          /\ UNCHANGED <<Told, ends>>
    BY <1>5 DEF GoesOn
  <2>2. log'[c] = log[c] \o es /\ \A d \in Cards \ {c} : log'[d] = log[d]
    BY <1>0, <2>1, Wrote
  <2>3. Tells(log'[c], ends[c], to, agent[c], astray[c] \/ off)
    BY <1>1, <2>1, <2>2, TellsOnward
  <2>4. /\ at' = [at EXCEPT ![c] = to] /\ UNCHANGED <<agent, ends>>
        /\ astray' = [astray EXCEPT ![c] = @ \/ off]
    BY <2>1 DEF Goes, Told
  <2>5. /\ at'[c] = to /\ agent'[c] = agent[c] /\ ends'[c] = ends[c]
        /\ astray'[c] = (astray[c] \/ off)
        /\ \A d \in Cards \ {c} : /\ at'[d] = at[d] /\ ends'[d] = ends[d]
                                  /\ agent'[d] = agent[d] /\ astray'[d] = astray[d]
    BY <1>0, <2>4
  <2>6. Tells(log'[c], ends'[c], at'[c], agent'[c], astray'[c])
    BY <2>3, <2>5
  <2> QED
    BY <2>2, <2>5, <2>6, OutcomesRest
<1>6. CASE Ending(c)
  <2>1. Tells(log'[c], ends'[c], at'[c], agent'[c], astray'[c])
    BY <1>1, <1>2, <1>6, TellsEnding
  <2>2. PICK how \in Hows, odd \in BOOLEAN, es \in Seq(EventState) :
          EndsOddly(c, how, odd) /\ Writes(c, es) /\ UNCHANGED Told
    BY <1>6 DEF Ending
  <2>3. \A d \in Cards \ {c} : log'[d] = log[d]
    BY <1>0, <2>2, Wrote
  <2>4. \A d \in Cards \ {c} : /\ at'[d] = at[d] /\ ends'[d] = ends[d]
                               /\ agent'[d] = agent[d] /\ astray'[d] = astray[d]
    BY <1>0, <2>2 DEF EndsOddly, Goes, Told
  <2> QED
    BY <2>1, <2>3, <2>4, OutcomesRest
<1> QED
  BY <1>3, <1>4, <1>5, <1>6, RunSteps

\* The board does no harm to it either.
LEMMA OutcomesStep ==
  ASSUME Typed, RolesTold, OutcomesTold, SpendConstants, [Next]_vars
  PROVE  OutcomesTold'
<1>1. CASE UNCHANGED Asking \/ Turn \/ Midnight
  <2>1. UNCHANGED <<log, at, ends, agent, astray>>
    BY <1>1 DEF Asking, control, history, Turn, Midnight
  <2> QED
    BY <2>1 DEF OutcomesTold
<1>2. CASE Restart
  <2> SUFFICES ASSUME NEW c \in Cards
               PROVE  Tells(log'[c], ends'[c], at'[c], agent'[c], astray'[c])
    BY DEF OutcomesTold
  <2>1. Tells(log[c], ends[c], at[c], agent[c], astray[c])
    BY DEF OutcomesTold
  <2> QED
    BY <1>2, <2>1, TellsRestart
<1> QED
  BY <1>1, <1>2, OutcomesRun, OutcomesAgent, NextIs

\* At first there is nothing to tell.
LEMMA OutcomesInit ==
  ASSUME Init
  PROVE  OutcomesTold
<1> SUFFICES ASSUME NEW c \in Cards
             PROVE  Tells(<<>>, <<>>, "idle", agent[c], astray[c])
  BY DEF OutcomesTold, Init
<1>1. StartsOf(<<>>) = {}
  BY DEF StartsOf
<1>2. Cardinality({}) = 0
  BY FS_EmptySet
<1>3. 1..0 = {} /\ Len(<<>>) = 0 /\ DOMAIN <<>> = {}
  OBVIOUS
<1>4. Recorded(<<>>, <<>>, 0)
  BY <1>1, <1>2, <1>3 DEF Recorded
<1> QED
  BY <1>4 DEF Tells

\* Each log tells of its attempts always.
LEMMA OutcomesAlways == Spec => []OutcomesTold
<1>1. Init => OutcomesTold
  BY OutcomesInit
<1>2. (Typed /\ Money /\ RolesTold /\ RoleSums) /\ OutcomesTold /\ [Next]_vars => OutcomesTold'
  BY SpendConstants, OutcomesStep
<1> QED
  BY <1>1, <1>2, SpendAlways, PTL DEF Spec

\* An attempt that is over is said to have ended the way it did, unless it went on where its log
\* read as if it had stopped.
THEOREM OutcomesAreTold == Spec => []OutcomeIsTold
<1>1. Typed /\ RolesTold /\ OutcomesTold => OutcomeIsTold
  <2> SUFFICES ASSUME Typed, RolesTold, OutcomesTold, NEW c \in Cards, NEW n \in DOMAIN ends[c],
                      ~ends[c][n].odd
               PROVE  Outcome(c, Nth(c, n)) = ends[c][n].how
    BY DEF OutcomeIsTold
  <2> DEFINE q == log[c]
             h == ends[c]
  <2>1. /\ q \in Seq(EventState) /\ Len(h) \in Nat /\ DOMAIN h = 1..Len(h)
    BY EndsAre DEF Typed
  <2>2. PICK on \in {0, 1} : Recorded(q, h, on)
    BY DEF OutcomesTold, Tells
  <2>3. n \in 1..Cardinality(StartsOf(q))
    BY <2>1, <2>2 DEF Recorded
  <2>4. \E s \in StartsOf(q) : Cardinality(Begun(q, s)) = n
    BY <2>2, <2>3 DEF Recorded
  <2>5. Nth(c, n) = Part(q, n)
    BY <2>4, NthIs
  <2>6. Outcome(c, Part(q, n)) = OutcomeOf(q, Part(q, n))
    <3>1. Part(q, n) \in SUBSET DOMAIN q
      BY DEF Part
    <3> QED
      BY <2>1, <3>1, OutcomeReads
  <2>7. OutcomeOf(q, Part(q, n)) = h[n].how
    BY <2>2 DEF Recorded
  <2> QED
    BY <2>5, <2>6, <2>7
<1> QED
  BY <1>1, SpendAlways, OutcomesAlways, PTL

=============================================================================
