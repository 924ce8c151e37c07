---------------------------- MODULE Cards_proofs ----------------------------
(***************************************************************************)
(* That the rows of a board keep the order and the work they stand for,    *)
(* however a fold, a mission control turn, the operator and the ticks      *)
(* rewrite them side by side, for any number of cards, groups and edges:   *)
(* no cycle of checked edges, the order that was asked for, no card lost,  *)
(* no run folded away that had begun in time.                              *)
(*                                                                         *)
(* Each has an invariant of its own on top of CoreInv, that of the rows:   *)
(* CheckHolds, OrderInv, WorkFollows and RunsKnown.                        *)
(***************************************************************************)
EXTENDS Cards, FiniteSetTheorems, WellFoundedInduction, TLAPS

USE CardsConstants DEF CardsConstants, rows, past

-----------------------------------------------------------------------------
(* walks along edges *)

\* A set that holds 0 and the successor of each of its members holds every natural number: of the
\* intervals up to a number outside, finite sets all, the least would be up to another one.
LEMMA Induction ==
  ASSUME NEW T, 0 \in T, \A n \in Nat : n \in T => n + 1 \in T
  PROVE  Nat \subseteq T
<1> DEFINE U == {1..x : x \in Nat \ T}
<1>0. SUFFICES ASSUME Nat \ T # {}
               PROVE  FALSE
  OBVIOUS
<1>1. \A x \in Nat : 1..x \in FiniteSubsetsOf(Nat)
  <2> SUFFICES ASSUME NEW x \in Nat
               PROVE  1..x \in FiniteSubsetsOf(Nat)
    OBVIOUS
  <2>1. x \in Int /\ 1..x \in SUBSET Nat
    OBVIOUS
  <2> QED
    BY <2>1, FS_Interval DEF FiniteSubsetsOf
<1>2. PICK u \in U : \A v \in U : ~(<<v, u>> \in StrictSubsetOrdering(Nat))
  <2>1. U \subseteq FiniteSubsetsOf(Nat) /\ U # {}
    BY <1>0, <1>1
  <2> QED
    BY <2>1, FS_StrictSubsetOrderingWellFounded, WFMin
<1>3. PICK x \in Nat \ T : u = 1..x
  BY <1>2
<1>4. x # 0 /\ x - 1 \in Nat /\ x - 1 \notin T
  BY <1>3
<1>5. 1..(x - 1) \in U
  BY <1>4
<1>6. 1..(x - 1) \in SUBSET Nat /\ 1..x \in SUBSET Nat /\ 1..(x - 1) \subseteq 1..x
  BY <1>3, <1>4
<1>7. x \in 1..x /\ x \notin 1..(x - 1)
  BY <1>3, <1>4
<1>8. 1..(x - 1) # 1..x
  BY <1>7
<1>9. <<1..(x - 1), 1..x>> \in StrictSubsetOrdering(Nat)
  BY <1>6, <1>8 DEF StrictSubsetOrdering
<1> QED
  BY <1>2, <1>3, <1>5, <1>9


\* What a walk comes to next, and a set it does not leave
Onward(S, es) == S \cup {e[2] : e \in {x \in es : x[1] \in S}}
Closed(S, es) == \A e \in es : e[1] \in S => e[2] \in S

\* Reach is built up step by step, and there are as many steps as ids.
LEMMA ReachIs ==
  ASSUME NEW cs \in SUBSET Ids, NEW es \in SUBSET Edges
  PROVE  /\ Cardinality(Ids) \in Nat
         /\ \E f \in [0..Cardinality(Ids) -> SUBSET Ids] :
              /\ f[0] = cs /\ Reach(cs, es) = f[Cardinality(Ids)]
              /\ \A i \in 1..Cardinality(Ids) : f[i] = Onward(f[i - 1], es)
<1> DEFINE N == Cardinality(Ids)
<1>0. IsFiniteSet(Ids) /\ N \in Nat
  BY CardsConstants, FS_Union, FS_CardinalityType DEF CardsConstants, Ids
<1> HIDE DEF N
<1>00. \A S \in SUBSET Ids : Onward(S, es) \in SUBSET Ids
  BY DEF Onward, Edges
<1> DEFINE Upto(n, f) == /\ f \in [0..n -> SUBSET Ids] /\ f[0] = cs
                         /\ \A i \in 1..n : f[i] = Onward(f[i - 1], es)
           T == {n \in Nat : \E f : Upto(n, f)}
<1>1. 0 \in T
  <2>1. Upto(0, [i \in 0..0 |-> cs])
    OBVIOUS
  <2> QED
    BY <2>1
<1>2. ASSUME NEW n \in Nat, n \in T
      PROVE  n + 1 \in T
  <2>1. PICK f : Upto(n, f)
    BY <1>2
  <2> DEFINE g == [i \in 0..(n + 1) |-> IF i <= n THEN f[i] ELSE Onward(f[n], es)]
  <2>2. f[n] \in SUBSET Ids
    BY <2>1
  <2>3. g \in [0..(n + 1) -> SUBSET Ids] /\ g[0] = cs
    BY <1>00, <2>1, <2>2
  <2>4. ASSUME NEW i \in 1..(n + 1)
        PROVE  g[i] = Onward(g[i - 1], es)
    <3>1. CASE i = n + 1
      BY <3>1
    <3>2. CASE i # n + 1
      <4>1. i \in 1..n /\ g[i] = f[i] /\ g[i - 1] = f[i - 1]
        BY <3>2
      <4> QED
        BY <2>1, <4>1
    <3> QED
      BY <3>1, <3>2
  <2> HIDE DEF g
  <2> QED
    BY <2>3, <2>4
<1>3. N \in T
  <2> HIDE DEF T
  <2> QED
    BY <1>0, <1>1, <1>2, Induction
<1>4. PICK f : Upto(N, f)
  BY <1>3
<1> DEFINE Rec(g) == g = [n \in 0..N |->
                            IF n = 0 THEN cs
                            ELSE LET near == g[n - 1]
                                 IN near \cup {e[2] : e \in {x \in es : x[1] \in near}}]
           walk == CHOOSE g : Rec(g)
<1>5. Rec(f)
  <2>1. \A i \in 0..N : f[i] = IF i = 0 THEN cs ELSE Onward(f[i - 1], es)
    <3> SUFFICES ASSUME NEW i \in 0..N, i # 0
                 PROVE  f[i] = Onward(f[i - 1], es)
      BY <1>4
    <3>1. i \in 1..N
      BY <1>0
    <3> QED
      BY <1>4, <3>1
  <2>2. f = [i \in 0..N |-> f[i]]
    BY <1>4
  <2> QED
    BY <2>1, <2>2 DEF Onward
<1>6. Rec(walk)
  <2> HIDE DEF Rec
  <2> QED BY <1>5
<1>7. Reach(cs, es) = walk[N]
  BY DEF Reach, N
<1>8. \A n \in 0..N : walk[n] = f[n]
  <2> DEFINE E == {n \in Nat : n <= N => walk[n] = f[n]}
  <2> HIDE DEF walk
  <2>0. \A n \in 0..N : n # 0 => /\ walk[n] = Onward(walk[n - 1], es)
                                 /\ f[n] = Onward(f[n - 1], es)
    BY <1>5, <1>6 DEF Onward
  <2>1. 0 \in E
    <3>1. 0 \in 0..N
      BY <1>0
    <3> QED
      BY <1>5, <1>6, <3>1
  <2>2. ASSUME NEW n \in Nat, n \in E
        PROVE  n + 1 \in E
    <3> SUFFICES ASSUME n + 1 <= N
                 PROVE  walk[n + 1] = f[n + 1]
      OBVIOUS
    <3>1. n + 1 \in 0..N /\ n + 1 # 0 /\ (n + 1) - 1 = n /\ n <= N
      BY <1>0
    <3>2. walk[n] = f[n]
      BY <2>2, <3>1
    <3>3. walk[n + 1] = Onward(walk[n], es) /\ f[n + 1] = Onward(f[n], es)
      BY <2>0, <3>1
    <3> QED
      BY <3>2, <3>3
  <2>3. Nat \subseteq E
    <3> HIDE DEF E
    <3> QED
      BY <2>1, <2>2, Induction
  <2> QED
    BY <2>3
<1> HIDE DEF walk
<1>9. Reach(cs, es) = f[N]
  BY <1>0, <1>7, <1>8
<1> QED
  BY <1>0, <1>4, <1>9 DEF N

\* What Reach(cs, es) promises: of all the sets that hold cs and that no edge leaves, the least.
\* Each step of the walk that changes anything adds a card, and there are no more than there are
\* steps.
LEMMA ReachLeast ==
  ASSUME NEW cs \in SUBSET Ids, NEW es \in SUBSET Edges
  PROVE  /\ cs \subseteq Reach(cs, es) /\ Reach(cs, es) \subseteq Ids
         /\ Closed(Reach(cs, es), es)
         /\ \A S : cs \subseteq S /\ Closed(S, es) => Reach(cs, es) \subseteq S
<1> DEFINE N == Cardinality(Ids)
<1>0. N \in Nat /\ IsFiniteSet(Ids)
  BY ReachIs, CardsConstants, FS_Union DEF CardsConstants, Ids
<1>1. PICK f \in [0..N -> SUBSET Ids] :
        /\ f[0] = cs /\ Reach(cs, es) = f[N]
        /\ \A i \in 1..N : f[i] = Onward(f[i - 1], es)
  BY ReachIs
<1> DEFINE C(X) == Cardinality(X)
           Full(n) == Closed(f[n], es) \/ C(f[n]) >= n + 1
           T == {n \in Nat : n <= N => cs \subseteq f[n] /\ Full(n)}
<1>2. \A X \in SUBSET Ids : IsFiniteSet(X) /\ C(X) \in Nat /\ C(X) <= N
  BY <1>0, FS_Subset, FS_CardinalityType
<1>3. \A X, Y \in SUBSET Ids : X \subseteq Y => X = Y \/ C(X) < C(Y)
  <2> SUFFICES ASSUME NEW X \in SUBSET Ids, NEW Y \in SUBSET Ids, X \subseteq Y, X # Y
               PROVE  C(X) < C(Y)
    OBVIOUS
  <2>1. C(X) <= C(Y) /\ C(X) # C(Y)
    BY <1>2, FS_Subset
  <2> QED
    BY <1>2, <2>1
<1> HIDE DEF N
<1>4. 0 \in T
  <2>1. CASE cs = {}
    BY <1>1, <2>1 DEF Closed
  <2>2. CASE cs # {}
    <3>1. C(cs) \in Nat /\ C(cs) # 0
      BY <1>2, <2>2, FS_EmptySet
    <3>2. C(cs) >= 0 + 1
      BY <3>1
    <3> QED
      BY <1>1, <3>2
  <2> QED
    BY <2>1, <2>2
<1>5. ASSUME NEW n \in Nat, n \in T
      PROVE  n + 1 \in T
  <2> SUFFICES ASSUME n + 1 <= N
               PROVE  cs \subseteq f[n + 1] /\ Full(n + 1)
    OBVIOUS
  <2>1. n + 1 \in 1..N /\ (n + 1) - 1 = n /\ n <= N /\ n \in 0..N /\ n + 1 \in 0..N
    BY <1>0
  <2>2. f[n + 1] = Onward(f[n], es) /\ f[n] \in SUBSET Ids /\ f[n + 1] \in SUBSET Ids
    BY <1>1, <2>1
  <2>3. f[n] \subseteq f[n + 1] /\ cs \subseteq f[n]
    BY <1>5, <2>1, <2>2 DEF Onward
  <2>4. CASE Closed(f[n], es)
    <3>1. f[n + 1] = f[n]
      BY <2>2, <2>4 DEF Onward, Closed
    <3> QED
      BY <2>3, <2>4, <3>1
  <2>5. CASE C(f[n]) >= n + 1 /\ ~Closed(f[n], es)
    <3>1. f[n + 1] # f[n]
      BY <2>2, <2>5 DEF Onward, Closed
    <3>2. C(f[n]) < C(f[n + 1]) /\ C(f[n]) \in Nat /\ C(f[n + 1]) \in Nat
      BY <1>2, <1>3, <2>2, <2>3, <3>1
    <3> HIDE DEF C
    <3>3. C(f[n + 1]) >= (n + 1) + 1
      BY <2>5, <3>2
    <3> QED
      BY <2>3, <3>3
  <2> QED
    BY <1>5, <2>1, <2>4, <2>5
<1>6. N \in T
  <2> HIDE DEF T
  <2> QED
    BY <1>0, <1>4, <1>5, Induction
<1>7. f[N] \in SUBSET Ids /\ C(f[N]) \in Nat /\ C(f[N]) <= N
  BY <1>0, <1>1, <1>2
<1>8. Closed(f[N], es)
  <2> HIDE DEF C
  <2> QED
    BY <1>0, <1>6, <1>7
<1>9. ASSUME NEW S, cs \subseteq S, Closed(S, es)
      PROVE  f[N] \subseteq S
  <2> DEFINE U == {n \in Nat : n <= N => f[n] \subseteq S}
  <2>1. 0 \in U
    BY <1>1, <1>9
  <2>2. ASSUME NEW n \in Nat, n \in U
        PROVE  n + 1 \in U
    <3> SUFFICES ASSUME n + 1 <= N
                 PROVE  f[n + 1] \subseteq S
      OBVIOUS
    <3>1. n + 1 \in 1..N /\ (n + 1) - 1 = n /\ n <= N
      BY <1>0
    <3>2. f[n + 1] = Onward(f[n], es) /\ f[n] \subseteq S
      BY <1>1, <2>2, <3>1
    <3> QED
      BY <1>9, <3>2 DEF Onward, Closed
  <2>3. N \in U
    <3> HIDE DEF U
    <3> QED
      BY <1>0, <2>1, <2>2, Induction
  <2> QED
    BY <2>3, <1>0
<1> QED
  BY <1>1, <1>6, <1>7, <1>8, <1>9, <1>0

\* More edges, from more cards, reach all that fewer reach from fewer
LEMMA ReachSubset ==
  ASSUME NEW cs \in SUBSET Ids, NEW ds \in SUBSET Ids,
         NEW es \in SUBSET Edges, NEW fs \in SUBSET Edges, cs \subseteq ds, es \subseteq fs
  PROVE  Reach(cs, es) \subseteq Reach(ds, fs)
<1>1. cs \subseteq Reach(ds, fs) /\ Closed(Reach(ds, fs), fs)
  BY ReachLeast
<1>2. Closed(Reach(ds, fs), es)
  BY <1>1 DEF Closed
<1> QED
  BY <1>1, <1>2, ReachLeast

\* The cards an edge leads to, and what is left of the edges without a card's
LEMMA EdgesAre ==
  ASSUME NEW es \in SUBSET Edges
  PROVE  /\ \A c : Needs(c, es) \in SUBSET Ids
         /\ \A c : From(c, es) \subseteq es /\ es \ From(c, es) \subseteq es
         /\ \A c, d : d \in Needs(c, es) <=> <<c, d>> \in es
         /\ \A e \in es : e[1] \in Ids /\ e[2] \in Ids /\ e = <<e[1], e[2]>>
BY DEF Edges, Needs, From

\* Fewer edges close no cycle
LEMMA AcyclicSubset ==
  ASSUME NEW es \in SUBSET Edges, NEW fs \in SUBSET Edges, es \subseteq fs, Acyclic(fs)
  PROVE  Acyclic(es)
<1> SUFFICES ASSUME NEW e \in es, e[1] \in Reach(Needs(e[1], es), es)
             PROVE  FALSE
  BY DEF Acyclic, OnCycle
<1>1. Needs(e[1], es) \subseteq Needs(e[1], fs)
  BY DEF Needs, From
<1>2. Needs(e[1], es) \in SUBSET Ids /\ Needs(e[1], fs) \in SUBSET Ids
  BY EdgesAre
<1>3. e[1] \in Reach(Needs(e[1], fs), fs)
  BY <1>1, <1>2, ReachSubset
<1> QED
  BY <1>3 DEF Acyclic, OnCycle

\* _check_no_dependency_cycle: no cycle comes about where a card's edges are replaced by ones to
\* cards from which the other edges do not lead back to it
LEMMA CheckedEdges ==
  ASSUME NEW es \in SUBSET Edges, NEW c \in Ids, NEW ds \in SUBSET Ids,
         Acyclic(es), c \notin Reach(ds, es \ From(c, es))
  PROVE  Acyclic((es \ From(c, es)) \cup ({c} \X ds))
<1> DEFINE E == es \ From(c, es)
           F == E \cup ({c} \X ds)
           R == Reach(ds, E)
<1>0. E \in SUBSET Edges /\ F \in SUBSET Edges
  BY DEF Edges, From
<1>1. ds \subseteq R /\ R \subseteq Ids /\ Closed(R, E) /\ c \notin R
  BY <1>0, ReachLeast
<1>2. Closed(R, F)
  BY <1>1 DEF Closed
<1> SUFFICES ASSUME NEW e \in F, e[1] \in Reach(Needs(e[1], F), F)
             PROVE  FALSE
  BY DEF Acyclic, OnCycle
<1>3. Closed(R, es)
  BY <1>1 DEF Closed, From
<1>4. Needs(e[1], F) \in SUBSET Ids /\ Needs(e[1], es) \in SUBSET Ids
  BY <1>0, EdgesAre
<1> HIDE DEF R, F
<1>5. CASE e[1] = c
  <2>1. Needs(c, F) \subseteq ds
    BY DEF Needs, From, F
  <2>2. Reach(Needs(c, F), F) \subseteq R
    BY <1>0, <1>1, <1>2, <1>4, <1>5, <2>1, ReachLeast
  <2> QED
    BY <1>1, <1>5, <2>2
<1>6. CASE e[1] # c
  <2> DEFINE x == e[1]
             Q == Reach(Needs(x, es), es)
  <2>1. e \in es /\ x \notin Q
    BY <1>6 DEF Acyclic, OnCycle, F
  <2>2. Needs(x, es) \subseteq Q /\ Q \subseteq Ids /\ Closed(Q, es)
    BY <1>4, ReachLeast
  <2>3. Needs(x, F) \subseteq Needs(x, es)
    BY <1>6 DEF Needs, From, F
  <2> HIDE DEF Q
  <2>4. x \in R
    <3>1. Closed(Q \cup R, F)
      BY <1>2, <2>2, <1>1 DEF Closed, From, F
    <3>2. Needs(x, F) \subseteq Q \cup R
      BY <2>2, <2>3
    <3>3. Reach(Needs(x, F), F) \subseteq Q \cup R
      BY <1>0, <1>4, <3>1, <3>2, ReachLeast
    <3> QED
      BY <2>1, <3>3
  <2>5. Closed(Q \cap R, F)
    BY <1>1, <1>2, <2>2 DEF Closed, From, F
  <2>6. Needs(x, F) \subseteq Q \cap R
    BY <1>2, <2>2, <2>3, <2>4 DEF Needs, From, Closed
  <2>7. \A S : Needs(x, F) \subseteq S /\ Closed(S, F) => Reach(Needs(x, F), F) \subseteq S
    BY <1>0, <1>4, ReachLeast
  <2>8. Reach(Needs(x, F), F) \subseteq Q \cap R
    BY <2>5, <2>6, <2>7
  <2> QED
    BY <2>1, <2>8
<1> QED
  BY <1>5, <1>6

-----------------------------------------------------------------------------
(* the rows *)

\* The steps of a fold that works on a proposal, and the states of the model turns
Working == {"folding", "deleting", "linking"}
FoldState == [at : {"idle", "thinking"} \cup Working, read : SUBSET Ids, used : SUBSET Ids,
              group : SUBSET Ids, left : SUBSET Ids, edges : SUBSET Edges, groups : Nat,
              since : SUBSET Ids]
TurnState == [at : {"idle", "creating", "linking"}, mine : SUBSET Ids, edges : SUBSET Edges]

\* The rows are well formed: an edge has both its cards, a ledger task and a backup one card, and
\* what is on the board has no backup
RowInv ==
  /\ status \in [Ids -> Statuses \cup {"none"}]
  /\ deps \subseteq OnBoard \X OnBoard
  /\ task \in [Ids -> Originals \cup {NoCard}]
  /\ \A c, d \in OnBoard : task[c] = task[d] /\ task[c] # NoCard => c = d
  /\ backups \subseteq Backup
  /\ \A a, b \in backups : a.card = b.card => a = b
  /\ \A b \in backups : b.card \notin OnBoard

\* A transaction left open holds the write lock, so nothing it names goes meanwhile
HeldOpen ==
  /\ open.card # NoCard => /\ open.held /\ open.card \in OnBoard
                           /\ open.deps \subseteq {open.card} \X OnBoard
  /\ patch # NoPatch => patch.card \in Ids
  /\ patch # NoPatch /\ open.held => patch.card \in OnBoard /\ patch.deps \subseteq OnBoard

\* The inductive invariant of the rows
CoreInv ==
  /\ RowInv /\ HeldOpen
  /\ open \in [held : BOOLEAN, card : Ids \cup {NoCard}, deps : SUBSET Edges]
  /\ patch \in [card : Ids \cup {NoCard}, deps : SUBSET Ids]
  /\ fold \in FoldState /\ turn \in TurnState
  /\ live \in [Ids -> {"no", "starting", "running"}]
  /\ wanted \subseteq Edges /\ unchecked \subseteq Edges
  /\ standsIn \in [Ids -> Ids] /\ mishap \in BOOLEAN /\ happened \in 0..MaxHappened

\* It has the types
LEMMA TypesOf == CoreInv => TypeOK
BY DEF CoreInv, RowInv, TypeOK, Backup, FoldState, TurnState, Working

\* What the HTTP connection reads, has rows
LEMMA MineIs ==
  ASSUME CoreInv
  PROVE  /\ Mine \subseteq OnBoard \X OnBoard /\ Mine \in SUBSET Edges /\ deps \in SUBSET Edges
         /\ OnBoard \subseteq Ids /\ (open.card = NoCard => Mine = deps)
<1>1. OnBoard \subseteq Ids
  BY DEF OnBoard
<1>2. Mine \subseteq OnBoard \X OnBoard
  BY DEF CoreInv, RowInv, HeldOpen, Mine
<1> QED
  BY <1>1, <1>2 DEF CoreInv, RowInv, Edges, Mine

\* _new_id: a card that never was
LEMMA NewIdIs ==
  ASSUME Unused # {}
  PROVE  NewId \in Fresh /\ status[NewId] = "none" /\ \A b \in backups : b.card # NewId
BY DEF NewId, Unused

\* delete_card backs up what it takes
LEMMA RowDeleted ==
  ASSUME RowInv, NEW es \in SUBSET (OnBoard \X OnBoard), NEW c \in OnBoard, DeleteRow(c, es)
  PROVE  /\ RowInv' /\ OnBoard' = OnBoard \ {c} /\ task' = task
         /\ deps' = es \ Touching(c, es)
         /\ backups \subseteq backups' /\ \E b \in backups' : b.card = c /\ b.status = status[c]
         /\ \A b \in backups' \ backups : b.card = c
         /\ \A d \in Ids \ {c} : status'[d] = status[d]
<1> DEFINE a == [card |-> c, status |-> status[c], deps |-> Touching(c, es)]
<1>1. /\ backups' = backups \cup {a} /\ status' = [status EXCEPT ![c] = "none"]
      /\ deps' = es \ Touching(c, es) /\ task' = task
  BY DEF DeleteRow
<1>2. c \in Ids /\ status[c] \in Statuses /\ OnBoard \subseteq Ids
  BY DEF OnBoard, RowInv
<1>3. OnBoard' = OnBoard \ {c} /\ \A d \in Ids \ {c} : status'[d] = status[d]
  BY <1>1, <1>2 DEF OnBoard, RowInv
<1>4. deps' \subseteq OnBoard' \X OnBoard'
  BY <1>1, <1>3 DEF Touching
<1>5. Touching(c, es) \in SUBSET Edges
  BY <1>2 DEF Touching, Edges
<1>6. a \in Backup /\ a.card = c /\ a.status = status[c]
  BY <1>2, <1>5 DEF Backup
<1> HIDE DEF a
<1>7. \A b \in backups' : b = a \/ (b \in backups /\ b.card # c)
  BY <1>1 DEF RowInv
<1>8. \A x, y \in backups' : x.card = y.card => x = y
  BY <1>6, <1>7 DEF RowInv
<1>9. \A b \in backups' : b.card \notin OnBoard'
  BY <1>3, <1>6, <1>7 DEF RowInv
<1>10. /\ status' \in [Ids -> Statuses \cup {"none"}] /\ task' \in [Ids -> Originals \cup {NoCard}]
       /\ \A d, e \in OnBoard' : task'[d] = task'[e] /\ task'[d] # NoCard => d = e
       /\ backups' \subseteq Backup
  BY <1>1, <1>3, <1>6 DEF RowInv
<1> QED
  BY <1>1, <1>3, <1>4, <1>6, <1>7, <1>8, <1>9, <1>10 DEF RowInv

\* create_card
LEMMA RowCreated ==
  ASSUME RowInv, NEW c \in Fresh, status[c] = "none", \A b \in backups : b.card # c,
         NEW t \in Originals \cup {NoCard}, MayCarry(t), CreateRow(c, t)
  PROVE  /\ RowInv' /\ OnBoard' = OnBoard \cup {c} /\ deps' = deps /\ backups' = backups
         /\ task' = [task EXCEPT ![c] = t]
         /\ \A d \in Ids \ {c} : status'[d] = status[d]
<1>1. /\ status' = [status EXCEPT ![c] = "todo"] /\ task' = [task EXCEPT ![c] = t]
      /\ deps' = deps /\ backups' = backups
  BY DEF CreateRow
<1>2. c \in Ids
  BY DEF Ids
<1>3. OnBoard' = OnBoard \cup {c} /\ \A d \in Ids \ {c} : status'[d] = status[d]
  BY <1>1, <1>2 DEF OnBoard, RowInv
<1>4. /\ status' \in [Ids -> Statuses \cup {"none"}] /\ task' \in [Ids -> Originals \cup {NoCard}]
  BY <1>1 DEF RowInv, Statuses
<1>5. \A d, e \in OnBoard' : task'[d] = task'[e] /\ task'[d] # NoCard => d = e
  <2>1. \A d \in OnBoard : d \in Ids /\ d # c /\ task'[d] = task[d] /\ (t # NoCard => task[d] # t)
    BY <1>1 DEF OnBoard, MayCarry, RowInv
  <2>2. task'[c] = t
    BY <1>1, <1>2 DEF RowInv
  <2> QED
    BY <1>3, <2>1, <2>2 DEF RowInv
<1>6. \A b \in backups' : b.card \notin OnBoard'
  BY <1>1, <1>3 DEF RowInv
<1> QED
  BY <1>1, <1>3, <1>4, <1>5, <1>6 DEF RowInv

\* restore_card
LEMMA RowRestored ==
  ASSUME RowInv, NEW b \in backups, ~Taken(b), NEW es,
         status' = [status EXCEPT ![b.card] = b.status], backups' = backups \ {b}, task' = task,
         deps' = es, es \subseteq (OnBoard \cup {b.card}) \X (OnBoard \cup {b.card})
  PROVE  /\ RowInv' /\ OnBoard' = OnBoard \cup {b.card}
         /\ \A d \in Ids \ {b.card} : status'[d] = status[d]
         /\ status'[b.card] = b.status
<1>1. b.card \in Ids /\ b.status \in Statuses /\ b.card \notin OnBoard /\ MayCarry(task[b.card])
  BY DEF RowInv, Backup, Taken
<1>2. /\ OnBoard' = OnBoard \cup {b.card} /\ \A d \in Ids \ {b.card} : status'[d] = status[d]
      /\ status'[b.card] = b.status
  BY <1>1 DEF OnBoard, RowInv, Statuses
<1>3. status' \in [Ids -> Statuses \cup {"none"}]
  BY <1>1 DEF RowInv
<1>4. \A d, e \in OnBoard' : task'[d] = task'[e] /\ task'[d] # NoCard => d = e
  BY <1>1, <1>2 DEF RowInv, MayCarry
<1>5. \A x \in backups' : x.card \notin OnBoard'
  BY <1>1, <1>2 DEF RowInv
<1> QED
  BY <1>2, <1>3, <1>4, <1>5 DEF RowInv

\* A status that changes, and edges between cards on the board
LEMMA RowsGo ==
  ASSUME RowInv, status' \in [Ids -> Statuses \cup {"none"}],
         \A c \in Ids : status'[c] = "none" <=> status[c] = "none",
         task' = task, backups' = backups, deps' \subseteq OnBoard \X OnBoard
  PROVE  RowInv' /\ OnBoard' = OnBoard
<1>1. OnBoard' = OnBoard
  BY DEF OnBoard
<1> QED
  BY <1>1 DEF RowInv

\* The states that threads begin and end with
LEMMA NewStates ==
  /\ NoTxn \in [held : BOOLEAN, card : Ids \cup {NoCard}, deps : SUBSET Edges]
  /\ NoTxn.card = NoCard /\ ~NoTxn.held /\ NoTxn.deps = {}
  /\ NoPatch \in [card : Ids \cup {NoCard}, deps : SUBSET Ids]
  /\ NoFold \in FoldState /\ NoTurn \in TurnState
  /\ \A n \in Nat : [NoFold EXCEPT !.groups = n] \in FoldState
  /\ NoCard \notin Ids
BY DEF NoTxn, NoPatch, NoFold, NoTurn, FoldState, TurnState, Working, Ids

\* What a request asks for is counted
LEMMA HappenedTypes ==
  ASSUME CoreInv, NEW what, Happened(what)
  PROVE  happened' \in 0..MaxHappened /\ what \in Happens
BY DEF CoreInv, Happened

\* What happened stays within its bound
LEMMA MeetsTypes ==
  ASSUME CoreInv, Meets
  PROVE  mishap' \in BOOLEAN
BY DEF CoreInv, Meets

\* The operator's requests keep the invariant
LEMMA OperatorCore ==
  ASSUME CoreInv, Operator
  PROVE  CoreInv'
<1>0. /\ Mine \subseteq OnBoard \X OnBoard /\ OnBoard \subseteq Ids /\ Mine \in SUBSET Edges
      /\ RowInv /\ HeldOpen
  BY MineIs DEF CoreInv
<1>1. ASSUME NEW c \in Ids, PatchChecked(c)
      PROVE  CoreInv'
  <2>1. PICK ds \in SUBSET (OnBoard \ {c}) : patch' = [card |-> c, deps |-> ds]
    BY <1>1 DEF PatchChecked
  <2>2. c \in OnBoard /\ happened' \in 0..MaxHappened
    BY <1>1, HappenedTypes DEF PatchChecked, Asks
  <2>3. UNCHANGED <<rows, open, fold, turn, live, past>>
    BY <1>1 DEF PatchChecked
  <2>4. RowInv' /\ OnBoard' = OnBoard
    BY <1>0, <2>3 DEF RowInv, OnBoard
  <2>5. HeldOpen'
    BY <1>0, <2>1, <2>2, <2>3, <2>4 DEF HeldOpen
  <2> QED
    BY <1>0, <2>1, <2>2, <2>3, <2>4, <2>5 DEF CoreInv
<1>2. CASE PatchWritten
  <2> DEFINE c == patch.card
             given == {c} \X patch.deps
             kept == {e \in given : e[2] \in OnBoard}
  <2>1. /\ patch # NoPatch /\ patch' = NoPatch /\ c \in Ids /\ patch.deps \in SUBSET Ids
        /\ UNCHANGED <<status, task, backups, fold, turn, live, standsIn, happened>>
    BY <1>0, <1>2 DEF PatchWritten, HeldOpen, CoreInv
  <2>2. CASE c \in OnBoard /\ kept = given
    <3>1. /\ deps' = (Mine \ From(c, Mine)) \cup given /\ open' = NoTxn
          /\ wanted' = (wanted \ From(c, wanted)) \cup given
          /\ unchecked' = unchecked \ From(c, Mine) /\ Meets
      BY <1>2, <2>2 DEF PatchWritten
    <3>2. given \subseteq OnBoard \X OnBoard
      BY <2>2
    <3>3. deps' \subseteq OnBoard \X OnBoard
      BY <1>0, <3>1, <3>2
    <3>4. RowInv' /\ OnBoard' = OnBoard
      BY <1>0, <2>1, <3>3, RowsGo DEF RowInv
    <3>5. HeldOpen'
      BY <2>1, <3>1, NewStates DEF HeldOpen
    <3>6. wanted' \subseteq Edges /\ unchecked' \subseteq Edges /\ mishap' \in BOOLEAN
      BY <1>0, <3>1, <3>2, MeetsTypes DEF CoreInv, Edges
    <3> QED
      BY <2>1, <3>1, <3>4, <3>5, <3>6, NewStates DEF CoreInv
  <2>3. CASE ~(c \in OnBoard /\ kept = given)
    <3>1. PICK written \in SUBSET kept :
            /\ open' = [held |-> TRUE, card |-> IF c \in OnBoard THEN c ELSE NoCard,
                        deps |-> IF c \in OnBoard THEN written ELSE {}]
            /\ mishap' = TRUE /\ UNCHANGED <<deps, wanted, unchecked>>
      BY <1>2, <2>3 DEF PatchWritten
    <3>2. RowInv' /\ OnBoard' = OnBoard
      BY <1>0, <2>1, <3>1 DEF RowInv, OnBoard
    <3>3. written \subseteq {c} \X OnBoard /\ written \subseteq Edges
      BY <1>0, <2>1 DEF Edges
    <3>4. HeldOpen'
      BY <2>1, <3>1, <3>2, <3>3 DEF HeldOpen
    <3>5. open' \in [held : BOOLEAN, card : Ids \cup {NoCard}, deps : SUBSET Edges]
      BY <2>1, <3>1, <3>3
    <3> QED
      BY <2>1, <3>1, <3>2, <3>4, <3>5, NewStates DEF CoreInv
  <2> QED
    BY <2>2, <2>3
<1>3. ASSUME NEW c \in Ids, Delete(c)
      PROVE  CoreInv'
  <2>1. /\ c \in OnBoard /\ DeleteRow(c, Mine) /\ open' = NoTxn /\ patch = NoPatch
        /\ wanted' = wanted \ Touching(c, wanted) /\ Meets
        /\ UNCHANGED <<patch, fold, turn, live, standsIn, unchecked>>
    BY <1>3 DEF Delete, Asks
  <2>2. happened' \in 0..MaxHappened /\ mishap' \in BOOLEAN
    BY <1>3, <2>1, HappenedTypes, MeetsTypes DEF Delete, Asks
  <2>3. RowInv'
    BY <1>0, <2>1, RowDeleted
  <2>4. HeldOpen'
    BY <2>1, NewStates DEF HeldOpen
  <2> QED
    BY <2>1, <2>2, <2>3, <2>4, NewStates DEF CoreInv
<1>4. ASSUME NEW b \in backups, Restore(b)
      PROVE  CoreInv'
  <2>1. patch = NoPatch /\ happened' \in 0..MaxHappened /\ UNCHANGED <<patch, fold, turn, live>>
    BY <1>4, HappenedTypes DEF Restore, Asks
  <2>2. CASE Taken(b)
    <3>1. open' = [open EXCEPT !.held = TRUE] /\ UNCHANGED <<rows, past>>
      BY <1>4, <2>2 DEF Restore
    <3>2. RowInv' /\ OnBoard' = OnBoard
      BY <1>0, <3>1 DEF RowInv, OnBoard
    <3>3. HeldOpen'
      BY <1>0, <2>1, <3>1, <3>2 DEF HeldOpen, CoreInv
    <3> QED
      BY <2>1, <3>1, <3>2, <3>3 DEF CoreInv
  <2>3. CASE ~Taken(b)
    <3> DEFINE whole == OnBoard \cup {b.card}
               back == {e \in b.deps : {e[1], e[2]} \subseteq whole}
    <3>1. /\ status' = [status EXCEPT ![b.card] = b.status] /\ deps' = Mine \cup back
          /\ backups' = backups \ {b} /\ open' = NoTxn
          /\ unchecked' = unchecked \cup (back \ Mine) /\ wanted' = wanted \cup back
          /\ Meets /\ UNCHANGED <<task, standsIn>>
      BY <1>4, <2>3 DEF Restore
    <3>2. b.deps \subseteq Edges
      BY <1>0 DEF RowInv, Backup
    <3>3. back \subseteq whole \X whole /\ back \subseteq Edges
      BY <3>2 DEF Edges
    <3>4. deps' \subseteq whole \X whole
      BY <1>0, <3>1, <3>3
    <3> HIDE DEF back
    <3>5. RowInv'
      BY <1>0, <2>3, <3>1, <3>4, RowRestored
    <3>6. HeldOpen'
      BY <2>1, <3>1, NewStates DEF HeldOpen
    <3>7. wanted' \subseteq Edges /\ unchecked' \subseteq Edges /\ mishap' \in BOOLEAN
      BY <3>1, <3>3, MeetsTypes DEF CoreInv
    <3> QED
      BY <2>1, <3>1, <3>5, <3>6, <3>7, NewStates DEF CoreInv
  <2> QED
    BY <2>2, <2>3
<1>5. ASSUME NEW c \in Ids, Accept(c)
      PROVE  CoreInv'
  <2>1. /\ patch = NoPatch /\ status[c] = "blocked"
        /\ status' = [status EXCEPT ![c] = "accepted"] /\ deps' = Mine /\ open' = NoTxn
        /\ UNCHANGED <<task, backups, patch, fold, turn, live, past, happened>>
    BY <1>5 DEF Accept
  <2>2. /\ status' \in [Ids -> Statuses \cup {"none"}]
        /\ \A d \in Ids : status'[d] = "none" <=> status[d] = "none"
    BY <1>0, <2>1 DEF RowInv, Statuses
  <2>3. RowInv'
    BY <1>0, <2>1, <2>2, RowsGo
  <2>4. HeldOpen'
    BY <2>1, NewStates DEF HeldOpen
  <2> QED
    BY <2>1, <2>3, <2>4, NewStates DEF CoreInv
<1> QED
  BY <1>1, <1>2, <1>3, <1>4, <1>5 DEF Operator

\* A step of a fold keeps the invariant
LEMMA FoldCore ==
  ASSUME CoreInv, Fold
  PROVE  CoreInv'
<1>0. /\ Mine \subseteq OnBoard \X OnBoard /\ OnBoard \subseteq Ids /\ Mine \in SUBSET Edges
      /\ RowInv /\ HeldOpen /\ fold \in FoldState /\ deps \in SUBSET Edges
  BY MineIs DEF CoreInv
<1>1. ASSUME UNCHANGED <<rows, open, patch, turn, live, happened, wanted, standsIn, unchecked>>,
             fold' \in FoldState, mishap' \in BOOLEAN
      PROVE  CoreInv'
  <2>1. RowInv' /\ HeldOpen'
    BY <1>0, <1>1 DEF RowInv, HeldOpen, OnBoard
  <2> QED
    BY <1>1, <2>1 DEF CoreInv
<1>2. ASSUME RowInv', fold' \in FoldState, MayWrite,
             UNCHANGED <<open, patch, turn, live, happened>>, wanted' \subseteq Edges,
             unchecked' \subseteq Edges, standsIn' \in [Ids -> Ids], mishap' \in BOOLEAN
      PROVE  CoreInv'
  <2>1. HeldOpen'
    BY <1>0, <1>2 DEF HeldOpen, MayWrite
  <2> QED
    BY <1>2, <2>1 DEF CoreInv
<1>3. CASE FoldStarts
  <2>1. fold' \in FoldState
    BY <1>0, <1>3 DEF FoldStarts, FoldState
  <2> QED
    BY <1>1, <1>3, <2>1 DEF FoldStarts, CoreInv
<1>4. CASE FoldReads
  <2>1. fold' \in FoldState
    <3>1. Todo \subseteq Ids
      BY <1>0 DEF Todo
    <3>2. CASE fold' = [fold EXCEPT !.at = "folding", !.read = Todo]
      BY <1>0, <3>1, <3>2 DEF FoldState, Working
    <3>3. CASE fold' = [NoFold EXCEPT !.groups = MaxGroups]
      BY <3>3, NewStates
    <3> QED
      BY <1>4, <3>2, <3>3 DEF FoldReads
  <2> QED
    BY <1>1, <1>4, <2>1 DEF FoldReads, CoreInv
<1>5. CASE FoldCreates
  <2>1. PICK c \in fold.group : MayCarry(task[c]) /\ CreateRow(NewId, task[c])
    BY <1>5 DEF FoldCreates
  <2>2. /\ fold.at = "deleting" /\ Unused # {} /\ FoldWrites
        /\ fold' = [fold EXCEPT !.at = "linking", !.edges = Moved(NewId)]
        /\ wanted' = {<<InPlace(e[1], NewId), InPlace(e[2], NewId)>> : e \in wanted}
                     \ {<<NewId, NewId>>}
        /\ standsIn' = [d \in Ids |-> InPlace(standsIn[d], NewId)]
        /\ UNCHANGED <<unchecked, mishap>>
    BY <1>5 DEF FoldCreates
  <2>3. NewId \in Fresh /\ NewId \in Ids /\ status[NewId] = "none"
        /\ \A b \in backups : b.card # NewId
    BY <2>2, NewIdIs DEF Ids
  <2>4. c \in Ids /\ task[c] \in Originals \cup {NoCard} /\ fold.edges \in SUBSET Edges
        /\ fold.group \subseteq Ids
    BY <1>0, <2>1 DEF FoldState, RowInv
  <2>5. RowInv'
    BY <1>0, <2>1, <2>3, <2>4, RowCreated
  <2>6. Moved(NewId) \in SUBSET Edges
    BY <2>3, <2>4 DEF Moved, Edges
  <2>7. fold' \in FoldState
    BY <1>0, <2>2, <2>6 DEF FoldState, Working
  <2>8. wanted' \subseteq Edges /\ standsIn' \in [Ids -> Ids]
    BY <2>2, <2>3 DEF CoreInv, InPlace, Edges
  <2> QED
    BY <1>2, <2>2, <2>5, <2>7, <2>8 DEF FoldWrites, CoreInv
<1>6. CASE FoldNext
  <2>1. fold' = [fold EXCEPT !.at = "folding", !.used = fold.used \cup fold.group, !.group = {},
                             !.groups = fold.groups + 1]
    BY <1>6 DEF FoldNext
  <2>2. fold.used \cup fold.group \in SUBSET Ids /\ fold.groups + 1 \in Nat
    BY <1>0 DEF FoldState
  <2>3. fold' \in FoldState
    BY <1>0, <2>1, <2>2 DEF FoldState, Working
  <2> QED
    BY <1>1, <1>6, <2>3 DEF FoldNext, CoreInv
<1>7. CASE FoldEnds
  BY <1>1, <1>7, NewStates DEF FoldEnds, CoreInv
<1>8. CASE FoldDies
  BY <1>1, <1>8, NewStates DEF FoldDies, CoreInv
<1>9. ASSUME NEW group \in SUBSET Foldable, FoldTakes(group)
      PROVE  CoreInv'
  <2>1. group \subseteq Ids /\ UNION {Touching(c, deps) : c \in group} \subseteq Edges
    BY <1>0, <1>9 DEF FoldTakes, Touching
  <2>2. fold' \in FoldState
    BY <1>0, <1>9, <2>1 DEF FoldTakes, FoldState, Working
  <2> QED
    BY <1>1, <1>9, <2>2 DEF FoldTakes, CoreInv
<1>10. ASSUME NEW c \in fold.left, FoldDeletes(c)
       PROVE  CoreInv'
  <2>1. /\ c \in OnBoard /\ FoldWrites /\ DeleteRow(c, deps)
        /\ fold' = [fold EXCEPT !.left = @ \ {c}]
        /\ mishap' = (mishap \/ Touching(c, turn.edges) # {})
        /\ UNCHANGED <<wanted, standsIn, unchecked>>
    BY <1>10 DEF FoldDeletes
  <2>2. RowInv'
    BY <1>0, <2>1, RowDeleted DEF RowInv
  <2>3. fold' \in FoldState /\ mishap' \in BOOLEAN
    BY <1>0, <2>1 DEF FoldState, CoreInv
  <2> QED
    BY <1>2, <2>1, <2>2, <2>3 DEF FoldWrites, CoreInv
<1>11. ASSUME NEW e \in fold.edges, FoldLinks(e)
       PROVE  CoreInv'
  <2>1. /\ MayAdd(e) /\ FoldWrites /\ AddEdge(e) /\ fold' = [fold EXCEPT !.edges = @ \ {e}]
        /\ UNCHANGED <<wanted, standsIn, mishap>> /\ e \in Edges
    BY <1>0, <1>11 DEF FoldLinks, FoldState
  <2>2. e \in OnBoard \X OnBoard
    BY <2>1 DEF MayAdd, Edges
  <2>3. RowInv' /\ unchecked' \subseteq Edges
    BY <1>0, <2>1, <2>2, RowsGo DEF AddEdge, RowInv, CoreInv
  <2>4. fold' \in FoldState
    BY <1>0, <2>1 DEF FoldState
  <2> QED
    BY <1>2, <2>1, <2>3, <2>4 DEF FoldWrites, CoreInv
<1> QED
  BY <1>3, <1>4, <1>5, <1>6, <1>7, <1>8, <1>9, <1>10, <1>11 DEF Fold

\* A step of a turn keeps the invariant
LEMMA TurnCore ==
  ASSUME CoreInv, Turn
  PROVE  CoreInv'
<1>0. /\ OnBoard \subseteq Ids /\ deps \in SUBSET Edges
      /\ RowInv /\ HeldOpen /\ turn \in TurnState
  BY MineIs DEF CoreInv
<1>1. ASSUME UNCHANGED <<rows, open, patch, fold, live, standsIn, unchecked>>,
             turn' \in TurnState, mishap' \in BOOLEAN, wanted' \subseteq Edges,
             happened' \in 0..MaxHappened
      PROVE  CoreInv'
  <2>1. RowInv' /\ HeldOpen'
    BY <1>0, <1>1 DEF RowInv, HeldOpen, OnBoard
  <2> QED
    BY <1>1, <2>1 DEF CoreInv
<1>2. ASSUME RowInv', turn' \in TurnState, MayWrite,
             UNCHANGED <<open, patch, fold, live, happened, wanted, standsIn>>,
             unchecked' \subseteq Edges, mishap' \in BOOLEAN
      PROVE  CoreInv'
  <2>1. HeldOpen'
    BY <1>0, <1>2 DEF HeldOpen, MayWrite
  <2> QED
    BY <1>2, <2>1 DEF CoreInv
<1>3. CASE TurnStarts
  <2>1. turn' \in TurnState /\ happened' \in 0..MaxHappened
    BY <1>0, <1>3, HappenedTypes DEF TurnStarts, TurnState
  <2> QED
    BY <1>1, <1>3, <2>1 DEF TurnStarts, CoreInv
<1>4. CASE TurnCreates
  <2>1. /\ Unused # {} /\ TurnWrites /\ CreateRow(NewId, NoCard) /\ UNCHANGED past
        /\ turn' = [turn EXCEPT !.mine = @ \cup {NewId}]
    BY <1>4 DEF TurnCreates
  <2>2. NewId \in Fresh /\ NewId \in Ids /\ status[NewId] = "none"
        /\ \A b \in backups : b.card # NewId
    BY <2>1, NewIdIs DEF Ids
  <2>3. RowInv'
    BY <1>0, <2>1, <2>2, RowCreated DEF MayCarry
  <2>4. turn' \in TurnState
    BY <1>0, <2>1, <2>2 DEF TurnState
  <2> QED
    BY <1>2, <2>1, <2>3, <2>4 DEF TurnWrites, CoreInv
<1>5. CASE TurnLooks
  <2>1. PICK es \in SUBSET {e \in turn.mine \X (OnBoard \cup turn.mine) : e[1] # e[2]} :
          /\ turn' = [turn EXCEPT !.at = "linking", !.edges = es]
          /\ wanted' = wanted \cup {e \in es : MayAdd(e)}
    BY <1>5 DEF TurnLooks
  <2>2. es \in SUBSET Edges
    BY <1>0 DEF Edges, TurnState
  <2>3. turn' \in TurnState /\ wanted' \subseteq Edges
    BY <1>0, <2>1, <2>2 DEF TurnState, CoreInv
  <2> QED
    BY <1>1, <1>5, <2>3 DEF TurnLooks, CoreInv
<1>6. CASE TurnEnds
  BY <1>1, <1>6, NewStates DEF TurnEnds, CoreInv
<1>7. CASE TurnDies
  BY <1>1, <1>7, NewStates DEF TurnDies, CoreInv
<1>8. ASSUME NEW e \in turn.edges, TurnLinks(e)
      PROVE  CoreInv'
  <2>1. /\ MayAdd(e) /\ TurnWrites /\ AddEdge(e) /\ turn' = [turn EXCEPT !.edges = @ \ {e}]
        /\ mishap' = (mishap \/ {e[1], e[2]} \cap fold.left # {})
        /\ UNCHANGED <<wanted, standsIn>> /\ e \in Edges
    BY <1>0, <1>8 DEF TurnLinks, TurnState
  <2>2. e \in OnBoard \X OnBoard
    BY <2>1 DEF MayAdd, Edges
  <2>3. RowInv' /\ unchecked' \subseteq Edges
    BY <1>0, <2>1, <2>2, RowsGo DEF AddEdge, RowInv, CoreInv
  <2>4. turn' \in TurnState /\ mishap' \in BOOLEAN
    BY <1>0, <2>1 DEF TurnState, CoreInv
  <2> QED
    BY <1>2, <2>1, <2>3, <2>4 DEF TurnWrites, CoreInv
<1> QED
  BY <1>3, <1>4, <1>5, <1>6, <1>7, <1>8 DEF Turn

\* Ticks, runs and a crash leave it to the status of cards on the board
LEMMA RunsCore ==
  ASSUME CoreInv, Runs \/ Crash
  PROVE  CoreInv'
<1>0. /\ OnBoard \subseteq Ids /\ deps \in SUBSET Edges
      /\ RowInv /\ HeldOpen /\ fold \in FoldState
  BY MineIs DEF CoreInv
<1>1. ASSUME NEW c \in Ids, TickStarts(c)
      PROVE  CoreInv'
  <2>1. happened' \in 0..MaxHappened /\ live' \in [Ids -> {"no", "starting", "running"}]
    BY <1>1, HappenedTypes DEF TickStarts, CoreInv
  <2>2. UNCHANGED <<rows, open, patch, fold, turn, past>>
    BY <1>1 DEF TickStarts
  <2>3. RowInv' /\ HeldOpen'
    BY <1>0, <2>2 DEF RowInv, HeldOpen, OnBoard
  <2> QED
    BY <2>1, <2>2, <2>3 DEF CoreInv
<1>2. ASSUME NEW c \in Ids, RunBegins(c) \/ RunEnds(c)
      PROVE  CoreInv'
  <2>1. UNCHANGED <<deps, task, backups, open, patch, turn, past, happened>>
    BY <1>2 DEF RunBegins, RunEnds
  <2>2. live' \in [Ids -> {"no", "starting", "running"}]
    BY <1>2 DEF RunBegins, RunEnds, CoreInv
  <2>3. fold' \in FoldState
    BY <1>0, <1>2 DEF RunBegins, RunEnds, FoldState
  <2>4. /\ status' \in [Ids -> Statuses \cup {"none"}]
        /\ \A d \in Ids : status'[d] = "none" <=> status[d] = "none"
    BY <1>0, <1>2 DEF RunBegins, RunEnds, RowInv, Statuses
  <2>5. RowInv' /\ OnBoard' = OnBoard
    BY <1>0, <2>1, <2>4, RowsGo DEF RowInv
  <2>6. HeldOpen'
    BY <1>0, <2>1, <2>5 DEF HeldOpen
  <2> QED
    BY <2>1, <2>2, <2>3, <2>5, <2>6 DEF CoreInv
<1>3. CASE Crash
  <2>1. /\ status' = [c \in Ids |-> IF status[c] = "doing" THEN "blocked" ELSE status[c]]
        /\ open' = NoTxn /\ patch' = NoPatch /\ turn' = NoTurn
        /\ fold' = [NoFold EXCEPT !.groups = IF fold.at = "idle" THEN fold.groups ELSE MaxGroups]
        /\ live' = [c \in Ids |-> "no"]
        /\ mishap' = (mishap \/ fold.at \in {"deleting", "linking"} \/ turn.at # "idle")
        /\ UNCHANGED <<deps, task, backups, wanted, standsIn, unchecked>>
    BY <1>3 DEF Crash
  <2>2. /\ status' \in [Ids -> Statuses \cup {"none"}]
        /\ \A d \in Ids : status'[d] = "none" <=> status[d] = "none"
    BY <1>0, <2>1 DEF RowInv, Statuses
  <2>3. RowInv' /\ OnBoard' = OnBoard
    BY <1>0, <2>1, <2>2, RowsGo DEF RowInv
  <2>4. HeldOpen'
    BY <2>1, NewStates DEF HeldOpen
  <2>5. fold' \in FoldState
    BY <1>0, <2>1, NewStates DEF FoldState
  <2>6. happened' \in 0..MaxHappened /\ mishap' \in BOOLEAN
    BY <1>3, <2>1, HappenedTypes DEF Crash, CoreInv
  <2>7. live' \in [Ids -> {"no", "starting", "running"}]
    BY <2>1
  <2> QED
    BY <2>1, <2>3, <2>4, <2>5, <2>6, <2>7, NewStates DEF CoreInv
<1> QED
  BY <1>1, <1>2, <1>3 DEF Runs

\* The inductive invariant of the rows holds throughout
LEMMA CoreHolds == Spec => []CoreInv
<1>1. Init => CoreInv
  <2> SUFFICES ASSUME Init PROVE CoreInv
    OBVIOUS
  <2>1. /\ status = [c \in Ids |-> IF c \in Originals THEN "todo" ELSE "none"]
        /\ deps \subseteq Originals \X Originals
        /\ task = [c \in Ids |-> IF c \in Originals THEN c ELSE NoCard] /\ backups = {}
    BY DEF Init
  <2>2. OnBoard = Originals
    BY <2>1 DEF OnBoard, Ids
  <2>3. RowInv
    <3>1. /\ status \in [Ids -> Statuses \cup {"none"}]
          /\ task \in [Ids -> Originals \cup {NoCard}]
      BY <2>1 DEF Statuses
    <3>2. \A c \in OnBoard : task[c] = c
      BY <2>1, <2>2 DEF Ids
    <3> QED
      BY <2>1, <2>2, <3>1, <3>2 DEF RowInv
  <2>4. HeldOpen
    BY NewStates DEF Init, HeldOpen
  <2>5. wanted \subseteq Edges /\ unchecked \subseteq Edges
    BY <2>1 DEF Init, Edges, Ids
  <2>6. /\ live = [c \in Ids |-> "no"] /\ standsIn = [c \in Ids |-> c]
        /\ mishap = FALSE /\ happened = 0
    BY DEF Init
  <2>8. live \in [Ids -> {"no", "starting", "running"}] /\ standsIn \in [Ids -> Ids]
    BY <2>6
  <2>9. mishap \in BOOLEAN
    BY <2>6
  <2>10. happened \in 0..MaxHappened
    BY <2>6
  <2>7. open = NoTxn /\ patch = NoPatch /\ fold = NoFold /\ turn = NoTurn
    BY DEF Init
  <2> QED
    BY <2>3, <2>4, <2>5, <2>8, <2>9, <2>10, <2>7, NewStates DEF CoreInv
<1>2. CoreInv /\ [Next]_vars => CoreInv'
  <2>1. CoreInv /\ UNCHANGED vars => CoreInv'
    <3> SUFFICES ASSUME CoreInv, UNCHANGED vars PROVE CoreInv'
      OBVIOUS
    <3>1. RowInv' /\ HeldOpen'
      BY DEF CoreInv, RowInv, HeldOpen, OnBoard, vars
    <3> QED
      BY <3>1 DEF CoreInv, vars
  <2> QED
    BY <2>1, OperatorCore, FoldCore, TurnCore, RunsCore DEF Next
<1> QED
  BY <1>1, <1>2, PTL DEF Spec

\* The rows, the requests and the threads keep their types: an edge has both its cards, a ledger
\* task sits on one card, a card has one backup, whatever fails half way and whoever dies
\* (store/api.py, consolidate.py, orchestrator.py)
THEOREM TypeCorrect == Spec => []TypeOK
BY CoreHolds, TypesOf, PTL

-----------------------------------------------------------------------------
(* cycles *)

\* No cycle among the edges that were checked, of the rows and of what the HTTP connection has
\* uncommitted, and none comes about by a PATCH whose check is done and whose write is not
Checked == Mine \ unchecked
CheckHolds ==
  /\ Acyclic(deps \ unchecked) /\ Acyclic(Checked)
  /\ patch # NoPatch =>
       patch.card \notin Reach(patch.deps, Checked \ From(patch.card, Checked))

\* Where a step checks no more edges than before, that stays
LEMMA FewerChecked ==
  ASSUME CoreInv, CoreInv', CheckHolds,
         deps' \ unchecked' \subseteq deps \ unchecked \/ deps' \ unchecked' \subseteq Checked,
         \/ patch' = patch /\ Checked' \subseteq Checked
         \/ patch' = NoPatch /\ Checked' \subseteq deps \ unchecked
         \/ patch' = NoPatch /\ Checked' \subseteq Checked
  PROVE  CheckHolds'
<1>1. /\ deps \ unchecked \in SUBSET Edges /\ Checked \in SUBSET Edges
      /\ deps' \ unchecked' \in SUBSET Edges /\ Checked' \in SUBSET Edges
  <2>1. OnBoard \subseteq Ids /\ OnBoard' \subseteq Ids
    BY DEF OnBoard
  <2>2. Mine \in SUBSET Edges /\ deps \in SUBSET Edges
    BY MineIs
  <2>3. Mine' \in SUBSET Edges /\ deps' \in SUBSET Edges
    BY <2>1 DEF CoreInv, RowInv, HeldOpen, Mine, Edges
  <2> QED
    BY <2>2, <2>3 DEF Checked
<1>2. \A es, fs \in SUBSET Edges : es \subseteq fs /\ Acyclic(fs) => Acyclic(es)
  BY AcyclicSubset
<1>3. Acyclic(deps' \ unchecked') /\ Acyclic(Checked')
  <2> HIDE DEF Checked
  <2>1. Acyclic(deps' \ unchecked')
    BY <1>1, <1>2 DEF CheckHolds
  <2> QED
    BY <1>1, <1>2, <2>1 DEF CheckHolds
<1>4. ASSUME patch' # NoPatch
      PROVE  patch'.card \notin Reach(patch'.deps, Checked' \ From(patch'.card, Checked'))
  <2>1. patch' = patch /\ Checked' \subseteq Checked /\ patch # NoPatch
    BY <1>4
  <2> DEFINE c == patch.card
             E == Checked \ From(c, Checked)
             F == Checked' \ From(c, Checked')
  <2>2. E \in SUBSET Edges /\ F \in SUBSET Edges /\ F \subseteq E
    BY <1>1, <2>1 DEF From
  <2>3. patch.deps \in SUBSET Ids /\ c \notin Reach(patch.deps, E)
    BY <2>1 DEF CheckHolds, CoreInv
  <2> HIDE DEF E, F
  <2>4. Reach(patch.deps, F) \subseteq Reach(patch.deps, E)
    BY <2>2, <2>3, ReachSubset
  <2>5. c \notin Reach(patch.deps, F)
    BY <2>3, <2>4
  <2> QED
    BY <2>1, <2>5 DEF F
<1> QED
  BY <1>3, <1>4 DEF CheckHolds

\* Nobody else writes while the HTTP connection has edges uncommitted
LEMMA MineWhenFree ==
  ASSUME CoreInv, MayWrite
  PROVE  Mine = deps /\ open.card = NoCard
BY MineIs DEF CoreInv, HeldOpen, MayWrite

\* The operator's requests keep the checks
LEMMA OperatorChecks ==
  ASSUME CoreInv, CoreInv', CheckHolds, Operator
  PROVE  CheckHolds'
<1>0. /\ Mine \in SUBSET Edges /\ deps \in SUBSET Edges /\ OnBoard \subseteq Ids
      /\ Checked \in SUBSET Edges
  BY MineIs DEF Checked
<1>1. ASSUME open' = NoTxn
      PROVE  Mine' = deps'
  BY <1>1, NewStates DEF Mine
<1>2. ASSUME NEW c \in Ids, PatchChecked(c)
      PROVE  CheckHolds'
  <2>1. PICK ds \in SUBSET (OnBoard \ {c}) :
          ~MakesCycle(c, ds) /\ patch' = [card |-> c, deps |-> ds]
    BY <1>2 DEF PatchChecked
  <2>2. deps' = deps /\ unchecked' = unchecked /\ Mine' = Mine
    BY <1>2 DEF PatchChecked, Mine
  <2>3. Checked' = Checked
    BY <2>2 DEF Checked
  <2>4. ds \in SUBSET Ids
    BY <1>0
  <2> DEFINE E == Mine \ From(c, Mine)
             F == Checked \ From(c, Checked)
  <2>5. E \in SUBSET Edges /\ F \in SUBSET Edges /\ F \subseteq E
    BY <1>0 DEF From, Checked
  <2>6. c \notin Reach(ds, E)
    BY <2>1 DEF MakesCycle
  <2> HIDE DEF E, F
  <2>7. c \notin Reach(ds, F)
    BY <2>4, <2>5, <2>6, ReachSubset
  <2>8. c \notin Reach(ds, Checked \ From(c, Checked))
    BY <2>7 DEF F
  <2>9. patch'.card = c /\ patch'.deps = ds
    BY <2>1
  <2>10. patch'.card \notin Reach(patch'.deps, Checked' \ From(patch'.card, Checked'))
    BY <2>3, <2>8, <2>9
  <2> QED
    BY <2>2, <2>3, <2>10 DEF CheckHolds
<1>3. CASE PatchWritten
  <2> DEFINE c == patch.card
             given == {c} \X patch.deps
             kept == {e \in given : e[2] \in OnBoard}
             F == (Checked \ From(c, Checked)) \cup given
  <2>1. patch # NoPatch /\ patch' = NoPatch /\ c \in Ids /\ patch.deps \in SUBSET Ids
    BY <1>3 DEF PatchWritten, HeldOpen, CoreInv
  <2>2. Acyclic(F) /\ F \in SUBSET Edges
    <3>1. Acyclic(F)
      BY <1>0, <2>1, CheckedEdges DEF CheckHolds
    <3> QED
      BY <1>0, <2>1, <3>1 DEF Edges
  <2> HIDE DEF F
  <2>3. \A es \in SUBSET Edges : es \subseteq F => Acyclic(es)
    BY <2>2, AcyclicSubset
  <2>4. CASE c \in OnBoard /\ kept = given
    <3>1. /\ deps' = (Mine \ From(c, Mine)) \cup given /\ open' = NoTxn
          /\ unchecked' = unchecked \ From(c, Mine)
      BY <1>3, <2>4 DEF PatchWritten
    <3>2. deps' \ unchecked' \subseteq F
      BY <3>1 DEF F, Checked, From
    <3>3. Mine' = deps'
      BY <1>1, <3>1
    <3>4. Acyclic(deps' \ unchecked')
      BY <2>2, <2>3, <3>2
    <3> QED
      BY <2>1, <3>3, <3>4 DEF CheckHolds, Checked
  <2>5. CASE ~(c \in OnBoard /\ kept = given)
    <3>1. PICK written \in SUBSET kept :
            /\ open' = [held |-> TRUE, card |-> IF c \in OnBoard THEN c ELSE NoCard,
                        deps |-> IF c \in OnBoard THEN written ELSE {}]
            /\ mishap' = TRUE /\ UNCHANGED <<deps, wanted, unchecked>>
      BY <1>3, <2>5 DEF PatchWritten
    <3>2. open.card = NoCard /\ Mine = deps
      <4>1. ~open.held
        BY <2>1, <2>5 DEF CoreInv, HeldOpen
      <4> QED
        BY <4>1, MineWhenFree DEF MayWrite
    <3>3. Mine' \subseteq (deps \ From(c, deps)) \cup written \/ Mine' = deps
      BY <3>1, NewStates DEF Mine
    <3>4. Checked' \subseteq F \/ Checked' = Checked
      BY <3>1, <3>2, <3>3 DEF F, Checked, From
    <3>5. Acyclic(deps' \ unchecked')
      BY <3>1 DEF CheckHolds
    <3>6. Acyclic(Checked')
      BY <2>2, <2>3, <3>4 DEF CheckHolds
    <3> QED
      BY <2>1, <3>5, <3>6 DEF CheckHolds
  <2> QED
    BY <2>4, <2>5
<1>4. ASSUME NEW c \in Ids, Delete(c)
      PROVE  CheckHolds'
  <2>1. /\ deps' = Mine \ Touching(c, Mine) /\ open' = NoTxn /\ patch = NoPatch
        /\ patch' = patch /\ unchecked' = unchecked
    BY <1>4 DEF Delete, DeleteRow, Asks
  <2>2. Checked' \subseteq Checked /\ deps' \ unchecked' \subseteq Checked
    BY <1>1, <2>1 DEF Checked
  <2> QED
    BY <2>1, <2>2, FewerChecked
<1>5. ASSUME NEW b \in backups, Restore(b)
      PROVE  CheckHolds'
  <2>1. CASE Taken(b)
    <3>1. /\ open' = [open EXCEPT !.held = TRUE] /\ deps' = deps /\ unchecked' = unchecked
          /\ patch' = patch
      BY <1>5, <2>1 DEF Restore
    <3>2. Mine' = Mine
      BY <3>1 DEF Mine, CoreInv
    <3>3. Checked' = Checked
      BY <3>1, <3>2 DEF Checked
    <3> QED
      BY <3>1, <3>3, FewerChecked
  <2>2. CASE ~Taken(b)
    <3> DEFINE back == {e \in b.deps : {e[1], e[2]} \subseteq OnBoard \cup {b.card}}
    <3>1. /\ deps' = Mine \cup back /\ open' = NoTxn /\ patch' = patch
          /\ unchecked' = unchecked \cup (back \ Mine)
      BY <1>5, <2>2 DEF Restore
    <3> HIDE DEF back
    <3>2. Checked' \subseteq Checked /\ deps' \ unchecked' \subseteq Checked
      BY <1>1, <3>1 DEF Checked
    <3> QED
      BY <3>1, <3>2, FewerChecked
  <2> QED
    BY <2>1, <2>2
<1>6. ASSUME NEW c \in Ids, Accept(c)
      PROVE  CheckHolds'
  <2>1. deps' = Mine /\ open' = NoTxn /\ patch' = patch /\ unchecked' = unchecked
    BY <1>6 DEF Accept
  <2>2. Checked' = Checked /\ deps' \ unchecked' = Checked
    BY <1>1, <2>1 DEF Checked
  <2> QED
    BY <2>1, <2>2, FewerChecked
<1> QED
  BY <1>2, <1>3, <1>4, <1>5, <1>6 DEF Operator

\* The threads keep the checks: what they link is unchecked
LEMMA ThreadsCheck ==
  ASSUME CoreInv, CoreInv', CheckHolds, Fold \/ Turn \/ Runs \/ Crash \/ UNCHANGED vars
  PROVE  CheckHolds'
<1>1. ASSUME UNCHANGED <<deps, open, unchecked, patch>>
      PROVE  CheckHolds'
  <2>1. Checked' = Checked
    BY <1>1 DEF Checked, Mine
  <2> QED
    BY <1>1, <2>1 DEF CheckHolds
<1>2. ASSUME MayWrite, UNCHANGED <<open, patch>>, deps' \ unchecked' \subseteq deps \ unchecked
      PROVE  CheckHolds'
  <2>1. Mine = deps /\ Mine' = deps'
    BY <1>2, MineWhenFree DEF Mine
  <2>2. Checked' \subseteq Checked
    BY <1>2, <2>1 DEF Checked
  <2> QED
    BY <1>2, <2>2, FewerChecked
<1>3. CASE Fold
  <2>1. CASE FoldCreates
    BY <1>1, <2>1 DEF FoldCreates, CreateRow, FoldWrites
  <2>2. ASSUME NEW c \in fold.left, FoldDeletes(c)
        PROVE  CheckHolds'
    BY <1>2, <2>2 DEF FoldDeletes, DeleteRow, FoldWrites
  <2>3. ASSUME NEW e \in fold.edges, FoldLinks(e)
        PROVE  CheckHolds'
    BY <1>2, <2>3 DEF FoldLinks, AddEdge, FoldWrites
  <2>4. CASE UNCHANGED <<deps, open, unchecked, patch>>
    BY <1>1, <2>4
  <2> QED
    BY <1>3, <2>1, <2>2, <2>3, <2>4
    DEF Fold, FoldStarts, FoldReads, FoldNext, FoldEnds, FoldDies, FoldTakes
<1>4. CASE Turn
  <2>1. CASE TurnCreates
    BY <1>1, <2>1 DEF TurnCreates, CreateRow, TurnWrites
  <2>2. ASSUME NEW e \in turn.edges, TurnLinks(e)
        PROVE  CheckHolds'
    BY <1>2, <2>2 DEF TurnLinks, AddEdge, TurnWrites
  <2>3. CASE UNCHANGED <<deps, open, unchecked, patch>>
    BY <1>1, <2>3
  <2> QED
    BY <1>4, <2>1, <2>2, <2>3 DEF Turn, TurnStarts, TurnLooks, TurnEnds, TurnDies
<1>5. CASE Runs
  BY <1>1, <1>5 DEF Runs, TickStarts, RunBegins, RunEnds
<1>6. CASE Crash
  <2>1. deps' = deps /\ unchecked' = unchecked /\ open' = NoTxn /\ patch' = NoPatch
    BY <1>6 DEF Crash
  <2>2. Checked' = deps \ unchecked
    BY <2>1, NewStates DEF Checked, Mine
  <2> QED
    BY <2>1, <2>2, FewerChecked
<1>7. CASE UNCHANGED vars
  BY <1>1, <1>7 DEF vars
<1> QED
  BY <1>3, <1>4, <1>5, <1>6, <1>7

\* However a PATCH is checked, folds and turns link and the write comes after: what closes a cycle
\* is an edge nobody checked (set_dependencies, _check_no_dependency_cycle)
THEOREM ChecksHold == Spec => []CyclesAreUnchecked
<1>1. Init => CheckHolds
  <2> SUFFICES ASSUME Init PROVE CheckHolds
    OBVIOUS
  <2>1. Acyclic(deps) /\ unchecked = {} /\ open = NoTxn /\ patch = NoPatch
    BY DEF Init
  <2>2. deps \ unchecked = deps /\ Checked = deps
    BY <2>1, NewStates DEF Checked, Mine
  <2> QED
    BY <2>1, <2>2 DEF CheckHolds
<1>2. CoreInv /\ CoreInv' /\ CheckHolds /\ [Next]_vars => CheckHolds'
  BY OperatorChecks, ThreadsCheck DEF Next
<1>3. CheckHolds => CyclesAreUnchecked
  BY DEF CheckHolds, CyclesAreUnchecked
<1> QED
  BY <1>1, <1>2, <1>3, CoreHolds, PTL DEF Spec

-----------------------------------------------------------------------------
(* the order *)

\* A card that is on the board or in the backups; no other one is named by a thread
Known == OnBoard \cup {b.card : b \in backups}
\* an edge between cards of S
Between(e, S) == e[1] \in S /\ e[2] \in S
\* whatever the threads have in hand is known
NamesKnown ==
  /\ Originals \subseteq Known
  /\ fold.read \subseteq Known /\ \A e \in fold.edges : Between(e, Known)
  /\ turn.mine \subseteq Known /\ \A e \in turn.edges : Between(e, Known)

\* A thread has edges to write, and cards to delete, only while it is at that
InStep ==
  /\ fold.at # "deleting" => fold.left = {}
  /\ fold.at \notin {"deleting", "linking"} => fold.edges = {} /\ fold.group = {}
  /\ fold.left \subseteq fold.group /\ fold.group \subseteq fold.read \ fold.used
  /\ turn.at # "linking" => turn.edges = {}
  /\ fold.at \in {"idle", "thinking"} => fold.since = {}
NamesInv == NamesKnown /\ InStep

\* A card that is known is never forgotten, and a new one was not known
LEMMA KnownKept ==
  ASSUME CoreInv, CoreInv', [Next]_vars
  PROVE  Known \subseteq Known'
<1>0. RowInv /\ OnBoard \subseteq Ids /\ (Mine \subseteq OnBoard \X OnBoard)
  BY MineIs DEF CoreInv
<1>1. ASSUME UNCHANGED backups, \A c \in Ids : status[c] # "none" => status'[c] # "none"
      PROVE  Known \subseteq Known'
  BY <1>1 DEF Known, OnBoard
<1>2. ASSUME NEW c \in Ids, NEW es \in SUBSET (OnBoard \X OnBoard), c \in OnBoard, DeleteRow(c, es)
      PROVE  Known \subseteq Known'
  <2>1. /\ OnBoard' = OnBoard \ {c} /\ backups \subseteq backups'
        /\ \E b \in backups' : b.card = c
    BY <1>0, <1>2, RowDeleted
  <2> QED
    BY <2>1 DEF Known
<1>3. CASE Operator
  <2>1. ASSUME NEW c \in Ids, Delete(c)
        PROVE  Known \subseteq Known'
    BY <1>0, <1>2, <2>1 DEF Delete
  <2>2. ASSUME NEW b \in backups, Restore(b)
        PROVE  Known \subseteq Known'
    <3>1. CASE Taken(b)
      BY <1>1, <2>2, <3>1 DEF Restore
    <3>2. CASE ~Taken(b)
      <4>1. status' = [status EXCEPT ![b.card] = b.status] /\ backups' = backups \ {b}
        BY <2>2, <3>2 DEF Restore
      <4>2. b.card \in Ids /\ b.status # "none" /\ status \in [Ids -> Statuses \cup {"none"}]
        BY <1>0 DEF RowInv, Backup, Statuses
      <4>3. OnBoard' = OnBoard \cup {b.card}
        BY <4>1, <4>2 DEF OnBoard
      <4> QED
        BY <4>1, <4>3 DEF Known
    <3> QED
      BY <3>1, <3>2
  <2>3. ASSUME NEW c \in Ids, PatchChecked(c)
        PROVE  Known \subseteq Known'
    BY <1>1, <2>3 DEF PatchChecked
  <2>4. ASSUME NEW c \in Ids, Accept(c)
        PROVE  Known \subseteq Known'
    BY <1>0, <1>1, <2>4 DEF Accept, RowInv
  <2>5. CASE PatchWritten
    BY <1>1, <2>5 DEF PatchWritten
  <2> QED
    BY <1>3, <2>1, <2>2, <2>3, <2>4, <2>5 DEF Operator
<1>4. ASSUME NEW c, NEW t, CreateRow(c, t)
      PROVE  Known \subseteq Known'
  BY <1>0, <1>1, <1>4 DEF CreateRow, RowInv
<1>5. CASE Fold
  <2>1. CASE FoldCreates
    BY <1>4, <2>1 DEF FoldCreates
  <2>2. ASSUME NEW c \in fold.left, FoldDeletes(c)
        PROVE  Known \subseteq Known'
    BY <1>0, <1>2, <2>2 DEF FoldDeletes, RowInv
  <2>3. ASSUME NEW e \in fold.edges, FoldLinks(e)
        PROVE  Known \subseteq Known'
    BY <1>1, <2>3 DEF FoldLinks, AddEdge
  <2>4. CASE UNCHANGED rows
    BY <1>1, <2>4
  <2> QED
    BY <1>5, <2>1, <2>2, <2>3, <2>4
    DEF Fold, FoldStarts, FoldReads, FoldNext, FoldEnds, FoldDies, FoldTakes
<1>6. CASE Turn
  <2>1. CASE TurnCreates
    BY <1>4, <2>1 DEF TurnCreates
  <2>2. ASSUME NEW e \in turn.edges, TurnLinks(e)
        PROVE  Known \subseteq Known'
    BY <1>1, <2>2 DEF TurnLinks, AddEdge
  <2>3. CASE UNCHANGED rows
    BY <1>1, <2>3
  <2> QED
    BY <1>6, <2>1, <2>2, <2>3 DEF Turn, TurnStarts, TurnLooks, TurnEnds, TurnDies
<1>7. CASE Runs
  <2>1. backups' = backups /\ \A c \in Ids : status[c] # "none" => status'[c] # "none"
    BY <1>0, <1>7 DEF Runs, TickStarts, RunBegins, RunEnds, RowInv
  <2> QED
    BY <1>1, <2>1
<1>8. CASE Crash
  BY <1>1, <1>8 DEF Crash
<1>9. CASE UNCHANGED vars
  BY <1>1, <1>9 DEF vars
<1> QED
  BY <1>3, <1>5, <1>6, <1>7, <1>8, <1>9 DEF Next

\* What a new card is
LEMMA NewIsNew ==
  ASSUME Unused # {}
  PROVE  NewId \notin Known /\ NewId \in Ids
BY NewIdIs DEF Known, OnBoard, Ids

\* Every step keeps to what is known
LEMMA NamesKept ==
  ASSUME CoreInv, CoreInv', NamesInv, [Next]_vars
  PROVE  NamesInv'
<1>0. /\ Known \subseteq Known' /\ OnBoard \subseteq Known /\ fold \in FoldState
      /\ turn \in TurnState /\ Originals \subseteq Known' /\ deps \subseteq OnBoard \X OnBoard
      /\ fold' \in FoldState /\ turn' \in TurnState
  BY KnownKept DEF Known, NamesInv, NamesKnown, CoreInv, RowInv
<1> DEFINE FoldNamed == /\ fold'.read \subseteq Known'
                        /\ \A e \in fold'.edges : Between(e, Known')
           TurnNamed == /\ turn'.mine \subseteq Known'
                        /\ \A e \in turn'.edges : Between(e, Known')
           FoldInStep == /\ fold'.at # "deleting" => fold'.left = {}
                         /\ fold'.at \notin {"deleting", "linking"}
                              => fold'.edges = {} /\ fold'.group = {}
                         /\ fold'.left \subseteq fold'.group
                         /\ fold'.group \subseteq fold'.read \ fold'.used
                         /\ fold'.at \in {"idle", "thinking"} => fold'.since = {}
           TurnInStep == turn'.at # "linking" => turn'.edges = {}
<1>1. /\ fold.read \subseteq Known' /\ \A e \in fold.edges : Between(e, Known')
      /\ turn.mine \subseteq Known' /\ \A e \in turn.edges : Between(e, Known')
  BY <1>0 DEF NamesInv, NamesKnown, Between
<1>2. fold' = fold => FoldNamed /\ FoldInStep
  BY <1>1 DEF NamesInv, InStep
<1>3. turn' = turn => TurnNamed /\ TurnInStep
  BY <1>1 DEF NamesInv, InStep
<1>4. ASSUME NEW n \in Nat, fold' = [NoFold EXCEPT !.groups = n]
      PROVE  FoldNamed /\ FoldInStep
  BY <1>4 DEF NoFold
<1>5. turn' = NoTurn => TurnNamed /\ TurnInStep
  BY DEF NoTurn
<1>6. FoldNamed /\ FoldInStep
  <2>1. CASE Fold
    <3>1. CASE FoldStarts
      BY <1>0, <1>1, <3>1 DEF FoldStarts, FoldState, NamesInv, InStep
    <3>2. CASE FoldReads
      <4>1. CASE fold' = [fold EXCEPT !.at = "folding", !.read = Todo]
        <5>1. Todo \subseteq OnBoard /\ fold.at = "thinking"
          BY <3>2 DEF Todo, FoldReads
        <5>2. fold.left = {} /\ fold.edges = {} /\ fold.group = {}
          BY <5>1 DEF NamesInv, InStep
        <5>3. UNCHANGED rows
          BY <3>2 DEF FoldReads
        <5> QED
          BY <1>0, <1>1, <4>1, <5>1, <5>2 DEF FoldState, NamesInv, InStep
      <4> QED
        BY <1>4, <3>2, <4>1 DEF FoldReads
    <3>3. CASE FoldCreates
      <4>1. /\ fold' = [fold EXCEPT !.at = "linking", !.edges = Moved(NewId)]
            /\ Unused # {} /\ fold.left = {} /\ fold.at = "deleting"
        BY <3>3 DEF FoldCreates
      <4>2. PICK c \in fold.group : MayCarry(task[c]) /\ CreateRow(NewId, task[c])
        BY <3>3 DEF FoldCreates
      <4>3. NewId \in Known'
        <5>1. status' = [status EXCEPT ![NewId] = "todo"] /\ NewId \in Ids
          BY <4>1, <4>2, NewIsNew DEF CreateRow
        <5> QED
          BY <5>1 DEF Known, OnBoard, CoreInv, RowInv
      <4>4. \A e \in Moved(NewId) : Between(e, Known')
        BY <1>1, <4>3 DEF Moved, Between
      <4> HIDE DEF Known
      <4> QED
        BY <1>0, <1>1, <4>1, <4>4 DEF FoldState, NamesInv, InStep
    <3>4. CASE FoldNext
      BY <1>0, <1>1, <3>4 DEF FoldNext, FoldState, NamesInv, InStep
    <3>5. CASE FoldEnds \/ FoldDies
      BY <1>4, <3>5 DEF FoldEnds, FoldDies
    <3>6. ASSUME NEW group \in SUBSET Foldable, FoldTakes(group)
          PROVE  FoldNamed /\ FoldInStep
      <4> DEFINE es == UNION {Touching(c, deps) : c \in group}
      <4>1. fold' = [fold EXCEPT !.at = "deleting", !.group = group, !.left = group, !.edges = es]
        BY <3>6 DEF FoldTakes
      <4>2. \A e \in es : Between(e, Known')
        BY <1>0 DEF Touching, Between
      <4>3. group \subseteq fold.read \ fold.used
        BY DEF Foldable
      <4> HIDE DEF es
      <4>4. /\ fold'.at = "deleting" /\ fold'.group = group /\ fold'.left = group
            /\ fold'.edges = es /\ fold'.read = fold.read /\ fold'.used = fold.used
        BY <1>0, <4>1 DEF FoldState
      <4> QED
        BY <1>1, <4>2, <4>3, <4>4
    <3>7. ASSUME NEW c \in fold.left, FoldDeletes(c)
          PROVE  FoldNamed /\ FoldInStep
      BY <1>0, <1>1, <3>7 DEF FoldDeletes, FoldState, NamesInv, InStep
    <3>8. ASSUME NEW e \in fold.edges, FoldLinks(e)
          PROVE  FoldNamed /\ FoldInStep
      BY <1>0, <1>1, <3>8 DEF FoldLinks, FoldState, NamesInv, InStep
    <3> QED
      BY <2>1, <3>1, <3>2, <3>3, <3>4, <3>5, <3>6, <3>7, <3>8 DEF Fold
  <2>2. CASE Runs
    <3>1. PICK c \in Ids : TickStarts(c) \/ RunBegins(c) \/ RunEnds(c)
      BY <2>2 DEF Runs
    <3>2. \/ fold' = fold
          \/ fold' = [fold EXCEPT !.since = IF fold.at \in {"idle", "thinking"} THEN {}
                                            ELSE fold.since \cup {c}]
      BY <3>1 DEF TickStarts, RunBegins, RunEnds
    <3> QED
      BY <1>0, <1>1, <1>2, <3>2 DEF FoldState, NamesInv, InStep
  <2>3. CASE Crash
    BY <1>0, <1>4, <2>3 DEF Crash, FoldState
  <2>4. CASE Operator \/ Turn \/ UNCHANGED vars
    <3>1. fold' = fold
      BY <2>4 DEF Operator, PatchChecked, PatchWritten, Delete, Restore, Accept, vars,
        Turn, TurnStarts, TurnCreates, TurnWrites, TurnLooks, TurnLinks, TurnEnds, TurnDies
    <3> QED
      BY <1>2, <3>1
  <2> QED
    BY <2>1, <2>2, <2>3, <2>4 DEF Next
<1>7. TurnNamed /\ TurnInStep
  <2>1. CASE Turn
    <3>1. CASE TurnStarts
      BY <1>0, <1>1, <3>1 DEF TurnStarts, TurnState, NamesInv, InStep, NoTurn
    <3>2. CASE TurnCreates
      <4>1. turn' = [turn EXCEPT !.mine = turn.mine \cup {NewId}] /\ turn.at = "creating"
        BY <3>2 DEF TurnCreates
      <4>2. NewId \in Known'
        <5>1. status' = [status EXCEPT ![NewId] = "todo"] /\ NewId \in Ids
          BY <3>2, NewIsNew DEF CreateRow, TurnCreates
        <5> QED
          BY <5>1 DEF Known, OnBoard, CoreInv, RowInv
      <4> HIDE DEF Known
      <4> QED
        BY <1>0, <1>1, <4>1, <4>2 DEF TurnState, NamesInv, InStep
    <3>3. CASE TurnLooks
      <4>1. PICK es \in SUBSET {e \in turn.mine \X (OnBoard \cup turn.mine) : e[1] # e[2]} :
              turn' = [turn EXCEPT !.at = "linking", !.edges = es]
        BY <3>3 DEF TurnLooks
      <4>2. \A e \in es : Between(e, Known')
        BY <1>0, <1>1 DEF Between
      <4> QED
        BY <1>0, <1>1, <4>1, <4>2 DEF TurnState, NamesInv, InStep
    <3>4. CASE TurnEnds \/ TurnDies
      BY <1>5, <3>4 DEF TurnEnds, TurnDies
    <3>5. ASSUME NEW e \in turn.edges, TurnLinks(e)
          PROVE  TurnNamed /\ TurnInStep
      BY <1>0, <1>1, <3>5 DEF TurnLinks, TurnState, NamesInv, InStep
    <3> QED
      BY <2>1, <3>1, <3>2, <3>3, <3>4, <3>5 DEF Turn
  <2>2. CASE Crash
    BY <1>5, <2>2 DEF Crash
  <2>3. CASE Operator \/ Fold \/ Runs \/ UNCHANGED vars
    <3>1. turn' = turn
      BY <2>3 DEF Operator, PatchChecked, PatchWritten, Delete, Restore, Accept, vars, Fold,
        FoldStarts, FoldReads, FoldCreates, FoldWrites, FoldNext, FoldEnds, FoldDies, FoldTakes,
        FoldDeletes, FoldLinks, Runs, TickStarts, RunBegins, RunEnds
    <3> QED
      BY <1>3, <3>1
  <2> QED
    BY <2>1, <2>2, <2>3 DEF Next
<1> QED
  BY <1>0, <1>6, <1>7 DEF NamesInv, NamesKnown, InStep

\* At first the cards of the board are known and the threads idle
LEMMA NamesInit == Init => NamesInv
<1> SUFFICES ASSUME Init PROVE NamesInv
  OBVIOUS
<1>1. status = [c \in Ids |-> IF c \in Originals THEN "todo" ELSE "none"]
  BY DEF Init
<1>2. Originals \subseteq Known
  BY <1>1 DEF Known, OnBoard, Ids
<1>3. fold = NoFold /\ turn = NoTurn
  BY DEF Init
<1> QED
  BY <1>2, <1>3 DEF NamesInv, NamesKnown, InStep, NoFold, NoTurn

\* What the turn has still to write and can
Addable == {e \in turn.edges : MayAdd(e)}

\* Where nobody died or met anybody half way: the order that was asked for is the one in the rows
\* and in what the threads have still to write.  A fold that deletes has read every edge of the
\* cards it has left to delete, each of them an edge of the group.
OrderHolds ==
  /\ open.card = NoCard
  /\ wanted = deps \cup fold.edges \cup Addable
  /\ fold.at = "deleting" =>
       /\ \A c \in fold.left : Touching(c, deps) \subseteq fold.edges
       /\ (fold.group \ fold.left) \cap OnBoard = {}
       /\ \A e \in fold.edges : e[1] \in fold.group \/ e[2] \in fold.group
OrderInv == ~mishap => OrderHolds

\* A mishap is remembered
LEMMA MishapKept ==
  ASSUME CoreInv, [Next]_vars, mishap
  PROVE  mishap'
<1>1. CASE Operator
  BY <1>1 DEF Operator, PatchChecked, PatchWritten, Delete, Restore, Accept, Meets
<1>2. CASE Fold
  BY <1>2 DEF Fold, FoldStarts, FoldReads, FoldCreates, FoldNext, FoldEnds, FoldDies, FoldTakes,
    FoldDeletes, FoldLinks
<1>3. CASE Turn
  BY <1>3 DEF Turn, TurnStarts, TurnCreates, TurnLooks, TurnEnds, TurnDies, TurnLinks
<1>4. CASE Runs
  BY <1>4 DEF Runs, TickStarts, RunBegins, RunEnds
<1>5. CASE Crash \/ UNCHANGED vars
  BY <1>5 DEF Crash, vars
<1> QED
  BY <1>1, <1>2, <1>3, <1>4, <1>5 DEF Next

\* The operator rewrites the order of rows and record alike
LEMMA OperatorOrders ==
  ASSUME CoreInv, NamesInv, OrderHolds, Operator, ~mishap'
  PROVE  OrderHolds'
<1>0. /\ Mine = deps /\ OnBoard \subseteq Ids /\ deps \subseteq OnBoard \X OnBoard
      /\ deps \in SUBSET Edges
  BY MineIs DEF OrderHolds
<1>1. ASSUME UNCHANGED <<status, deps, wanted, fold, turn>>, open'.card = NoCard
      PROVE  OrderHolds'
  BY <1>1 DEF OrderHolds, Addable, MayAdd, OnBoard
<1>2. ASSUME Meets, UNCHANGED <<fold, turn>>, open' = NoTxn, wanted' = deps'
      PROVE  OrderHolds'
  <2>1. fold.at \notin {"deleting", "linking"} /\ turn.at # "linking"
    BY <1>2 DEF Meets
  <2>2. fold.edges = {} /\ turn.edges = {}
    BY <2>1 DEF NamesInv, InStep
  <2>3. Addable' = {}
    BY <1>2, <2>2 DEF Addable
  <2> QED
    BY <1>2, <2>1, <2>2, <2>3, NewStates DEF OrderHolds
<1>3. ASSUME Meets
      PROVE  wanted = deps
  <2>1. fold.at \notin {"deleting", "linking"} /\ turn.at # "linking"
    BY <1>3 DEF Meets
  <2> QED
    BY <2>1 DEF OrderHolds, Addable, NamesInv, InStep
<1>4. ASSUME NEW c \in Ids, PatchChecked(c)
      PROVE  OrderHolds'
  BY <1>1, <1>4 DEF PatchChecked, OrderHolds
<1>5. CASE PatchWritten
  <2>1. /\ deps' = (Mine \ From(patch.card, Mine)) \cup ({patch.card} \X patch.deps)
        /\ wanted' = (wanted \ From(patch.card, wanted)) \cup ({patch.card} \X patch.deps)
        /\ open' = NoTxn /\ Meets /\ UNCHANGED <<fold, turn>>
    BY <1>5 DEF PatchWritten
  <2>2. wanted' = deps'
    BY <1>0, <1>3, <2>1
  <2> QED
    BY <1>2, <2>1, <2>2
<1>6. ASSUME NEW c \in Ids, Delete(c)
      PROVE  OrderHolds'
  <2>1. /\ deps' = Mine \ Touching(c, Mine) /\ wanted' = wanted \ Touching(c, wanted)
        /\ open' = NoTxn /\ Meets /\ UNCHANGED <<fold, turn>>
    BY <1>6 DEF Delete, DeleteRow
  <2>2. wanted' = deps'
    BY <1>0, <1>3, <2>1
  <2> QED
    BY <1>2, <2>1, <2>2
<1>7. ASSUME NEW b \in backups, Restore(b)
      PROVE  OrderHolds'
  <2>1. CASE Taken(b)
    <3>1. open' = [open EXCEPT !.held = TRUE] /\ UNCHANGED <<rows, past, fold, turn>>
      BY <1>7, <2>1 DEF Restore
    <3>2. open'.card = NoCard
      BY <3>1 DEF CoreInv, OrderHolds
    <3> QED
      BY <1>1, <3>1, <3>2
  <2>2. CASE ~Taken(b)
    <3> DEFINE back == {e \in b.deps : {e[1], e[2]} \subseteq OnBoard \cup {b.card}}
    <3>1. /\ deps' = Mine \cup back /\ wanted' = wanted \cup back
          /\ open' = NoTxn /\ Meets /\ UNCHANGED <<fold, turn>>
      BY <1>7, <2>2 DEF Restore
    <3>2. wanted' = deps'
      BY <1>0, <1>3, <3>1
    <3> QED
      BY <1>2, <3>1, <3>2
  <2> QED
    BY <2>1, <2>2
<1>8. ASSUME NEW c \in Ids, Accept(c)
      PROVE  OrderHolds'
  <2>1. /\ status[c] = "blocked" /\ status' = [status EXCEPT ![c] = "accepted"]
        /\ deps' = deps /\ open' = NoTxn /\ UNCHANGED <<fold, turn, wanted>>
    BY <1>0, <1>8 DEF Accept
  <2>2. OnBoard' = OnBoard
    BY <2>1 DEF OnBoard, CoreInv, RowInv
  <2>3. Addable' = Addable
    BY <2>1, <2>2 DEF Addable, MayAdd
  <2> QED
    BY <2>1, <2>2, <2>3, NewStates DEF OrderHolds
<1> QED
  BY <1>4, <1>5, <1>6, <1>7, <1>8 DEF Operator

\* A merged card takes the place of its group in the rows to come as in the order asked for
LEMMA MergedIsMoved ==
  ASSUME CoreInv, NamesInv, OrderHolds, fold.at = "deleting", fold.left = {}, Unused # {}
  PROVE  {<<InPlace(e[1], NewId), InPlace(e[2], NewId)>> : e \in wanted} \ {<<NewId, NewId>>}
           = deps \cup Moved(NewId) \cup Addable
<1> DEFINE n == NewId
           G == fold.group
           Still == deps \cup Addable
           Image == {<<InPlace(e[1], n), InPlace(e[2], n)>> : e \in wanted} \ {<<n, n>>}
<1>0. n \notin Known /\ OnBoard \subseteq Known
  BY NewIsNew DEF Known
<1>1. wanted = Still \cup fold.edges /\ \A e \in wanted : e = <<e[1], e[2]>>
  BY DEF OrderHolds, CoreInv, Edges
<1>2. \A e \in Still : /\ e[1] \in OnBoard /\ e[2] \in OnBoard
                       /\ e[1] # n /\ e[2] # n
  BY <1>0 DEF CoreInv, RowInv, Addable, MayAdd
<1>3. \A e \in fold.edges : e[1] # n /\ e[2] # n /\ (e[1] \in G \/ e[2] \in G)
  BY <1>0 DEF OrderHolds, NamesInv, NamesKnown, Between
<1>4. G \cap OnBoard = {}
  BY DEF OrderHolds
<1> HIDE DEF n, G
<1>5. \A e \in Still : InPlace(e[1], n) = e[1] /\ InPlace(e[2], n) = e[2]
  BY <1>2, <1>4 DEF InPlace, G
<1>6. Moved(n) = {<<n, e[2]>> : e \in {x \in fold.edges : x[2] \notin G}}
                 \cup {<<e[1], n>> : e \in {x \in fold.edges : x[1] \notin G}}
  BY DEF Moved, G
<1> HIDE DEF Still
<1>7. ASSUME NEW x \in Image
      PROVE  x \in Still \cup Moved(n)
  <2>1. PICK e \in wanted : x = <<InPlace(e[1], n), InPlace(e[2], n)>>
    BY <1>7
  <2>2. CASE e \in Still
    BY <1>1, <1>5, <2>1, <2>2
  <2>3. CASE e \in fold.edges
    <3>1. x # <<n, n>>
      BY <1>7
    <3>2. ~(e[1] \in G /\ e[2] \in G)
      BY <2>1, <3>1 DEF InPlace, G
    <3>3. CASE e[1] \in G /\ e[2] \notin G
      <4>1. x = <<n, e[2]>>
        BY <2>1, <3>3 DEF InPlace, G
      <4> QED
        BY <1>6, <2>3, <3>3, <4>1
    <3>4. CASE e[1] \notin G /\ e[2] \in G
      <4>1. x = <<e[1], n>>
        BY <2>1, <3>4 DEF InPlace, G
      <4> QED
        BY <1>6, <2>3, <3>4, <4>1
    <3> QED
      BY <1>3, <2>3, <3>2, <3>3, <3>4
  <2> QED
    BY <1>1, <2>2, <2>3
<1>8. ASSUME NEW x \in Still
      PROVE  x \in Image
  <2>1. x \in wanted /\ x = <<x[1], x[2]>> /\ x # <<n, n>>
    BY <1>1, <1>2, <1>8
  <2>2. x = <<InPlace(x[1], n), InPlace(x[2], n)>>
    BY <1>5, <1>8, <2>1
  <2> QED
    BY <2>1, <2>2
<1>9. ASSUME NEW x \in Moved(n)
      PROVE  x \in Image
  <2>1. PICK e \in fold.edges : \/ x = <<n, e[2]>> /\ e[2] \notin G
                                \/ x = <<e[1], n>> /\ e[1] \notin G
    BY <1>6, <1>9
  <2>2. x = <<InPlace(e[1], n), InPlace(e[2], n)>>
    BY <1>3, <2>1 DEF InPlace, G
  <2>3. x # <<n, n>> /\ e \in wanted
    BY <1>1, <1>3, <2>1
  <2> QED
    BY <2>2, <2>3
<1>10. Image = Still \cup Moved(n)
  BY <1>7, <1>8, <1>9
<1> QED
  BY <1>10 DEF Still, n

\* A fold moves the order from the rows to what it has still to write, and back
LEMMA FoldOrders ==
  ASSUME CoreInv, NamesInv, OrderHolds, Fold, ~mishap'
  PROVE  OrderHolds'
<1>0. /\ OnBoard \subseteq Ids /\ deps \subseteq OnBoard \X OnBoard /\ fold \in FoldState
      /\ RowInv
  BY MineIs DEF CoreInv, RowInv
<1>1. ASSUME UNCHANGED <<rows, open, turn, wanted>>, fold'.at # "deleting",
             fold'.edges = {}, fold.edges = {}
      PROVE  OrderHolds'
  BY <1>1 DEF OrderHolds, Addable, MayAdd, OnBoard
<1>2. CASE FoldStarts
  BY <1>0, <1>1, <1>2 DEF FoldStarts, FoldState, NamesInv, InStep
<1>3. CASE FoldReads
  <2>1. fold.edges = {} /\ fold'.edges = {} /\ fold'.at # "deleting"
    BY <1>0, <1>3 DEF FoldReads, FoldState, NamesInv, InStep, NoFold
  <2> QED
    BY <1>1, <1>3, <2>1 DEF FoldReads
<1>4. CASE FoldCreates
  <2>1. PICK c \in fold.group : MayCarry(task[c]) /\ CreateRow(NewId, task[c])
    BY <1>4 DEF FoldCreates
  <2>2. /\ fold.at = "deleting" /\ fold.left = {} /\ Unused # {} /\ FoldWrites
        /\ fold' = [fold EXCEPT !.at = "linking", !.edges = Moved(NewId)]
        /\ wanted' = {<<InPlace(e[1], NewId), InPlace(e[2], NewId)>> : e \in wanted}
                     \ {<<NewId, NewId>>}
    BY <1>4 DEF FoldCreates
  <2>3. /\ deps' = deps /\ open' = open /\ turn' = turn /\ fold'.at = "linking"
        /\ fold'.edges = Moved(NewId)
    BY <1>0, <2>1, <2>2 DEF CreateRow, FoldWrites, FoldState
  <2>4. NewId \notin Known /\ NewId \in Ids
    BY <2>2, NewIsNew
  <2>5. OnBoard' = OnBoard \cup {NewId}
    BY <1>0, <2>1, <2>4 DEF CreateRow, OnBoard, RowInv
  <2>6. Addable' = Addable
    BY <2>3, <2>4, <2>5 DEF Addable, MayAdd, NamesInv, NamesKnown, Between
  <2>7. wanted' = deps' \cup fold'.edges \cup Addable'
    BY <2>2, <2>3, <2>6, MergedIsMoved
  <2> QED
    BY <2>3, <2>7 DEF OrderHolds
<1>5. CASE FoldNext \/ FoldEnds
  <2>1. fold.edges = {} /\ fold'.edges = {} /\ fold'.at # "deleting"
    BY <1>0, <1>5 DEF FoldNext, FoldEnds, FoldState, NamesInv, InStep, NoFold
  <2> QED
    BY <1>1, <1>5, <2>1 DEF FoldNext, FoldEnds
<1>6. CASE FoldDies
  <2>1. fold.at = "folding" /\ fold' = [NoFold EXCEPT !.groups = MaxGroups]
    BY <1>6 DEF FoldDies
  <2>2. fold.edges = {} /\ fold'.edges = {} /\ fold'.at # "deleting"
    BY <2>1 DEF NamesInv, InStep, NoFold
  <2> QED
    BY <1>1, <1>6, <2>2 DEF FoldDies
<1>7. ASSUME NEW group \in SUBSET Foldable, FoldTakes(group)
      PROVE  OrderHolds'
  <2> DEFINE es == UNION {Touching(c, deps) : c \in group}
  <2>1. /\ fold' = [fold EXCEPT !.at = "deleting", !.group = group, !.left = group, !.edges = es]
        /\ fold.at = "folding" /\ UNCHANGED <<rows, open, turn, wanted>>
    BY <1>7 DEF FoldTakes
  <2>2. fold.edges = {} /\ es \subseteq deps
    BY <2>1 DEF NamesInv, InStep, Touching
  <2>3. /\ fold'.group = group /\ fold'.left = group /\ fold'.edges = es
    BY <1>0, <2>1 DEF FoldState
  <2>4. OnBoard' = OnBoard /\ Addable' = Addable
    BY <2>1 DEF OnBoard, Addable, MayAdd
  <2>5. \A e \in es : e[1] \in group \/ e[2] \in group
    BY DEF Touching
  <2>6. \A c \in group : Touching(c, deps) \subseteq es
    OBVIOUS
  <2> HIDE DEF es
  <2>7. wanted' = deps' \cup fold'.edges \cup Addable'
    BY <2>1, <2>2, <2>3, <2>4 DEF OrderHolds
  <2>8. /\ \A c \in fold'.left : Touching(c, deps') \subseteq fold'.edges
        /\ (fold'.group \ fold'.left) \cap OnBoard' = {}
        /\ \A e \in fold'.edges : e[1] \in fold'.group \/ e[2] \in fold'.group
    BY <2>1, <2>3, <2>5, <2>6
  <2>9. open'.card = NoCard
    BY <2>1 DEF OrderHolds
  <2> QED
    BY <2>7, <2>8, <2>9 DEF OrderHolds
<1>8. ASSUME NEW c \in fold.left, FoldDeletes(c)
      PROVE  OrderHolds'
  <2>1. /\ fold.at = "deleting" /\ c \in OnBoard /\ DeleteRow(c, deps) /\ FoldWrites
        /\ fold' = [fold EXCEPT !.left = fold.left \ {c}]
        /\ wanted' = wanted /\ Touching(c, turn.edges) = {}
    BY <1>8 DEF FoldDeletes
  <2>2. OnBoard' = OnBoard \ {c} /\ deps' = deps \ Touching(c, deps)
    BY <1>0, <2>1, RowDeleted DEF RowInv
  <2>3. /\ fold'.group = fold.group /\ fold'.left = fold.left \ {c}
        /\ fold'.edges = fold.edges /\ fold'.at = fold.at
    BY <1>0, <2>1 DEF FoldState
  <2>4. Addable' = Addable
    BY <2>1, <2>2 DEF Addable, MayAdd, FoldWrites, Touching
  <2>5. wanted' = deps' \cup fold'.edges \cup Addable'
    BY <2>1, <2>2, <2>3, <2>4 DEF OrderHolds
  <2>6. /\ \A d \in fold'.left : Touching(d, deps') \subseteq fold'.edges
        /\ (fold'.group \ fold'.left) \cap OnBoard' = {}
        /\ \A e \in fold'.edges : e[1] \in fold'.group \/ e[2] \in fold'.group
    BY <2>1, <2>2, <2>3 DEF OrderHolds, Touching
  <2>7. open'.card = NoCard
    BY <2>1 DEF OrderHolds, FoldWrites
  <2> QED
    BY <2>5, <2>6, <2>7 DEF OrderHolds
<1>9. ASSUME NEW e \in fold.edges, FoldLinks(e)
      PROVE  OrderHolds'
  <2>1. /\ fold.at = "linking" /\ MayAdd(e) /\ deps' = deps \cup {e} /\ status' = status
        /\ fold' = [fold EXCEPT !.edges = fold.edges \ {e}]
        /\ UNCHANGED <<open, turn, wanted>>
    BY <1>9 DEF FoldLinks, AddEdge, FoldWrites
  <2>2. Addable' = Addable
    BY <2>1 DEF Addable, MayAdd, OnBoard
  <2>3. fold'.edges = fold.edges \ {e} /\ fold'.at = fold.at
    BY <1>0, <2>1 DEF FoldState
  <2> QED
    BY <2>1, <2>2, <2>3 DEF OrderHolds
<1> QED
  BY <1>2, <1>3, <1>4, <1>5, <1>6, <1>7, <1>8, <1>9 DEF Fold

\* A turn asks for what it is about to write
LEMMA TurnOrders ==
  ASSUME CoreInv, NamesInv, OrderHolds, Turn, ~mishap'
  PROVE  OrderHolds'
<1>0. turn \in TurnState /\ RowInv
  BY DEF CoreInv
<1>1. ASSUME UNCHANGED <<deps, open, fold, wanted>>, OnBoard \subseteq OnBoard',
             OnBoard' \cap Known \subseteq OnBoard, turn'.edges = turn.edges
      PROVE  OrderHolds'
  <2>1. Addable' = Addable
    BY <1>1 DEF Addable, MayAdd, NamesInv, NamesKnown, Between
  <2>2. fold.group \subseteq Known
    BY DEF NamesInv, NamesKnown, InStep
  <2> QED
    BY <1>1, <2>1, <2>2 DEF OrderHolds
<1>2. CASE TurnStarts
  <2>1. turn'.edges = turn.edges
    BY <1>0, <1>2 DEF TurnStarts, TurnState
  <2> QED
    BY <1>1, <1>2, <2>1 DEF TurnStarts, OnBoard
<1>3. CASE TurnCreates
  <2>1. /\ Unused # {} /\ status' = [status EXCEPT ![NewId] = "todo"] /\ deps' = deps
        /\ turn' = [turn EXCEPT !.mine = turn.mine \cup {NewId}]
        /\ UNCHANGED <<open, fold, wanted>>
    BY <1>3 DEF TurnCreates, CreateRow, TurnWrites
  <2>2. NewId \notin Known /\ NewId \in Ids
    BY <2>1, NewIsNew
  <2>3. OnBoard' = OnBoard \cup {NewId}
    BY <1>0, <2>1, <2>2 DEF OnBoard, RowInv
  <2>4. turn'.edges = turn.edges
    BY <1>0, <2>1 DEF TurnState
  <2> QED
    BY <1>1, <2>1, <2>2, <2>3, <2>4
<1>4. CASE TurnLooks
  <2>1. PICK es \in SUBSET {e \in turn.mine \X (OnBoard \cup turn.mine) : e[1] # e[2]} :
          /\ turn' = [turn EXCEPT !.at = "linking", !.edges = es]
          /\ wanted' = wanted \cup {e \in es : MayAdd(e)}
    BY <1>4 DEF TurnLooks
  <2>2. UNCHANGED <<rows, open, fold>> /\ turn.edges = {}
    BY <1>4 DEF TurnLooks, NamesInv, InStep
  <2>3. Addable' = {e \in es : MayAdd(e)}
    BY <1>0, <2>1, <2>2 DEF Addable, MayAdd, OnBoard, TurnState
  <2>4. Addable = {}
    BY <2>2 DEF Addable
  <2>5. wanted' = deps' \cup fold'.edges \cup Addable'
    BY <2>1, <2>2, <2>3, <2>4 DEF OrderHolds
  <2> QED
    BY <2>2, <2>5 DEF OrderHolds, OnBoard
<1>5. CASE TurnEnds
  <2>1. turn'.edges = turn.edges
    BY <1>5 DEF TurnEnds, NoTurn
  <2> QED
    BY <1>1, <1>5, <2>1 DEF TurnEnds, OnBoard
<1>6. CASE TurnDies
  BY <1>6 DEF TurnDies
<1>7. ASSUME NEW e \in turn.edges, TurnLinks(e)
      PROVE  OrderHolds'
  <2>1. /\ MayAdd(e) /\ deps' = deps \cup {e} /\ status' = status
        /\ turn' = [turn EXCEPT !.edges = turn.edges \ {e}]
        /\ {e[1], e[2]} \cap fold.left = {} /\ UNCHANGED <<open, fold, wanted>>
    BY <1>7 DEF TurnLinks, AddEdge, TurnWrites
  <2>2. Addable' = Addable \ {e} /\ e \in Addable /\ OnBoard' = OnBoard
    BY <1>0, <2>1 DEF Addable, MayAdd, OnBoard, TurnState
  <2>3. wanted' = deps' \cup fold'.edges \cup Addable'
    BY <2>1, <2>2 DEF OrderHolds
  <2>4. fold.at = "deleting" =>
          \A c \in fold.left : Touching(c, deps') \subseteq fold.edges
    BY <2>1 DEF OrderHolds, Touching
  <2> QED
    BY <2>1, <2>2, <2>3, <2>4 DEF OrderHolds
<1> QED
  BY <1>2, <1>3, <1>4, <1>5, <1>6, <1>7 DEF Turn

\* Ticks and runs leave the order alone, and so does a crash that meets nobody half way
LEMMA RunsOrder ==
  ASSUME CoreInv, NamesInv, OrderHolds, Runs \/ Crash \/ UNCHANGED vars, ~mishap'
  PROVE  OrderHolds'
<1>0. RowInv /\ fold \in FoldState
  BY DEF CoreInv
<1>1. CASE Runs \/ UNCHANGED vars
  <2>1. UNCHANGED <<deps, open, turn, wanted>>
    BY <1>1 DEF Runs, TickStarts, RunBegins, RunEnds, vars
  <2>2. \A c \in Ids : status'[c] = "none" <=> status[c] = "none"
    BY <1>0, <1>1 DEF Runs, TickStarts, RunBegins, RunEnds, vars, RowInv
  <2>3. OnBoard' = OnBoard
    BY <2>2 DEF OnBoard
  <2>4. /\ fold'.at = fold.at /\ fold'.edges = fold.edges /\ fold'.left = fold.left
        /\ fold'.group = fold.group
    BY <1>0, <1>1 DEF Runs, TickStarts, RunBegins, RunEnds, vars, FoldState
  <2>5. Addable' = Addable
    BY <2>1, <2>3 DEF Addable, MayAdd
  <2> QED
    BY <2>1, <2>3, <2>4, <2>5 DEF OrderHolds
<1>2. CASE Crash
  <2>1. /\ fold.at \notin {"deleting", "linking"} /\ turn.at = "idle"
        /\ fold'.edges = {} /\ fold'.at # "deleting" /\ turn' = NoTurn /\ open' = NoTxn
        /\ UNCHANGED <<deps, wanted>>
    BY <1>2 DEF Crash, NoFold
  <2>2. wanted = deps
    BY <2>1 DEF OrderHolds, Addable, NamesInv, InStep
  <2>3. Addable' = {}
    BY <2>1 DEF Addable, NoTurn
  <2> QED
    BY <2>1, <2>2, <2>3, NewStates DEF OrderHolds
<1> QED
  BY <1>1, <1>2

\* The order, all of it
LEMMA OrderAlways == Spec => [](CoreInv /\ NamesInv /\ OrderInv)
<1>1. Init => OrderInv
  <2> SUFFICES ASSUME Init PROVE OrderHolds
    BY DEF OrderInv
  <2>1. wanted = deps /\ open = NoTxn /\ fold = NoFold /\ turn = NoTurn
    BY DEF Init
  <2>2. Addable = {} /\ fold.edges = {} /\ fold.at = "idle"
    BY <2>1 DEF Addable, NoTurn, NoFold
  <2> QED
    BY <2>1, <2>2, NewStates DEF OrderHolds
<1>2. CoreInv /\ NamesInv /\ OrderInv /\ [Next]_vars => OrderInv'
  BY MishapKept, OperatorOrders, FoldOrders, TurnOrders, RunsOrder DEF OrderInv, Next
<1>3. CoreInv /\ CoreInv' /\ NamesInv /\ [Next]_vars => NamesInv'
  BY NamesKept
<1> QED
  BY <1>1, <1>2, <1>3, NamesInit, CoreHolds, PTL DEF Spec

\* Once nobody is half way the rows hold the order that was asked for, however many transactions
\* a fold and a turn took for it side by side (_fold, apply_folds, run_orchestrator_turn)
THEOREM OrderHeld == Spec => []OrderIsKept
<1>1. CoreInv /\ NamesInv /\ OrderInv => OrderIsKept
  BY DEF OrderInv, OrderHolds, OrderIsKept, NamesInv, InStep, Addable
<1> QED
  BY <1>1, OrderAlways, PTL

\* A tick starts no card before all it was asked to wait for, but for an edge a thread has still
\* to write (_dependency_wait)
THEOREM StartsHeld == Spec => StartsInOrder
<1>1. CoreInv /\ NamesInv /\ OrderInv /\ [Next]_vars =>
        [\A c \in Ids : live[c] = "no" /\ live'[c] = "starting" /\ ~mishap =>
           \A d \in Needs(c, wanted) : status[d] = "accepted" \/ Moving(c, d)]_vars
  <2> SUFFICES ASSUME CoreInv, NamesInv, OrderInv, [Next]_vars, NEW c \in Ids,
                      live[c] = "no", live'[c] = "starting", ~mishap,
                      NEW d \in Needs(c, wanted)
               PROVE  status[d] = "accepted" \/ Moving(c, d)
    OBVIOUS
  <2>1. TickStarts(c)
    <3>1. live \in [Ids -> {"no", "starting", "running"}] /\ live' # live
      BY DEF CoreInv
    <3>2. CASE Runs
      BY <3>1, <3>2 DEF Runs, TickStarts, RunBegins, RunEnds
    <3>3. CASE Crash
      BY <3>3 DEF Crash
    <3>4. Runs \/ Crash
      BY <3>1 DEF Next, Operator, PatchChecked, PatchWritten, Delete, Restore, Accept, vars, Fold,
        FoldStarts, FoldReads, FoldCreates, FoldWrites, FoldNext, FoldEnds, FoldDies, FoldTakes,
        FoldDeletes, FoldLinks, Turn, TurnStarts, TurnCreates, TurnWrites, TurnLooks, TurnLinks,
        TurnEnds, TurnDies
    <3> QED
      BY <3>2, <3>3, <3>4
  <2>2. \A x \in Needs(c, deps) : status[x] = "accepted"
    BY <2>1 DEF TickStarts, DependencyWait
  <2>3. <<c, d>> \in wanted
    BY EdgesAre DEF CoreInv
  <2>4. CASE <<c, d>> \in deps
    BY <2>2, <2>4, EdgesAre, MineIs
  <2>5. CASE <<c, d>> \in fold.edges \cup Addable
    BY <2>5 DEF Moving, Addable
  <2> QED
    BY <2>3, <2>4, <2>5 DEF OrderInv, OrderHolds
<1> QED
  BY <1>1, OrderAlways, PTL DEF Spec, StartsInOrder

-----------------------------------------------------------------------------
(* the work of the cards, and their runs *)

\* Cards that a merged one stands for, and merged cards with the ledger task of one of their group
Merged == {c \in Ids : standsIn[c] # c}
Carriers == {d \in Fresh : task[d] # NoCard}

\* A card is merged once: neither it nor the card it went into is in a fold's proposal any more
WorkFollows ==
  /\ \A c \in Originals : task[c] = c
  /\ \A d \in Carriers : standsIn[task[d]] = d
  /\ fold.at \in Working => Carriers \cap fold.read = {}
  /\ fold.at \in {"folding", "deleting"} => Merged \cap fold.read \subseteq fold.used
  /\ fold.at = "linking" => Merged \cap fold.read \subseteq fold.used \cup fold.group
  /\ fold.at \in {"deleting", "linking"} => fold.groups < MaxGroups
  /\ Merged \cup Carriers # {} => MaxGroups > 0
  /\ fold.at = "thinking" => fold.groups = 0
  /\ fold.at \in {"idle", "thinking"} /\ fold.groups = 0 => Merged \cup Carriers = {}

\* What a step leaves alone that changes neither tasks nor merges
LEMMA WorkStays ==
  ASSUME CoreInv, WorkFollows, UNCHANGED <<task, standsIn>>,
         \/ fold' = fold
         \/ /\ fold'.at = fold.at /\ fold'.read = fold.read /\ fold'.used = fold.used
            /\ fold'.group = fold.group /\ fold'.groups = fold.groups
  PROVE  WorkFollows'
<1>1. /\ fold'.at = fold.at /\ fold'.read = fold.read /\ fold'.used = fold.used
      /\ fold'.group = fold.group /\ fold'.groups = fold.groups
  OBVIOUS
<1>2. Merged' = Merged /\ Carriers' = Carriers
  BY DEF Merged, Carriers
<1> QED
  BY <1>1, <1>2 DEF WorkFollows

\* A fold that is over does not come again
LEMMA WorkAfterFold ==
  ASSUME CoreInv, WorkFollows, UNCHANGED <<task, standsIn>>,
         fold' = [NoFold EXCEPT !.groups = MaxGroups]
  PROVE  WorkFollows'
<1>1. fold'.at = "idle" /\ fold'.groups = MaxGroups
  BY DEF NoFold
<1>2. Merged' = Merged /\ Carriers' = Carriers
  BY DEF Merged, Carriers
<1> QED
  BY <1>1, <1>2 DEF WorkFollows, Working

\* Every step keeps the work
LEMMA WorkKept ==
  ASSUME CoreInv, NamesInv, WorkFollows, [Next]_vars
  PROVE  WorkFollows'
<1>0. /\ RowInv /\ fold \in FoldState /\ standsIn \in [Ids -> Ids]
      /\ task \in [Ids -> Originals \cup {NoCard}] /\ OnBoard \subseteq Known
  BY DEF CoreInv, RowInv, Known
<1>1. CASE Operator
  <2>1. UNCHANGED <<task, standsIn, fold>>
    BY <1>1 DEF Operator, PatchChecked, PatchWritten, Delete, DeleteRow, Restore, Accept
  <2> QED
    BY <2>1, WorkStays
<1>2. CASE Fold
  <2>1. CASE FoldStarts
    <3>1. /\ fold.at = "idle" /\ fold.groups = 0 /\ fold' = [fold EXCEPT !.at = "thinking"]
          /\ UNCHANGED <<task, standsIn>>
      BY <2>1 DEF FoldStarts
    <3>2. fold'.at = "thinking" /\ fold'.groups = 0
      BY <1>0, <3>1 DEF FoldState
    <3>3. Merged' = Merged /\ Carriers' = Carriers
      BY <3>1 DEF Merged, Carriers
    <3> QED
      BY <3>1, <3>2, <3>3 DEF WorkFollows, Working
  <2>2. CASE FoldReads
    <3>1. fold.at = "thinking" /\ UNCHANGED <<task, standsIn>>
      BY <2>2 DEF FoldReads
    <3>2. CASE fold' = [fold EXCEPT !.at = "folding", !.read = Todo]
      <4>1. fold'.at = "folding"
        BY <1>0, <3>2 DEF FoldState
      <4>2. Merged' = {} /\ Carriers' = {}
        BY <3>1 DEF Merged, Carriers, WorkFollows
      <4> QED
        BY <3>1, <4>1, <4>2 DEF WorkFollows, Working
    <3> QED
      BY <2>2, <3>1, <3>2, WorkAfterFold DEF FoldReads
  <2>3. CASE FoldCreates
    <3> DEFINE n == NewId
    <3>1. PICK g \in fold.group : MayCarry(task[g]) /\ CreateRow(n, task[g])
      BY <2>3 DEF FoldCreates
    <3>2. /\ fold.at = "deleting" /\ fold.left = {} /\ Unused # {}
          /\ fold' = [fold EXCEPT !.at = "linking", !.edges = Moved(n)]
          /\ standsIn' = [c \in Ids |-> InPlace(standsIn[c], n)]
      BY <2>3 DEF FoldCreates
    <3>3. /\ fold'.at = "linking" /\ fold'.read = fold.read /\ fold'.used = fold.used
          /\ fold'.group = fold.group /\ fold'.groups = fold.groups
      BY <1>0, <3>2 DEF FoldState
    <3>4. n \notin Known /\ n \in Fresh /\ n \in Ids /\ n \notin Originals
      BY <3>2, NewIsNew, NewIdIs
    <3>5. task' = [task EXCEPT ![n] = task[g]]
      BY <3>1 DEF CreateRow
    <3> HIDE DEF n
    <3>6. fold.group \subseteq fold.read \ fold.used /\ fold.read \subseteq Known
      BY DEF NamesInv, NamesKnown, InStep
    <3>7. g \in Ids /\ standsIn[g] = g /\ g \notin Carriers /\ g # n
      <4>1. g \in Ids
        BY <1>0, <3>1 DEF FoldState
      <4> QED
        BY <3>1, <3>2, <3>4, <3>6, <4>1 DEF WorkFollows, Merged, Working
    <3>8. g \in Originals => task[g] = g
      BY DEF WorkFollows
    <3>9. g \notin Originals => task[g] = NoCard
      BY <3>7 DEF Carriers, Ids
    <3>10. \A c \in Originals : task'[c] = c
      BY <1>0, <3>4, <3>5 DEF WorkFollows, Ids
    <3>11. \A d \in Carriers' : d \in Carriers \/ (d = n /\ g \in Originals /\ task'[n] = g)
      BY <1>0, <3>4, <3>5, <3>8, <3>9 DEF Carriers
    <3>12. \A d \in Carriers : d \notin fold.group /\ task[d] \in Ids
      BY <1>0, <3>2, <3>6 DEF Carriers, WorkFollows, Working, Ids
    <3>13. ASSUME NEW d \in Carriers'
           PROVE  standsIn'[task'[d]] = d
      <4>1. CASE d = n
        <5>1. task'[d] \in Ids /\ (task'[d] = g)
          BY <1>0, <3>4, <3>5, <3>7, <3>8, <3>9, <3>13, <4>1 DEF Carriers
        <5> QED
          BY <3>1, <3>2, <3>7, <4>1, <5>1 DEF InPlace
      <4>2. CASE d # n
        <5>1. d \in Carriers /\ task'[d] = task[d] /\ d \in Ids
          BY <1>0, <3>5, <3>11, <4>2 DEF Carriers, Ids
        <5>2. standsIn[task[d]] = d
          BY <5>1 DEF WorkFollows
        <5> QED
          BY <3>2, <3>12, <5>1, <5>2 DEF InPlace
      <4> QED
        BY <4>1, <4>2
    <3>14. Carriers' \cap fold'.read = {}
      BY <3>2, <3>3, <3>4, <3>6, <3>11 DEF WorkFollows, Working
    <3>15. Merged' \cap fold'.read \subseteq fold'.used \cup fold'.group
      <4>1. ASSUME NEW c \in Merged', c \in fold.read, c \notin fold.group
            PROVE  c \in fold.used
        <5>1. c \in Ids /\ standsIn'[c] # c
          BY <4>1 DEF Merged
        <5>2. standsIn[c] # c
          BY <3>2, <4>1, <5>1 DEF InPlace
        <5> QED
          BY <3>2, <4>1, <5>1, <5>2 DEF WorkFollows, Merged
      <4> QED
        BY <3>3, <4>1
    <3>16. fold.groups < MaxGroups /\ MaxGroups > 0
      BY <1>0, <3>2 DEF WorkFollows, FoldState
    <3> QED
      BY <3>3, <3>10, <3>13, <3>14, <3>15, <3>16 DEF WorkFollows
  <2>4. CASE FoldNext
    <3>1. /\ fold.at = "linking" /\ UNCHANGED <<task, standsIn>>
          /\ fold' = [fold EXCEPT !.at = "folding", !.used = fold.used \cup fold.group,
                                  !.group = {}, !.groups = fold.groups + 1]
      BY <2>4 DEF FoldNext
    <3>2. /\ fold'.at = "folding" /\ fold'.read = fold.read
          /\ fold'.used = fold.used \cup fold.group
      BY <1>0, <3>1 DEF FoldState
    <3>3. Merged' = Merged /\ Carriers' = Carriers
      BY <3>1 DEF Merged, Carriers
    <3> QED
      BY <3>1, <3>2, <3>3 DEF WorkFollows, Working
  <2>5. CASE FoldEnds \/ FoldDies
    BY <2>5, WorkAfterFold DEF FoldEnds, FoldDies
  <2>6. ASSUME NEW group \in SUBSET Foldable, FoldTakes(group)
        PROVE  WorkFollows'
    <3>1. /\ fold.at = "folding" /\ fold.groups < MaxGroups /\ UNCHANGED <<task, standsIn>>
          /\ \E es : fold' = [fold EXCEPT !.at = "deleting", !.group = group, !.left = group,
                                          !.edges = es]
      BY <2>6 DEF FoldTakes
    <3>2. /\ fold'.at = "deleting" /\ fold'.read = fold.read /\ fold'.used = fold.used
          /\ fold'.groups = fold.groups
      BY <1>0, <3>1 DEF FoldState
    <3>3. Merged' = Merged /\ Carriers' = Carriers
      BY <3>1 DEF Merged, Carriers
    <3> QED
      BY <3>1, <3>2, <3>3 DEF WorkFollows, Working
  <2>7. ASSUME NEW c \in fold.left, FoldDeletes(c)
        PROVE  WorkFollows'
    <3>1. fold' = [fold EXCEPT !.left = fold.left \ {c}] /\ UNCHANGED <<task, standsIn>>
      BY <2>7 DEF FoldDeletes, DeleteRow
    <3> QED
      BY <1>0, <3>1, WorkStays DEF FoldState
  <2>8. ASSUME NEW e \in fold.edges, FoldLinks(e)
        PROVE  WorkFollows'
    <3>1. fold' = [fold EXCEPT !.edges = fold.edges \ {e}] /\ UNCHANGED <<task, standsIn>>
      BY <2>8 DEF FoldLinks, AddEdge
    <3> QED
      BY <1>0, <3>1, WorkStays DEF FoldState
  <2> QED
    BY <1>2, <2>1, <2>2, <2>3, <2>4, <2>5, <2>6, <2>7, <2>8 DEF Fold
<1>3. CASE Turn
  <2>1. CASE TurnCreates
    <3>1. /\ task' = [task EXCEPT ![NewId] = NoCard] /\ Unused # {}
          /\ UNCHANGED <<fold, standsIn>>
      BY <2>1 DEF TurnCreates, CreateRow, TurnWrites
    <3>2. NewId \in Fresh /\ NewId \in Ids /\ NewId \notin Originals
      BY <3>1, NewIdIs DEF Ids
    <3>3. /\ Merged' = Merged /\ Carriers' \subseteq Carriers
          /\ \A c \in Originals : task'[c] = task[c]
          /\ \A d \in Carriers' : task'[d] = task[d]
      BY <1>0, <3>1, <3>2 DEF Merged, Carriers, Ids
    <3> QED
      BY <3>1, <3>3 DEF WorkFollows
  <2>2. CASE UNCHANGED <<task, standsIn, fold>>
    BY <2>2, WorkStays
  <2> QED
    BY <1>3, <2>1, <2>2 DEF Turn, TurnStarts, TurnLooks, TurnEnds, TurnDies, TurnLinks, AddEdge,
      TurnWrites
<1>4. CASE Runs \/ UNCHANGED vars
  <2>1. /\ UNCHANGED <<task, standsIn>>
        /\ \/ fold' = fold
           \/ \E s : fold' = [fold EXCEPT !.since = s]
    BY <1>4 DEF Runs, TickStarts, RunBegins, RunEnds, vars
  <2> QED
    BY <1>0, <2>1, WorkStays DEF FoldState
<1>5. CASE Crash
  <2>1. /\ UNCHANGED <<task, standsIn>>
        /\ fold' = [NoFold EXCEPT !.groups = IF fold.at = "idle" THEN fold.groups ELSE MaxGroups]
    BY <1>5 DEF Crash
  <2>2. CASE fold.at = "idle"
    <3>1. fold'.at = "idle" /\ fold'.groups = fold.groups
      BY <2>1, <2>2 DEF NoFold
    <3>2. Merged' = Merged /\ Carriers' = Carriers
      BY <2>1 DEF Merged, Carriers
    <3> QED
      BY <2>1, <2>2, <3>1, <3>2 DEF WorkFollows, Working
  <2> QED
    BY <2>1, <2>2, WorkAfterFold
<1> QED
  BY <1>1, <1>2, <1>3, <1>4, <1>5 DEF Next

\* Whatever a fold, a crash in it and the operator's undo do: what became of a card of the board
\* can be found (delete_card, restore_card, _fold)
THEOREM WorkHeld == Spec => []WorkIsNotLost
<1>1. Init => WorkFollows
  <2> SUFFICES ASSUME Init PROVE WorkFollows
    OBVIOUS
  <2>1. /\ task = [c \in Ids |-> IF c \in Originals THEN c ELSE NoCard]
        /\ standsIn = [c \in Ids |-> c] /\ fold = NoFold
    BY DEF Init
  <2>2. Merged = {} /\ Carriers = {}
    BY <2>1 DEF Merged, Carriers, Ids
  <2> QED
    BY <2>1, <2>2 DEF WorkFollows, NoFold, Working, Ids
<1>2. CoreInv /\ NamesInv /\ WorkFollows /\ [Next]_vars => WorkFollows'
  BY WorkKept
<1>3. CoreInv /\ NamesInv /\ WorkFollows => WorkIsNotLost
  <2> SUFFICES ASSUME CoreInv, NamesInv, WorkFollows, NEW c \in Originals, c \notin OnBoard
               PROVE  \E b \in backups : b.card = c /\ (~Taken(b) \/ standsIn[c] \in OnBoard)
    BY DEF WorkIsNotLost
  <2>1. PICK b \in backups : b.card = c
    BY DEF NamesInv, NamesKnown, Known
  <2>2. ASSUME Taken(b)
        PROVE  standsIn[c] \in OnBoard
    <3>1. task[c] = c /\ c # NoCard /\ c \in Ids
      BY DEF WorkFollows, Ids
    <3>2. PICK d \in OnBoard : task[d] = c
      BY <2>1, <2>2, <3>1 DEF Taken, MayCarry
    <3>3. d \in Ids /\ d # c
      BY <3>2 DEF OnBoard
    <3>4. d \notin Originals
      BY <3>2, <3>3 DEF WorkFollows
    <3>5. d \in Carriers
      BY <3>1, <3>2, <3>3, <3>4 DEF Carriers, Ids
    <3> QED
      BY <3>2, <3>5 DEF WorkFollows
  <2> QED
    BY <2>1, <2>2
<1>4. Spec => [](CoreInv /\ NamesInv)
  BY OrderAlways, PTL
<1> QED
  BY <1>1, <1>2, <1>3, <1>4, PTL DEF Spec

\* A card that runs was in doing from the start, so it is none a fold reads
RunsKnown ==
  \A c \in Ids : live[c] = "running" =>
     /\ status[c] = "doing" \/ \E b \in backups : b.card = c /\ b.status = "doing"
     /\ fold.at \in Working /\ c \in fold.read => c \in fold.since

\* Every step keeps that
LEMMA RunsKept ==
  ASSUME CoreInv, NamesInv, RunsKnown, [Next]_vars
  PROVE  RunsKnown'
<1> DEFINE Doing(c) == status[c] = "doing" \/ \E b \in backups : b.card = c /\ b.status = "doing"
           Spared(c) == fold.at \in Working /\ c \in fold.read => c \in fold.since
<1>0. /\ RowInv /\ fold \in FoldState /\ live \in [Ids -> {"no", "starting", "running"}]
      /\ status \in [Ids -> Statuses \cup {"none"}]
  BY DEF CoreInv, RowInv
<1>1. \A c \in Ids : live[c] = "running" => Doing(c) /\ Spared(c)
  BY DEF RunsKnown
<1>2. ASSUME live' = live, \A c \in Ids : Doing(c) => Doing(c)',
             \A c \in Ids : Doing(c) /\ Spared(c) => Spared(c)'
      PROVE  RunsKnown'
  <2>1. ASSUME NEW c \in Ids, live'[c] = "running"
        PROVE  Doing(c)' /\ Spared(c)'
    BY <1>1, <1>2, <2>1
  <2> QED
    BY <2>1 DEF RunsKnown
<1>3. UNCHANGED <<status, backups>> => \A c \in Ids : Doing(c) => Doing(c)'
  OBVIOUS
<1>4. fold' = fold => \A c \in Ids : Spared(c) => Spared(c)'
  OBVIOUS
<1>5. ASSUME NEW c \in OnBoard, NEW es, DeleteRow(c, es)
      PROVE  \A d \in Ids : Doing(d) => Doing(d)'
  <2>1. /\ backups' = backups \cup {[card |-> c, status |-> status[c], deps |-> Touching(c, es)]}
        /\ status' = [status EXCEPT ![c] = "none"]
    BY <1>5 DEF DeleteRow
  <2>2. \A d \in Ids \ {c} : status'[d] = status[d]
    BY <1>0, <2>1
  <2>3. status[c] = "doing" => \E b \in backups' : b.card = c /\ b.status = "doing"
    <3>1. [card |-> c, status |-> status[c], deps |-> Touching(c, es)] \in backups'
      BY <2>1
    <3> QED
      BY <3>1
  <2> QED
    BY <2>1, <2>2, <2>3
<1>6. ASSUME NEW c \in Fresh, status[c] = "none", NEW t, CreateRow(c, t)
      PROVE  \A d \in Ids : Doing(d) => Doing(d)'
  <2>1. backups' = backups /\ \A d \in Ids : status[d] = "doing" => status'[d] = "doing"
    BY <1>0, <1>6 DEF CreateRow
  <2> QED
    BY <2>1
<1>7. CASE Operator
  <2>1. live' = live /\ fold' = fold
    BY <1>7 DEF Operator, PatchChecked, PatchWritten, Delete, Restore, Accept
  <2>2. ASSUME NEW c \in Ids, Delete(c)
        PROVE  RunsKnown'
    BY <1>2, <1>4, <1>5, <2>1, <2>2 DEF Delete
  <2>3. ASSUME NEW b \in backups, Restore(b)
        PROVE  RunsKnown'
    <3>1. CASE Taken(b)
      BY <1>2, <1>3, <1>4, <2>1, <2>3, <3>1 DEF Restore
    <3>2. CASE ~Taken(b)
      <4>1. /\ status' = [status EXCEPT ![b.card] = b.status] /\ backups' = backups \ {b}
            /\ b.card \in Ids /\ b.card \notin OnBoard
        BY <1>0, <2>3, <3>2 DEF Restore, RowInv, Backup
      <4>2. ASSUME NEW d \in Ids, Doing(d)
            PROVE  Doing(d)'
        <5>1. CASE d = b.card
          <6>1. status[d] = "none"
            BY <4>1, <5>1 DEF OnBoard
          <6>2. b.status = "doing"
            BY <1>0, <4>2, <5>1, <6>1 DEF RowInv
          <6> QED
            BY <1>0, <4>1, <5>1, <6>2
        <5>2. CASE d # b.card
          BY <1>0, <4>1, <4>2, <5>2
        <5> QED
          BY <5>1, <5>2
      <4> QED
        BY <1>2, <1>4, <2>1, <4>2
    <3> QED
      BY <3>1, <3>2
  <2>4. ASSUME NEW c \in Ids, Accept(c)
        PROVE  RunsKnown'
    <3>1. /\ status[c] = "blocked" /\ status' = [status EXCEPT ![c] = "accepted"]
          /\ backups' = backups
      BY <2>4 DEF Accept
    <3>2. \A d \in Ids : Doing(d) => Doing(d)'
      BY <1>0, <3>1
    <3> QED
      BY <1>2, <1>4, <2>1, <3>2
  <2>5. CASE UNCHANGED <<status, backups>>
    BY <1>2, <1>3, <1>4, <2>1, <2>5
  <2> QED
    BY <1>7, <2>2, <2>3, <2>4, <2>5 DEF Operator, PatchChecked, PatchWritten
<1>8. CASE Fold
  <2>1. live' = live
    BY <1>8 DEF Fold, FoldStarts, FoldReads, FoldCreates, FoldWrites, FoldNext, FoldEnds, FoldDies,
      FoldTakes, FoldDeletes, FoldLinks
  <2>2. ASSUME \/ fold'.at = fold.at /\ fold'.read = fold.read /\ fold'.since = fold.since
               \/ fold'.at \notin Working
               \/ /\ fold.at \in Working /\ fold'.read = fold.read /\ fold'.since = fold.since
        PROVE  \A c \in Ids : Spared(c) => Spared(c)'
    BY <2>2
  <2>3. CASE FoldReads
    <3>1. UNCHANGED rows
      BY <2>3 DEF FoldReads
    <3>2. ASSUME NEW c \in Ids, live[c] = "running"
          PROVE  c \notin Todo
      BY <1>0, <1>1, <3>2 DEF Todo, OnBoard, RowInv
    <3>3. CASE fold' = [fold EXCEPT !.at = "folding", !.read = Todo]
      <4>1. fold'.read = Todo
        BY <1>0, <3>3 DEF FoldState
      <4>2. ASSUME NEW c \in Ids, live'[c] = "running"
            PROVE  Doing(c)' /\ Spared(c)'
        BY <1>1, <2>1, <3>1, <3>2, <4>1, <4>2
      <4> QED
        BY <4>2 DEF RunsKnown
    <3>4. CASE fold' = [NoFold EXCEPT !.groups = MaxGroups]
      <4>1. fold'.at \notin Working
        BY <3>4 DEF NoFold, Working
      <4> QED
        BY <1>2, <1>3, <2>1, <2>2, <3>1, <4>1
    <3> QED
      BY <2>3, <3>3, <3>4 DEF FoldReads
  <2>4. CASE FoldStarts
    <3>1. fold'.at \notin Working
      BY <1>0, <2>4 DEF FoldStarts, FoldState, Working
    <3> QED
      BY <1>2, <1>3, <2>1, <2>2, <2>4, <3>1 DEF FoldStarts
  <2>5. CASE FoldEnds \/ FoldDies
    <3>1. fold'.at \notin Working
      BY <2>5 DEF FoldEnds, FoldDies, NoFold, Working
    <3> QED
      BY <1>2, <1>3, <2>1, <2>2, <2>5, <3>1 DEF FoldEnds, FoldDies
  <2>6. CASE FoldNext \/ \E group \in SUBSET Foldable : FoldTakes(group)
    <3>1. fold.at \in Working /\ fold'.read = fold.read /\ fold'.since = fold.since
      BY <1>0, <2>6 DEF FoldNext, FoldTakes, FoldState, Working
    <3> QED
      BY <1>2, <1>3, <2>1, <2>2, <2>6, <3>1 DEF FoldNext, FoldTakes
  <2>7. CASE FoldCreates
    <3>1. fold.at \in Working /\ fold'.read = fold.read /\ fold'.since = fold.since
      BY <1>0, <2>7 DEF FoldCreates, FoldState, Working
    <3>2. PICK c \in fold.group : CreateRow(NewId, task[c])
      BY <2>7 DEF FoldCreates
    <3>3. NewId \in Fresh /\ status[NewId] = "none"
      BY <2>7, NewIdIs DEF FoldCreates
    <3> QED
      BY <1>2, <1>6, <2>1, <2>2, <3>1, <3>2, <3>3
  <2>8. ASSUME NEW c \in fold.left, FoldDeletes(c)
        PROVE  RunsKnown'
    <3>1. fold.at \in Working /\ fold'.read = fold.read /\ fold'.since = fold.since
      BY <1>0, <2>8 DEF FoldDeletes, FoldState, Working
    <3> QED
      BY <1>2, <1>5, <2>1, <2>2, <2>8, <3>1 DEF FoldDeletes
  <2>9. ASSUME NEW e \in fold.edges, FoldLinks(e)
        PROVE  RunsKnown'
    <3>1. fold.at \in Working /\ fold'.read = fold.read /\ fold'.since = fold.since
      BY <1>0, <2>9 DEF FoldLinks, FoldState, Working
    <3> QED
      BY <1>2, <1>3, <2>1, <2>2, <2>9, <3>1 DEF FoldLinks, AddEdge
  <2> QED
    BY <1>8, <2>3, <2>4, <2>5, <2>6, <2>7, <2>8, <2>9 DEF Fold
<1>9. CASE Turn
  <2>1. live' = live /\ fold' = fold
    BY <1>9 DEF Turn, TurnStarts, TurnCreates, TurnWrites, TurnLooks, TurnLinks, TurnEnds, TurnDies
  <2>2. CASE TurnCreates
    <3>1. Unused # {} /\ CreateRow(NewId, NoCard)
      BY <2>2 DEF TurnCreates
    <3>2. NewId \in Fresh /\ status[NewId] = "none"
      BY <3>1, NewIdIs
    <3> QED
      BY <1>2, <1>4, <1>6, <2>1, <3>1, <3>2
  <2>3. CASE UNCHANGED <<status, backups>>
    BY <1>2, <1>3, <1>4, <2>1, <2>3
  <2> QED
    BY <1>9, <2>2, <2>3 DEF Turn, TurnStarts, TurnLooks, TurnEnds, TurnDies, TurnLinks, AddEdge
<1>10. CASE Runs
  <2>1. ASSUME NEW c \in Ids, TickStarts(c)
        PROVE  RunsKnown'
    <3>1. \A d \in Ids : live'[d] = "running" => live[d] = "running"
      BY <1>0, <2>1 DEF TickStarts
    <3>2. UNCHANGED <<status, backups, fold>>
      BY <2>1 DEF TickStarts
    <3> QED
      BY <1>1, <3>1, <3>2 DEF RunsKnown
  <2>2. ASSUME NEW c \in Ids, RunBegins(c), status' = [status EXCEPT ![c] = "doing"]
        PROVE  RunsKnown'
    <3>1. /\ backups' = backups /\ live[c] = "starting"
          /\ \/ live' = [live EXCEPT ![c] = "running"]
             \/ live' = [live EXCEPT ![c] = "no"]
      BY <2>2 DEF RunBegins
    <3>2. ASSUME NEW d \in Ids, live'[d] = "running"
          PROVE  Doing(d)'
      <4>1. d # c => live[d] = "running"
        BY <1>0, <3>1, <3>2
      <4> QED
        BY <1>0, <1>1, <2>2, <3>1, <4>1
    <3>3. ASSUME NEW d \in Ids, live'[d] = "running"
          PROVE  Spared(d)'
      <4>1. CASE status[c] # "none" /\ live'[c] = "running"
        <5>1. fold' = [fold EXCEPT !.since = IF fold.at \in {"idle", "thinking"} THEN {}
                                             ELSE fold.since \cup {c}]
          BY <1>0, <2>2, <4>1 DEF RunBegins
        <5>2. /\ fold'.at = fold.at /\ fold'.read = fold.read
              /\ fold.at \in Working => fold'.since = fold.since \cup {c}
          BY <1>0, <5>1 DEF FoldState, Working
        <5> HIDE DEF Working
        <5> QED
          BY <1>0, <1>1, <3>1, <3>3, <5>2
      <4>2. CASE live'[c] # "running"
        <5>1. fold' = fold
          BY <1>0, <2>2, <4>2 DEF RunBegins
        <5>2. live[d] = "running"
          BY <1>0, <3>1, <3>3, <4>2
        <5> QED
          BY <1>1, <5>1, <5>2
      <4>3. live'[c] = "running" => status[c] # "none"
        BY <1>0, <2>2 DEF RunBegins
      <4> QED
        BY <4>1, <4>2, <4>3
    <3> QED
      BY <3>2, <3>3 DEF RunsKnown
  <2>3. ASSUME NEW c \in Ids, RunBegins(c) \/ RunEnds(c), live' = [live EXCEPT ![c] = "no"],
               status' = status \/ status' = [status EXCEPT ![c] = "blocked"], fold' = fold
        PROVE  RunsKnown'
    <3>1. backups' = backups
      BY <2>3 DEF RunBegins, RunEnds
    <3>2. \A d \in Ids : live'[d] = "running" => live[d] = "running" /\ d # c
      BY <1>0, <2>3
    <3>3. \A d \in Ids \ {c} : status'[d] = status[d]
      BY <1>0, <2>3
    <3> QED
      BY <1>1, <2>3, <3>1, <3>2, <3>3 DEF RunsKnown
  <2> QED
    BY <1>10, <2>1, <2>2, <2>3 DEF Runs, RunBegins, RunEnds
<1>11. CASE Crash
  <2>1. \A c \in Ids : live'[c] # "running"
    BY <1>11 DEF Crash
  <2> QED
    BY <2>1 DEF RunsKnown
<1>12. CASE UNCHANGED vars
  BY <1>1, <1>12 DEF vars, RunsKnown
<1> QED
  BY <1>7, <1>8, <1>9, <1>10, <1>11, <1>12 DEF Next

\* A fold takes no card whose run had begun when it read the board (run_fold_turn, _fold)
THEOREM RunsAreSpared == Spec => FoldSparesRuns
<1>1. Init => RunsKnown
  BY DEF Init, RunsKnown
<1>2. CoreInv /\ NamesInv /\ RunsKnown /\ [Next]_vars => RunsKnown'
  BY RunsKept
<1>3. CoreInv /\ NamesInv /\ RunsKnown /\ [Next]_vars =>
        [\A c \in fold.left \ fold'.left :
           live[c] = "running" /\ fold'.at = "deleting" => c \in fold.since]_vars
  <2> SUFFICES ASSUME CoreInv, NamesInv, RunsKnown, NEW c \in fold.left, live[c] = "running"
               PROVE  c \in fold.since
    OBVIOUS
  <2>1. c \in Ids /\ c \in fold.read /\ fold.at = "deleting"
    BY DEF CoreInv, FoldState, NamesInv, InStep
  <2> QED
    BY <2>1 DEF RunsKnown, Working
<1>4. Spec => [](CoreInv /\ NamesInv)
  BY OrderAlways, PTL
<1> QED
  BY <1>1, <1>2, <1>3, <1>4, PTL DEF Spec, FoldSparesRuns
=============================================================================
