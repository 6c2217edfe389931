------------------------ MODULE MergeBodyEdgesProofs ------------------------
(***************************************************************************)
(* The safety properties of MergeBodyEdges, for any set of libraries, any  *)
(* .deps files found and any list of candidates.                           *)
(***************************************************************************)
EXTENDS MergeBodyEdges, TLAPS, WellFoundedInduction

\* A set of naturals with 0 and every successor of a member holds them all.
LEMMA SetInduction ==
  ASSUME NEW S \in SUBSET Nat, 0 \in S, \A n \in S : n + 1 \in S
  PROVE  S = Nat
  <1> SUFFICES ASSUME Nat \ S # {} PROVE FALSE
    OBVIOUS
  <1>1. PICK n \in Nat \ S : \A m \in Nat \ S : ~(<<m, n>> \in OpToRel(<, Nat))
    BY NatLessThanWellFounded, WFMin
  <1>2. \A m \in Nat \ S : ~(m < n)
    BY <1>1 DEF OpToRel
  <1>3. n # 0 /\ n - 1 \in Nat
    OBVIOUS
  <1>4. n - 1 \in S
    BY <1>2, <1>3
  <1>5. (n - 1) + 1 \in S
    BY <1>4
  <1> QED
    BY <1>5

\* A graph made step by step exists, and the steps say what it is.
LEMMA Stepwise ==
  ASSUME NEW base \in Graphs, NEW k \in Nat, NEW step \in [1..k -> [Graphs -> Graphs]]
  PROVE  \E f \in [0..k -> Graphs] :
           \A n \in 0..k : f[n] = IF n = 0 THEN base ELSE step[n][f[n - 1]]
  <1> DEFINE Is(m, f) == \A n \in 0..m : f[n] = IF n = 0 THEN base ELSE step[n][f[n - 1]]
             D == {m \in Nat : m <= k => \E f \in [0..m -> Graphs] : Is(m, f)}
  <1>1. 0 \in D
    <2> DEFINE g == [n \in 0..0 |-> base]
    <2>1. g \in [0..0 -> Graphs] /\ Is(0, g)
      OBVIOUS
    <2> QED
      BY <2>1
  <1>2. ASSUME NEW m \in D PROVE m + 1 \in D
    <2>0. m \in Nat /\ m + 1 \in Nat
      OBVIOUS
    <2> SUFFICES ASSUME m + 1 <= k PROVE \E f \in [0..(m + 1) -> Graphs] : Is(m + 1, f)
      <3> HIDE DEF Is
      <3> QED
        BY <2>0
    <2>1. PICK h \in [0..m -> Graphs] : Is(m, h)
      OBVIOUS
    <2> DEFINE g == [n \in 0..(m + 1) |-> IF n = m + 1 THEN step[n][h[m]] ELSE h[n]]
    <2>2. \A n \in 0..m : g[n] = h[n]
      OBVIOUS
    <2>3. g[m + 1] = step[m + 1][h[m]] /\ step[m + 1][h[m]] \in Graphs
      OBVIOUS
    <2>4. g \in [0..(m + 1) -> Graphs]
      BY <2>3
    <2>5. ASSUME NEW n \in 0..(m + 1)
          PROVE  g[n] = IF n = 0 THEN base ELSE step[n][g[n - 1]]
      <3>1. CASE n = m + 1
        <4>1. n # 0 /\ n - 1 = m /\ m \in 0..m
          BY <3>1
        <4> HIDE DEF g
        <4> QED
          BY <2>2, <2>3, <3>1, <4>1
      <3>2. CASE n # m + 1
        <4>1. n \in 0..m /\ (n # 0 => n - 1 \in 0..m)
          BY <3>2
        <4>2. h[n] = IF n = 0 THEN base ELSE step[n][h[n - 1]]
          BY <4>1, <2>1
        <4> HIDE DEF g, Is
        <4> QED
          BY <2>2, <4>1, <4>2
      <3> QED
        BY <3>1, <3>2
    <2> HIDE DEF g
    <2>6. Is(m + 1, g)
      BY <2>4, <2>5
    <2> QED
      BY <2>4, <2>6
  <1> HIDE DEF D
  <1>3. D = Nat
    <2>1. D \in SUBSET Nat
      BY DEF D
    <2> QED
      BY <1>1, <1>2, <2>1, SetInduction
  <1>4. k \in D /\ k <= k
    BY <1>3
  <1> QED
    BY <1>4 DEF D

\* A graph with more edges reaches what the smaller one reaches.
LEMMA ReachableMonotone ==
  ASSUME NEW g \in Graphs, NEW h \in Graphs, \A l \in Libs : g[l] \subseteq h[l],
         NEW a \in Libs, NEW b \in Libs, Reachable(g, a, b)
  PROVE  Reachable(h, a, b)
  BY DEF Reachable, Closed, Graphs

\* Taking edges away closes no circle.
LEMMA AcyclicMonotone ==
  ASSUME NEW g \in Graphs, NEW h \in Graphs, \A l \in Libs : g[l] \subseteq h[l],
         Acyclic(h)
  PROVE  Acyclic(g)
  <1> SUFFICES ASSUME NEW l \in Libs, NEW m \in g[l], Reachable(g, m, l)
               PROVE  FALSE
    BY DEF Acyclic
  <1>1. m \in Libs /\ m \in h[l]
    BY DEF Graphs
  <1>2. Reachable(h, m, l)
    BY <1>1, ReachableMonotone
  <1> QED
    BY <1>1, <1>2 DEF Acyclic

\* What AddEdge makes of a graph.
LEMMA AddEdgeShape ==
  ASSUME NEW g \in Graphs, NEW lib \in Libs, NEW home \in Libs
  PROVE  /\ AddEdge(g, lib, home) \in Graphs
         /\ AddEdge(g, lib, home)[lib] = g[lib] \cup {home}
         /\ \A l \in Libs \ {lib} : AddEdge(g, lib, home)[l] = g[l]
         /\ \A l \in Libs : g[l] \subseteq AddEdge(g, lib, home)[l]
  BY DEF AddEdge, Graphs

\* An edge makes its end reachable.
LEMMA EdgeReaches ==
  ASSUME NEW g \in Graphs, NEW a \in Libs, NEW b \in g[a]
  PROVE  Reachable(g, a, b)
  BY DEF Reachable, Closed, Graphs

(***************************************************************************)
(* An edge from lib to a home that does not reach lib closes no circle.  A *)
(* closed set T holds home but not lib.  For an edge a -> b there was, for *)
(* g, a closed set S with b but without a: S, or its union or intersection *)
(* with T, is still closed when the edge has been added.                   *)
(***************************************************************************)
LEMMA AddEdgeAcyclic ==
  ASSUME NEW g \in Graphs, Acyclic(g),
         NEW lib \in Libs, NEW home \in Libs, ~Reachable(g, home, lib)
  PROVE  Acyclic(AddEdge(g, lib, home))
  <1> DEFINE n == AddEdge(g, lib, home)
  <1>0. /\ n \in Graphs
        /\ n[lib] = g[lib] \cup {home}
        /\ \A l \in Libs \ {lib} : n[l] = g[l]
    BY AddEdgeShape
  <1>1. PICK T \in SUBSET Libs : home \in T /\ Closed(g, T) /\ lib \notin T
    BY DEF Reachable
  <1>2. SUFFICES ASSUME NEW a \in Libs, NEW b \in n[a]
                 PROVE  \E S \in SUBSET Libs : b \in S /\ Closed(n, S) /\ a \notin S
    BY <1>2 DEF Acyclic, Reachable
  <1> HIDE DEF n
  <1>3. CASE b \notin g[a]
    <2>1. a = lib /\ b = home
      BY <1>0, <1>2, <1>3 DEF Graphs
    <2>2. Closed(n, T)
      BY <1>0, <1>1 DEF Closed
    <2> QED
      BY <1>1, <2>1, <2>2
  <1>4. CASE b \in g[a]
    <2>1. b \in Libs
      BY <1>4 DEF Graphs
    <2>2. PICK S \in SUBSET Libs : b \in S /\ Closed(g, S) /\ a \notin S
      BY <1>4, <2>1 DEF Acyclic, Reachable
    <2>3. CASE lib \notin S
      <3>1. Closed(n, S)
        BY <1>0, <2>2, <2>3 DEF Closed
      <3> QED
        BY <2>2, <3>1
    <2>4. CASE a \notin T
      <3>1. Closed(n, S \cup T)
        BY <1>0, <1>1, <2>2 DEF Closed
      <3>2. b \in S \cup T /\ a \notin S \cup T /\ S \cup T \in SUBSET Libs
        BY <1>1, <2>2, <2>4
      <3> QED
        BY <3>1, <3>2
    <2>5. CASE a \in T
      <3>1. b \in T
        BY <1>1, <1>4, <2>5 DEF Closed
      <3>2. Closed(n, S \cap T)
        BY <1>0, <1>1, <2>2 DEF Closed
      <3>3. b \in S \cap T /\ a \notin S \cap T /\ S \cap T \in SUBSET Libs
        BY <1>1, <2>2, <3>1
      <3> QED
        BY <3>2, <3>3
    <2> QED
      BY <2>4, <2>5
  <1> QED
    BY <1>3, <1>4

\* A candidate that is considered is served by the graph that results.
LEMMA ConsiderServes ==
  ASSUME NEW g \in Graphs, NEW lib \in Libs, NEW home \in Libs
  PROVE  /\ Consider(g, lib, home) \in Graphs
         /\ \A l \in Libs : g[l] \subseteq Consider(g, lib, home)[l]
         /\ \/ lib = home
            \/ Reachable(Consider(g, lib, home), lib, home)
            \/ Reachable(Consider(g, lib, home), home, lib)
  <1>1. CASE Wanted(g, lib, home)
    <2>1. Consider(g, lib, home) = AddEdge(g, lib, home)
      BY <1>1 DEF Consider
    <2>2. home \in AddEdge(g, lib, home)[lib]
      BY AddEdgeShape
    <2>3. Reachable(AddEdge(g, lib, home), lib, home)
      BY <2>2, AddEdgeShape, EdgeReaches
    <2> QED
      BY <2>1, <2>3, AddEdgeShape
  <1>2. CASE ~Wanted(g, lib, home)
    <2>1. Consider(g, lib, home) = g
      BY <1>2 DEF Consider
    <2>2. \/ lib = home
          \/ Reachable(g, lib, home)
          \/ Reachable(g, home, lib)
      BY <1>2, EdgeReaches DEF Wanted
    <2> QED
      BY <2>1, <2>2
  <1> QED
    BY <1>1, <1>2

\* h completes g with edges among those of wanted, and serves all of these.
Completed(h, g, wanted) ==
  /\ h \in Graphs
  /\ Acyclic(g) => Acyclic(h)
  /\ \A l \in Libs : /\ g[l] \subseteq h[l]
                     /\ \A m \in h[l] \ g[l] : <<l, m>> \in wanted /\ ~Reachable(g, l, m)
  /\ \A c \in wanted : \/ c[1] = c[2]
                       \/ Reachable(h, c[1], c[2])
                       \/ Reachable(h, c[2], c[1])

\* One more candidate leaves a completion, with that candidate wanted as well.
LEMMA ConsiderCompletes ==
  ASSUME NEW g \in Graphs, NEW h, NEW wanted \in SUBSET (Libs \X Libs), Completed(h, g, wanted),
         NEW lib \in Libs, NEW home \in Libs
  PROVE  Completed(Consider(h, lib, home), g, wanted \cup {<<lib, home>>})
  <1> DEFINE n == Consider(h, lib, home)
  <1>1. h \in Graphs
    BY DEF Completed
  <1>2. /\ n \in Graphs
        /\ \A l \in Libs : h[l] \subseteq n[l]
        /\ lib = home \/ Reachable(n, lib, home) \/ Reachable(n, home, lib)
    BY <1>1, ConsiderServes
  <1>3. Acyclic(g) => Acyclic(n)
    <2> SUFFICES ASSUME Acyclic(g) PROVE Acyclic(n)
      OBVIOUS
    <2>1. Acyclic(h)
      BY DEF Completed
    <2>2. CASE Wanted(h, lib, home)
      <3>1. ~Reachable(h, home, lib) /\ n = AddEdge(h, lib, home)
        BY <2>2 DEF Wanted, Consider
      <3> QED
        BY <1>1, <2>1, <3>1, AddEdgeAcyclic
    <2>3. CASE ~Wanted(h, lib, home)
      BY <2>1, <2>3 DEF Consider
    <2> QED
      BY <2>2, <2>3
  <1>4. ASSUME NEW l \in Libs
        PROVE  /\ g[l] \subseteq n[l]
               /\ \A m \in n[l] \ g[l] :
                    <<l, m>> \in wanted \cup {<<lib, home>>} /\ ~Reachable(g, l, m)
    <2>1. /\ g[l] \subseteq h[l]
          /\ \A m \in h[l] \ g[l] : <<l, m>> \in wanted /\ ~Reachable(g, l, m)
      BY DEF Completed
    <2>2. ASSUME NEW m \in n[l] \ g[l], m \notin h[l]
          PROVE  <<l, m>> = <<lib, home>> /\ ~Reachable(g, l, m)
      <3>1. Wanted(h, lib, home) /\ n = AddEdge(h, lib, home)
        BY <2>2 DEF Consider
      <3>2. l = lib /\ m = home
        <4>1. /\ AddEdge(h, lib, home)[lib] = h[lib] \cup {home}
              /\ \A x \in Libs \ {lib} : AddEdge(h, lib, home)[x] = h[x]
          BY <1>1, AddEdgeShape
        <4> QED
          BY <2>2, <3>1, <4>1
      <3>3. ~Reachable(h, l, m)
        BY <3>1, <3>2 DEF Wanted
      <3>4. \A x \in Libs : g[x] \subseteq h[x]
        BY DEF Completed
      <3> QED
        BY <1>1, <3>2, <3>3, <3>4, ReachableMonotone
    <2> QED
      BY <1>2, <2>1, <2>2
  <1>5. ASSUME NEW c \in wanted \cup {<<lib, home>>}
        PROVE  c[1] = c[2] \/ Reachable(n, c[1], c[2]) \/ Reachable(n, c[2], c[1])
    <2>1. CASE c \in wanted
      <3>1. c[1] \in Libs /\ c[2] \in Libs
        BY <2>1
      <3>2. c[1] = c[2] \/ Reachable(h, c[1], c[2]) \/ Reachable(h, c[2], c[1])
        BY <2>1 DEF Completed
      <3> QED
        BY <1>1, <1>2, <3>1, <3>2, ReachableMonotone
    <2>2. CASE c = <<lib, home>>
      BY <1>2, <2>2
    <2> QED
      BY <2>1, <2>2
  <1> HIDE DEF n
  <1>6. Completed(n, g, wanted \cup {<<lib, home>>})
    BY <1>2, <1>3, <1>4, <1>5 DEF Completed
  <1> QED
    BY <1>6 DEF n
-----------------------------------------------------------------------------
\* Type correctness, for any libraries and candidates.
THEOREM TypeCorrect == Spec => []TypeOK
  <1>1. Init => TypeOK
    <2> SUFFICES ASSUME Init PROVE TypeOK
      OBVIOUS
    <2>1. todo \in Seq(Libs \X Libs)
      BY CandidatesAssumption DEF Init
    <2>2. added \in Seq(Libs)
      BY DEF Init
    <2> QED
      BY <2>1, <2>2 DEF Init, TypeOK
  <1>2. TypeOK /\ [Next]_mergeVars => TypeOK'
    <2> SUFFICES ASSUME TypeOK, [Next]_mergeVars PROVE TypeOK'
      OBVIOUS
    <2>1. CASE Decide
      <3> DEFINE lib == Head(todo)[1]
                 home == Head(todo)[2]
      <3>1. todo # << >> /\ todo \in Seq(Libs \X Libs)
        BY <2>1 DEF Decide, TypeOK
      <3>2. Head(todo) \in Libs \X Libs /\ todo' \in Seq(Libs \X Libs)
        BY <2>1, <3>1 DEF Decide
      <3>3. lib \in Libs /\ home \in Libs
        BY <3>2
      <3>4. graph' \in Graphs
        <4>1. Consider(graph, lib, home) \in Graphs
          BY <3>3, ConsiderServes DEF TypeOK
        <4> QED
          BY <2>1, <4>1 DEF Decide
      <3>5. added' \in Seq(Libs)
        <4>1. added' = added \/ added' = Append(added, lib)
          BY <2>1 DEF Decide
        <4> QED
          BY <3>3, <4>1 DEF TypeOK
      <3>6. decided' \subseteq Libs \X Libs
        BY <2>1, <3>2 DEF Decide, TypeOK
      <3>7. found' \in Graphs /\ disk' \in Graphs
        BY <2>1 DEF Decide, TypeOK
      <3> QED
        BY <3>2, <3>4, <3>5, <3>6, <3>7 DEF TypeOK
    <2>2. CASE Rewrite
      <3>1. added # << >> /\ added \in Seq(Libs)
        BY <2>2 DEF Rewrite, TypeOK
      <3>2. Head(added) \in Libs /\ added' \in Seq(Libs)
        BY <2>2, <3>1 DEF Rewrite
      <3>3. disk' \in Graphs
        BY <2>2, <3>2 DEF Rewrite, TypeOK, Graphs
      <3> QED
        BY <2>2, <3>2, <3>3 DEF Rewrite, TypeOK
    <2>3. CASE UNCHANGED mergeVars
      BY <2>3 DEF TypeOK, mergeVars
    <2> QED
      BY <2>1, <2>2, <2>3 DEF Next
  <1> QED
    BY <1>1, <1>2, PTL DEF Spec

\* The inductive invariant: the graph in memory completes the one found with the
\* candidates decided, and the disk lies between the two.
IInv ==
  /\ TypeOK
  /\ Completed(graph, found, decided)
  /\ \A l \in Libs : found[l] \subseteq disk[l] /\ disk[l] \subseteq graph[l]

LEMMA IInvInit == Init => IInv
  <1> SUFFICES ASSUME Init PROVE IInv
    OBVIOUS
  <1>1. TypeOK
    <2>1. todo \in Seq(Libs \X Libs) /\ added \in Seq(Libs)
      BY CandidatesAssumption DEF Init
    <2> QED
      BY <2>1 DEF Init, TypeOK
  <1>2. Completed(graph, found, decided)
    BY DEF Init, Completed
  <1> QED
    BY <1>1, <1>2 DEF Init, IInv

LEMMA IInvDecide == TypeOK' /\ IInv /\ Decide => IInv'
  <1> SUFFICES ASSUME TypeOK', IInv, Decide PROVE IInv'
    OBVIOUS
  <1> DEFINE lib == Head(todo)[1]
             home == Head(todo)[2]
  <1>1. /\ found' = found /\ disk' = disk
        /\ graph' = Consider(graph, lib, home)
        /\ decided' = decided \cup {Head(todo)}
    BY DEF Decide
  <1>2. /\ graph \in Graphs /\ found \in Graphs
        /\ decided \in SUBSET (Libs \X Libs) /\ Completed(graph, found, decided)
    BY DEF IInv, TypeOK
  <1>3. Head(todo) \in Libs \X Libs
    BY DEF IInv, TypeOK, Decide
  <1>4. lib \in Libs /\ home \in Libs /\ Head(todo) = <<lib, home>>
    BY <1>3
  <1> HIDE DEF lib, home
  <1>5. Completed(graph', found', decided')
    BY <1>1, <1>2, <1>4, ConsiderCompletes
  <1>6. \A l \in Libs : graph[l] \subseteq graph'[l]
    BY <1>1, <1>2, <1>4, ConsiderServes
  <1> QED
    BY <1>1, <1>5, <1>6 DEF IInv

LEMMA IInvRewrite == TypeOK' /\ IInv /\ Rewrite => IInv'
  <1> SUFFICES ASSUME TypeOK', IInv, Rewrite PROVE IInv'
    OBVIOUS
  <1>1. /\ found' = found /\ graph' = graph /\ decided' = decided
        /\ disk' = [disk EXCEPT ![Head(added)] = graph[Head(added)]]
    BY DEF Rewrite
  <1>2. disk \in Graphs
    BY DEF IInv, TypeOK
  <1>3. Completed(graph', found', decided')
    BY <1>1 DEF IInv
  <1>4. \A l \in Libs : found[l] \subseteq graph[l]
    BY DEF IInv
  <1>5. \A l \in Libs : found'[l] \subseteq disk'[l] /\ disk'[l] \subseteq graph'[l]
    BY <1>1, <1>2, <1>4 DEF IInv, Graphs
  <1> QED
    BY <1>3, <1>5 DEF IInv

\* Every reachable state satisfies the inductive invariant.
THEOREM Inductive == Spec => []IInv
  <1>1. TypeOK' /\ IInv /\ [Next]_mergeVars => IInv'
    <2>1. TypeOK' /\ IInv /\ UNCHANGED mergeVars => IInv'
      BY DEF IInv, mergeVars
    <2> QED
      BY <2>1, IInvDecide, IInvRewrite DEF Next
  <1> QED
    BY <1>1, IInvInit, TypeCorrect, PTL DEF Spec

\* Whatever the libraries, the files pass 1 left and the bodies, pass 2 never
\* closes an import circle, in memory or in any half-written state of the disk.
THEOREM NoCircleIsClosed == Spec => []KeepsAcyclic
  <1>1. IInv => KeepsAcyclic
    <2> SUFFICES ASSUME IInv, Acyclic(found) PROVE Acyclic(graph) /\ Acyclic(disk)
      BY DEF KeepsAcyclic
    <2>1. Acyclic(graph)
      BY DEF IInv, Completed
    <2>2. \A l \in Libs : disk[l] \subseteq graph[l]
      BY DEF IInv
    <2>3. disk \in Graphs /\ graph \in Graphs
      BY DEF IInv, TypeOK
    <2> QED
      BY <2>1, <2>2, <2>3, AcyclicMonotone
  <1> QED
    BY <1>1, Inductive, PTL

\* Whatever the order of the candidates, every one of them ends up imported,
\* or importable only at the price of a circle.
THEOREM EveryCandidateIsServed == Spec => []Served
  <1>1. IInv => Served
    BY DEF IInv, Completed, Served
  <1> QED
    BY <1>1, Inductive, PTL

\* Whatever the order of the candidates, the imports reach the same libraries:
\* those that all edges found and asked for reach, unless these form a circle.
THEOREM OrderDoesNotMatter == Spec => []OrderIrrelevant
  <1>1. IInv => OrderIrrelevant
    <2> SUFFICES ASSUME IInv, Acyclic(Asked), NEW a \in Libs, NEW b \in Libs
                 PROVE  Reachable(graph, a, b) <=> Reachable(Asked, a, b)
      BY DEF OrderIrrelevant
    <2>1. /\ graph \in Graphs /\ Asked \in Graphs
          /\ \A l \in Libs : found[l] \subseteq graph[l]
      BY DEF IInv, TypeOK, Completed, Asked, Graphs
    <2>2. \A l \in Libs : graph[l] \subseteq Asked[l]
      <3> SUFFICES ASSUME NEW l \in Libs, NEW m \in graph[l], m \notin found[l]
                   PROVE  m \in Asked[l]
        BY DEF Asked
      <3>1. m \in Libs
        BY <2>1 DEF Graphs
      <3>2. <<l, m>> \in decided /\ ~Reachable(found, l, m)
        BY DEF IInv, Completed
      <3>3. m # l
        BY <3>2 DEF Reachable
      <3> QED
        BY <3>1, <3>2, <3>3 DEF Asked
    <2>3. Reachable(graph, a, b) => Reachable(Asked, a, b)
      BY <2>1, <2>2, ReachableMonotone
    <2>4. ASSUME Reachable(Asked, a, b), NEW S \in SUBSET Libs, a \in S, Closed(graph, S)
          PROVE  b \in S
      <3>1. ASSUME NEW l \in S, NEW m \in Asked[l]
            PROVE  m \in S
        <4>1. l \in Libs /\ m \in Libs
          BY <2>1, <2>4, <3>1 DEF Graphs
        <4>2. CASE m \in found[l]
          BY <2>1, <2>4, <3>1, <4>1, <4>2 DEF Closed
        <4>3. CASE m \notin found[l]
          <5>1. <<l, m>> \in decided /\ l # m
            BY <3>1, <4>1, <4>3 DEF Asked
          <5>2. Reachable(graph, l, m) \/ Reachable(graph, m, l)
            BY <5>1 DEF IInv, Completed
          <5>3. ~Reachable(graph, m, l)
            BY <2>1, <2>2, <3>1, <4>1, ReachableMonotone DEF Acyclic
          <5> QED
            BY <2>4, <3>1, <5>2, <5>3 DEF Reachable
        <4> QED
          BY <4>2, <4>3
      <3>2. Closed(Asked, S)
        BY <3>1 DEF Closed
      <3> QED
        BY <2>4, <3>2 DEF Reachable
    <2> QED
      BY <2>3, <2>4 DEF Reachable
  <1> QED
    BY <1>1, Inductive, PTL

\* Pass 2 adds to the files, and only edges that a body asked for and that the
\* files pass 1 left did not imply.
THEOREM PassTwoOnlyCompletes == Spec => []OnlyCompletes
  <1>1. IInv => OnlyCompletes
    BY DEF IInv, Completed, OnlyCompletes
  <1> QED
    BY <1>1, Inductive, PTL
-----------------------------------------------------------------------------
(***************************************************************************)
(* Pass 2 implements Completion.  What the files will hold is the graph in *)
(* memory taken through the candidates left, which Decide does not change. *)
(***************************************************************************)

\* The graphs the loops go through, one for each number of candidates taken.
Through(h, s, f) ==
  /\ f \in [0..Len(s) -> Graphs]
  /\ \A n \in 0..Len(s) : f[n] = IF n = 0 THEN h ELSE Consider(f[n - 1], s[n][1], s[n][2])

LEMMA OutcomeSteps ==
  ASSUME NEW h \in Graphs, NEW s \in Seq(Libs \X Libs)
  PROVE  \E f : Through(h, s, f) /\ Outcome(h, s) = f[Len(s)]
  <1> DEFINE k == Len(s)
             Is(f) == f = [n \in 0..k |->
                             IF n = 0 THEN h ELSE Consider(f[n - 1], s[n][1], s[n][2])]
             after == CHOOSE f : Is(f)
  <1>1. k \in Nat /\ \A n \in 1..k : s[n][1] \in Libs /\ s[n][2] \in Libs
    OBVIOUS
  <1>2. \A n \in 1..k : \A x \in Graphs : Consider(x, s[n][1], s[n][2]) \in Graphs
    BY <1>1, ConsiderServes
  <1>3. Outcome(h, s) = after[k]
    BY DEF Outcome
  <1> HIDE DEF k
  <1>4. \E f \in [0..k -> Graphs] : Is(f)
    <2> DEFINE step == [n \in 1..k |-> [x \in Graphs |-> Consider(x, s[n][1], s[n][2])]]
    <2>1. step \in [1..k -> [Graphs -> Graphs]]
      BY <1>2
    <2>2. \A n \in 1..k : \A x \in Graphs : step[n][x] = Consider(x, s[n][1], s[n][2])
      OBVIOUS
    <2> HIDE DEF step
    <2>3. PICK f \in [0..k -> Graphs] :
            \A n \in 0..k : f[n] = IF n = 0 THEN h ELSE step[n][f[n - 1]]
      BY <1>1, <2>1, Stepwise
    <2>4. ASSUME NEW n \in 0..k
          PROVE  f[n] = IF n = 0 THEN h ELSE Consider(f[n - 1], s[n][1], s[n][2])
      <3>1. CASE n = 0
        BY <2>3, <3>1
      <3>2. CASE n # 0
        <4>1. n \in 1..k /\ n - 1 \in 0..k
          BY <1>1, <3>2
        <4>2. f[n - 1] \in Graphs /\ f[n] = step[n][f[n - 1]]
          BY <2>3, <3>2, <4>1
        <4> QED
          BY <2>2, <3>2, <4>1, <4>2
      <3> QED
        BY <3>1, <3>2
    <2>5. Is(f)
      BY <2>4
    <2> QED
      BY <2>5
  <1>5. Is(after)
    <2> HIDE DEF Is
    <2> QED
      BY <1>4
  <1> HIDE DEF after
  <1>6. \A n \in 0..k : after[n] = IF n = 0 THEN h ELSE Consider(after[n - 1], s[n][1], s[n][2])
    BY <1>5
  <1>7. after \in [0..k -> Graphs]
    <2> DEFINE D == {n \in Nat : n <= k => after[n] \in Graphs}
    <2>1. 0 \in D
      BY <1>1, <1>6
    <2>2. ASSUME NEW n \in D PROVE n + 1 \in D
      <3> SUFFICES ASSUME n + 1 <= k PROVE after[n + 1] \in Graphs
        OBVIOUS
      <3>1. n + 1 \in 1..k /\ n + 1 \in 0..k /\ (n + 1) - 1 = n /\ n <= k
        BY <1>1
      <3>2. after[n + 1] = Consider(after[n], s[n + 1][1], s[n + 1][2])
        BY <1>6, <3>1
      <3>3. after[n] \in Graphs
        BY <3>1
      <3> QED
        BY <1>2, <3>1, <3>2, <3>3
    <2> HIDE DEF D
    <2>3. D = Nat
      <3>1. D \in SUBSET Nat
        BY DEF D
      <3> QED
        BY <2>1, <2>2, <3>1, SetInduction
    <2>4. \A n \in 0..k : after[n] \in Graphs
      BY <1>1, <2>3 DEF D
    <2>5. after = [n \in 0..k |-> after[n]]
      BY <1>5
    <2> QED
      BY <2>4, <2>5
  <1>8. Through(h, s, after)
    BY <1>6, <1>7 DEF Through, k
  <1> QED
    BY <1>3, <1>8 DEF k

\* A sequence of candidates is taken one by one.
LEMMA OutcomeOfNone ==
  ASSUME NEW h \in Graphs
  PROVE  Outcome(h, << >>) = h
  <1>1. << >> \in Seq(Libs \X Libs) /\ Len(<< >>) = 0
    OBVIOUS
  <1>2. PICK f : Through(h, << >>, f) /\ Outcome(h, << >>) = f[Len(<< >>)]
    BY <1>1, OutcomeSteps
  <1> QED
    BY <1>1, <1>2 DEF Through

LEMMA OutcomeOfTail ==
  ASSUME NEW h \in Graphs, NEW s \in Seq(Libs \X Libs), s # << >>
  PROVE  Outcome(Consider(h, Head(s)[1], Head(s)[2]), Tail(s)) = Outcome(h, s)
  <1> DEFINE n1 == Consider(h, Head(s)[1], Head(s)[2])
             k == Len(s)
  <1>1. /\ k \in Nat \ {0} /\ Tail(s) \in Seq(Libs \X Libs) /\ Len(Tail(s)) = k - 1
        /\ Head(s) = s[1] /\ \A n \in 1..(k - 1) : Tail(s)[n] = s[n + 1]
    OBVIOUS
  <1>2. s[1][1] \in Libs /\ s[1][2] \in Libs
    BY <1>1
  <1>3. n1 \in Graphs
    BY <1>1, <1>2, ConsiderServes
  <1>4. PICK f : Through(h, s, f) /\ Outcome(h, s) = f[k]
    BY OutcomeSteps
  <1>5. f[1] = n1
    <2>1. 1 \in 0..k /\ 0 \in 0..k /\ 1 - 1 = 0
      BY <1>1
    <2> QED
      BY <1>1, <1>4, <2>1 DEF Through
  <1> HIDE DEF n1
  <1>6. PICK e : Through(n1, Tail(s), e) /\ Outcome(n1, Tail(s)) = e[Len(Tail(s))]
    BY <1>1, <1>3, OutcomeSteps
  <1>7. /\ \A n \in 0..k : f[n] = IF n = 0 THEN h ELSE Consider(f[n - 1], s[n][1], s[n][2])
        /\ \A n \in 0..(k - 1) :
             e[n] = IF n = 0 THEN n1 ELSE Consider(e[n - 1], Tail(s)[n][1], Tail(s)[n][2])
    BY <1>1, <1>4, <1>6 DEF Through
  <1> DEFINE D == {n \in Nat : n <= k - 1 => e[n] = f[n + 1]}
  <1> HIDE DEF k
  <1>8. 0 \in D
    <2>1. 0 \in 0..(k - 1) /\ 0 + 1 = 1
      BY <1>1
    <2>2. e[0] = n1
      BY <1>7, <2>1
    <2> QED
      BY <1>5, <2>1, <2>2
  <1>9. ASSUME NEW n \in D PROVE n + 1 \in D
    <2>0. n \in Nat
      OBVIOUS
    <2> SUFFICES ASSUME n + 1 <= k - 1 PROVE e[n + 1] = f[(n + 1) + 1]
      OBVIOUS
    <2>1. /\ n + 1 \in 1..(k - 1) /\ n + 1 \in 0..(k - 1) /\ (n + 1) - 1 = n /\ n + 1 # 0
          /\ (n + 1) + 1 \in 0..k /\ ((n + 1) + 1) - 1 = n + 1 /\ (n + 1) + 1 # 0
          /\ n <= k - 1
      BY <1>1, <2>0
    <2>2. e[n] = f[n + 1]
      BY <2>1
    <2>3. e[n + 1] = Consider(e[n], Tail(s)[n + 1][1], Tail(s)[n + 1][2])
      BY <1>7, <2>1
    <2>4. f[(n + 1) + 1] = Consider(f[n + 1], s[(n + 1) + 1][1], s[(n + 1) + 1][2])
      BY <1>7, <2>1
    <2>5. Tail(s)[n + 1] = s[(n + 1) + 1]
      BY <1>1, <2>1
    <2> QED
      BY <2>2, <2>3, <2>4, <2>5
  <1> HIDE DEF D
  <1>10. D = Nat
    <2>1. D \in SUBSET Nat
      BY DEF D
    <2> QED
      BY <1>8, <1>9, <2>1, SetInduction
  <1>11. k - 1 \in D /\ (k - 1) + 1 = k
    BY <1>1, <1>10
  <1>12. e[k - 1] = f[k]
    BY <1>1, <1>11 DEF D
  <1> QED
    BY <1>1, <1>4, <1>6, <1>12 DEF n1

\* The last candidate is decided on what those before it left.
LEMMA OutcomeOfAppend ==
  ASSUME NEW h \in Graphs, NEW s \in Seq(Libs \X Libs), NEW c \in Libs \X Libs
  PROVE  /\ Outcome(h, s) \in Graphs
         /\ Outcome(h, Append(s, c)) = Consider(Outcome(h, s), c[1], c[2])
  <1> DEFINE t == Append(s, c)
             k == Len(s)
  <1>1. /\ k \in Nat /\ t \in Seq(Libs \X Libs) /\ Len(t) = k + 1 /\ t[k + 1] = c
        /\ \A n \in 1..k : t[n] = s[n]
    OBVIOUS
  <1> HIDE DEF t
  <1>2. PICK f : Through(h, s, f) /\ Outcome(h, s) = f[k]
    BY OutcomeSteps
  <1>3. PICK e : Through(h, t, e) /\ Outcome(h, t) = e[Len(t)]
    BY <1>1, OutcomeSteps
  <1>4. /\ f[k] \in Graphs
        /\ \A n \in 0..k : f[n] = IF n = 0 THEN h ELSE Consider(f[n - 1], s[n][1], s[n][2])
        /\ \A n \in 0..(k + 1) :
             e[n] = IF n = 0 THEN h ELSE Consider(e[n - 1], t[n][1], t[n][2])
    BY <1>1, <1>2, <1>3 DEF Through
  <1> DEFINE D == {n \in Nat : n <= k => e[n] = f[n]}
  <1> HIDE DEF k
  <1>5. 0 \in D
    <2>1. 0 \in 0..k /\ 0 \in 0..(k + 1)
      BY <1>1
    <2>2. e[0] = h /\ f[0] = h
      BY <1>4, <2>1
    <2> QED
      BY <2>2
  <1>6. ASSUME NEW n \in D PROVE n + 1 \in D
    <2>0. n \in Nat
      OBVIOUS
    <2> SUFFICES ASSUME n + 1 <= k PROVE e[n + 1] = f[n + 1]
      OBVIOUS
    <2>1. /\ n + 1 \in 1..k /\ n + 1 \in 0..k /\ n + 1 \in 0..(k + 1) /\ (n + 1) - 1 = n
          /\ n + 1 # 0 /\ n <= k
      BY <1>1, <2>0
    <2>2. e[n] = f[n] /\ t[n + 1] = s[n + 1]
      BY <1>1, <2>1
    <2>3. e[n + 1] = Consider(e[n], t[n + 1][1], t[n + 1][2])
      BY <1>4, <2>1
    <2>4. f[n + 1] = Consider(f[n], s[n + 1][1], s[n + 1][2])
      BY <1>4, <2>1
    <2> QED
      BY <2>2, <2>3, <2>4
  <1> HIDE DEF D
  <1>7. D = Nat
    <2>1. D \in SUBSET Nat
      BY DEF D
    <2> QED
      BY <1>5, <1>6, <2>1, SetInduction
  <1>8. e[k] = f[k]
    BY <1>1, <1>7 DEF D
  <1>9. e[k + 1] = Consider(e[k], c[1], c[2])
    <2>1. k + 1 \in 0..(k + 1) /\ (k + 1) - 1 = k /\ k + 1 # 0
      BY <1>1
    <2> QED
      BY <1>1, <1>4, <2>1
  <1> QED
    BY <1>1, <1>2, <1>3, <1>4, <1>8, <1>9 DEF t

\* The candidates left complete what those decided began.
LEMMA OutcomeCompletes ==
  ASSUME NEW g \in Graphs, NEW h, NEW wanted \in SUBSET (Libs \X Libs), Completed(h, g, wanted),
         NEW s \in Seq(Libs \X Libs)
  PROVE  Completed(Outcome(h, s), g, wanted \cup {s[i] : i \in DOMAIN s})
  <1> DEFINE k == Len(s)
             taken(n) == wanted \cup {s[i] : i \in 1..n}
  <1>1. k \in Nat /\ DOMAIN s = 1..k /\ \A n \in 1..k : s[n] \in Libs \X Libs
    OBVIOUS
  <1>2. h \in Graphs
    BY DEF Completed
  <1>3. PICK f : Through(h, s, f) /\ Outcome(h, s) = f[k]
    BY <1>2, OutcomeSteps
  <1>4. \A n \in 0..k : f[n] = IF n = 0 THEN h ELSE Consider(f[n - 1], s[n][1], s[n][2])
    BY <1>3 DEF Through
  <1> DEFINE D == {n \in Nat : n <= k => Completed(f[n], g, taken(n))}
  <1> HIDE DEF k
  <1>5. 0 \in D
    <2>1. f[0] = h /\ taken(0) = wanted
      BY <1>1, <1>4
    <2> HIDE DEF taken
    <2> QED
      BY <2>1
  <1>6. ASSUME NEW n \in D PROVE n + 1 \in D
    <2>0. n \in Nat
      OBVIOUS
    <2> SUFFICES ASSUME n + 1 <= k PROVE Completed(f[n + 1], g, taken(n + 1))
      OBVIOUS
    <2>1. n + 1 \in 1..k /\ n + 1 \in 0..k /\ (n + 1) - 1 = n /\ n + 1 # 0 /\ n <= k
      BY <1>1, <2>0
    <2>2. Completed(f[n], g, taken(n))
      BY <2>1
    <2>3. f[n + 1] = Consider(f[n], s[n + 1][1], s[n + 1][2])
      BY <1>4, <2>1
    <2>4. /\ s[n + 1][1] \in Libs /\ s[n + 1][2] \in Libs
          /\ s[n + 1] = <<s[n + 1][1], s[n + 1][2]>>
      BY <1>1, <2>1
    <2>5. taken(n) \in SUBSET (Libs \X Libs)
      BY <1>1, <2>0, <2>1
    <2>6. taken(n + 1) = taken(n) \cup {s[n + 1]}
      <3>1. 1..(n + 1) = 1..n \cup {n + 1}
        BY <2>0
      <3> QED
        BY <3>1
    <2> HIDE DEF taken, D
    <2>7. Completed(Consider(f[n], s[n + 1][1], s[n + 1][2]), g,
                    taken(n) \cup {<<s[n + 1][1], s[n + 1][2]>>})
      BY <2>2, <2>4, <2>5, ConsiderCompletes
    <2> QED
      BY <2>3, <2>4, <2>6, <2>7
  <1> HIDE DEF D
  <1>7. D = Nat
    <2>1. D \in SUBSET Nat
      BY DEF D
    <2> QED
      BY <1>5, <1>6, <2>1, SetInduction
  <1>8. Completed(f[k], g, taken(k))
    <2>1. k \in D /\ k <= k
      BY <1>1, <1>7
    <2> HIDE DEF taken
    <2> QED
      BY <2>1 DEF D
  <1>9. taken(k) = wanted \cup {s[i] : i \in DOMAIN s}
    BY <1>1
  <1> HIDE DEF taken
  <1> QED
    BY <1>3, <1>8, <1>9

\* The abstract specification calls the same graphs completions.
LEMMA SameCompletions ==
  ASSUME NEW g \in Graphs, NEW h \in Graphs, NEW wanted \in SUBSET (Libs \X Libs),
         Completed(h, g, wanted)
  PROVE  Pass2!Completes(h, g, wanted)
  <1>1. ASSUME NEW x, NEW a, NEW b
        PROVE  Pass2!Reachable(x, a, b) <=> Reachable(x, a, b)
    BY DEF Pass2!Reachable, Pass2!Closed, Reachable, Closed
  <1>2. Pass2!Acyclic(g) <=> Acyclic(g)
    BY <1>1 DEF Pass2!Acyclic, Acyclic
  <1>3. Pass2!Acyclic(h) <=> Acyclic(h)
    BY <1>1 DEF Pass2!Acyclic, Acyclic
  <1> QED
    BY <1>1, <1>2, <1>3 DEF Completed, Pass2!Completes

\* Deciding one candidate after another in memory, then rewriting one file after
\* another, is completing the files one whole file at a time.
THEOREM Implements == Spec => ImplementsCompletion
  <1> DEFINE goal == Outcome(graph, todo)
             asked == decided \cup {todo[i] : i \in DOMAIN todo}
  <1>1. Init => Pass2!Init
    <2> SUFFICES ASSUME Init PROVE Pass2!Init
      OBVIOUS
    <2>1. IInv
      BY IInvInit
    <2>2. /\ disk \in Graphs /\ graph \in Graphs /\ decided \in SUBSET (Libs \X Libs)
          /\ todo \in Seq(Libs \X Libs)
      BY <2>1 DEF IInv, TypeOK
    <2>3. Completed(graph, disk, decided)
      BY <2>1 DEF IInv, Init
    <2>4. Completed(goal, disk, asked)
      BY <2>2, <2>3, OutcomeCompletes
    <2>5. asked \in SUBSET (Libs \X Libs)
      BY <2>2
    <2> HIDE DEF goal, asked
    <2>6. goal \in Graphs
      BY <2>4 DEF Completed
    <2>7. Pass2!Completes(goal, disk, asked)
      BY <2>2, <2>4, <2>5, <2>6, SameCompletions
    <2> QED
      BY <2>2, <2>5, <2>6, <2>7 DEF Pass2!Init, Pass2!Graphs, Graphs, goal, asked
  <1>2. IInv /\ [Next]_mergeVars => [Pass2!Next]_(Pass2!completionVars)
    <2> SUFFICES ASSUME IInv, [Next]_mergeVars
                 PROVE  [Pass2!Next]_(Pass2!completionVars)
      OBVIOUS
    <2>1. /\ disk \in Graphs /\ graph \in Graphs
          /\ todo \in Seq(Libs \X Libs) /\ added \in Seq(Libs)
      BY DEF IInv, TypeOK
    <2>2. CASE Decide
      <3>1. /\ disk' = disk /\ todo # << >> /\ todo' = Tail(todo)
            /\ graph' = Consider(graph, Head(todo)[1], Head(todo)[2])
            /\ decided' = decided \cup {Head(todo)}
        BY <2>2 DEF Decide
      <3>2. goal' = goal
        BY <2>1, <3>1, OutcomeOfTail
      <3>3. asked' = asked
        <4>1. {todo[i] : i \in DOMAIN todo} = {Head(todo)} \cup {Tail(todo)[i] : i \in DOMAIN Tail(todo)}
          <5>1. /\ Len(todo) \in Nat \ {0} /\ DOMAIN todo = 1..Len(todo)
                /\ DOMAIN Tail(todo) = 1..(Len(todo) - 1) /\ Head(todo) = todo[1]
                /\ \A i \in 1..(Len(todo) - 1) : Tail(todo)[i] = todo[i + 1]
            BY <2>1, <3>1
          <5>2. \A i \in 1..Len(todo) : i = 1 \/ (i - 1 \in 1..(Len(todo) - 1) /\ (i - 1) + 1 = i)
            BY <5>1
          <5>3. \A i \in 1..(Len(todo) - 1) : i + 1 \in 1..Len(todo)
            BY <5>1
          <5>4. 1 \in 1..Len(todo)
            BY <5>1
          <5>5. ASSUME NEW i \in 1..Len(todo)
                PROVE  todo[i] \in {Head(todo)} \cup {Tail(todo)[j] : j \in DOMAIN Tail(todo)}
            <6>1. CASE i = 1
              BY <5>1, <6>1
            <6>2. CASE i # 1
              <7>1. i - 1 \in DOMAIN Tail(todo) /\ Tail(todo)[i - 1] = todo[i]
                BY <5>1, <5>2, <6>2
              <7> QED
                BY <7>1
            <6> QED
              BY <6>1, <6>2
          <5>6. Head(todo) \in {todo[i] : i \in DOMAIN todo}
            BY <5>1, <5>4
          <5>7. ASSUME NEW j \in DOMAIN Tail(todo)
                PROVE  Tail(todo)[j] \in {todo[i] : i \in DOMAIN todo}
            BY <5>1, <5>3
          <5> QED
            BY <5>1, <5>5, <5>6, <5>7
        <4> QED
          BY <3>1, <4>1
      <3> QED
        BY <3>1, <3>2, <3>3 DEF Pass2!completionVars
    <2>3. CASE Rewrite
      <3>1. /\ todo = << >> /\ added # << >>
            /\ disk' = [disk EXCEPT ![Head(added)] = graph[Head(added)]]
            /\ graph' = graph /\ todo' = todo /\ decided' = decided
        BY <2>3 DEF Rewrite
      <3>2. Head(added) \in Libs
        BY <2>1, <3>1
      <3>3. goal = graph
        BY <2>1, <3>1, OutcomeOfNone
      <3>4. goal' = goal /\ asked' = asked
        BY <3>1
      <3> HIDE DEF goal, asked
      <3>5. CASE disk[Head(added)] = graph[Head(added)]
        <4>1. disk' = disk
          BY <2>1, <3>1, <3>5 DEF Graphs
        <4> QED
          BY <3>4, <4>1 DEF Pass2!completionVars, goal, asked
      <3>6. CASE disk[Head(added)] # graph[Head(added)]
        <4>1. Pass2!Write(Head(added))
          BY <3>1, <3>3, <3>4, <3>6 DEF Pass2!Write, goal, asked
        <4> QED
          BY <3>2, <4>1 DEF Pass2!Next
      <3> QED
        BY <3>5, <3>6
    <2>4. CASE UNCHANGED mergeVars
      BY <2>4 DEF mergeVars, Pass2!completionVars
    <2> QED
      BY <2>2, <2>3, <2>4 DEF Next
  <1> QED
    BY <1>1, <1>2, Inductive, PTL DEF Spec, ImplementsCompletion, Pass2!Spec
=============================================================================
