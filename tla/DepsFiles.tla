------------------------------ MODULE DepsFiles ------------------------------
(***************************************************************************)
(* The graph the <lib>.deps files form, and what pass 2 of gen_exports.py  *)
(* does to it: one candidate edge at a time, merge_body_edges keeps the    *)
(* edges that are neither implied by the graph nor closing a cycle.        *)
(*                                                                         *)
(* A graph maps each library to the set of libraries it imports.           *)
(***************************************************************************)
EXTENDS Naturals

CONSTANT Libs

Graphs == [Libs -> SUBSET Libs]

Closed(g, S) == \A l \in S : g[l] \subseteq S

\* The nested function reachable of merge_body_edges.
Reachable(g, src, dst) ==
  \A S \in SUBSET Libs : src \in S /\ Closed(g, S) => dst \in S

Acyclic(g) == \A l \in Libs : \A m \in g[l] : ~Reachable(g, m, l)

\* Deviation: no check for circles.
Wanted_NoCycleCheck(g, lib, home) ==
  home # lib /\ home \notin g[lib] /\ ~Reachable(g, lib, home)

\* The edge lib -> home is worth adding to g.
Wanted(g, lib, home) ==
  /\ home # lib
  /\ home \notin g[lib]
  /\ ~Reachable(g, lib, home)
  /\ ~Reachable(g, home, lib)

\* Deviation: the two ends are swapped.
AddEdge_Reversed(g, lib, home) == [g EXCEPT ![home] = @ \cup {lib}]

AddEdge(g, lib, home) == [g EXCEPT ![lib] = @ \cup {home}]

\* The body of the two loops over the candidates.
Consider(g, lib, home) ==
  IF Wanted(g, lib, home) THEN AddEdge(g, lib, home) ELSE g
=============================================================================
