--------------------------- MODULE MergeBodyEdges ---------------------------
(***************************************************************************)
(* merge_body_edges of scripts/gen_exports.py, one candidate and one file  *)
(* at a time: the graph is read from the .deps files pass 1 left, every    *)
(* candidate edge is decided on the graph as it has grown so far, and only *)
(* then are the files of the libraries that gained an edge rewritten.      *)
(*                                                                         *)
(* A process that is killed leaves the disk of any state of this module.   *)
(***************************************************************************)
EXTENDS DepsFiles, Sequences

CONSTANT CandidateLists \* the orders in which candidate edges are taken

ASSUME CandidatesAssumption == CandidateLists \subseteq Seq(Libs \X Libs)

VARIABLES
  found,        \* the graph of the .deps files pass 1 left
  disk,         \* the graph of the .deps files now
  graph,        \* the graph in memory
  todo,         \* the candidates <<lib, home>> not decided yet
  decided,      \* those decided
  added         \* the libraries that gained an edge and are not rewritten yet

mergeVars == <<found, disk, graph, todo, decided, added>>

\* Pass 1 never lists a library in its own file.
Init ==
  /\ found \in {g \in Graphs : \A l \in Libs : l \notin g[l]}
  /\ disk = found
  /\ graph = found
  /\ todo \in CandidateLists
  /\ decided = {}
  /\ added = << >>

\* Deviation: the candidates are all decided on the graph the files held.
Decide_OnFoundGraph ==
  /\ todo # << >>
  /\ LET lib == Head(todo)[1]
         home == Head(todo)[2]
     IN  /\ graph' = IF Wanted(found, lib, home) THEN AddEdge(graph, lib, home)
                     ELSE graph
         /\ added' = IF Wanted(found, lib, home) /\ \A i \in DOMAIN added : added[i] # lib
                     THEN Append(added, lib) ELSE added
  /\ decided' = decided \cup {Head(todo)}
  /\ todo' = Tail(todo)
  /\ UNCHANGED <<found, disk>>

\* Deviation: the first candidate of a library that is passed over ends its turn.
Decide_BreaksOff ==
  /\ todo # << >>
  /\ LET lib == Head(todo)[1]
         home == Head(todo)[2]
         kept == IF Wanted(graph, lib, home) THEN Tail(todo)
                 ELSE SelectSeq(todo, LAMBDA c : c[1] # lib)
     IN  /\ graph' = Consider(graph, lib, home)
         /\ added' = IF Wanted(graph, lib, home) /\ \A i \in DOMAIN added : added[i] # lib
                     THEN Append(added, lib) ELSE added
         /\ decided' = decided \cup {todo[i] : i \in 1..(Len(todo) - Len(kept))}
         /\ todo' = kept
  /\ UNCHANGED <<found, disk>>

\* The two loops over the candidates.
Decide ==
  /\ todo # << >>
  /\ LET lib == Head(todo)[1]
         home == Head(todo)[2]
     IN  /\ graph' = Consider(graph, lib, home)
         /\ added' = IF Wanted(graph, lib, home) /\ \A i \in DOMAIN added : added[i] # lib
                     THEN Append(added, lib) ELSE added
  /\ decided' = decided \cup {Head(todo)}
  /\ todo' = Tail(todo)
  /\ UNCHANGED <<found, disk>>

\* Deviation: the file is rewritten with what it gained alone.
Rewrite_OnlyAdded ==
  /\ todo = << >> /\ added # << >>
  /\ disk' = [disk EXCEPT ![Head(added)] = graph[Head(added)] \ found[Head(added)]]
  /\ added' = Tail(added)
  /\ UNCHANGED <<found, graph, todo, decided>>

\* The loop over the files.
Rewrite ==
  /\ todo = << >> /\ added # << >>
  /\ disk' = [disk EXCEPT ![Head(added)] = graph[Head(added)]]
  /\ added' = Tail(added)
  /\ UNCHANGED <<found, graph, todo, decided>>

Next == Decide \/ Rewrite

\* merge_body_edges runs to its end unless it is killed.
Spec == Init /\ [][Next]_mergeVars /\ WF_mergeVars(Next)
-----------------------------------------------------------------------------
\* The variables hold graphs, candidates and libraries.
TypeOK ==
  /\ found \in Graphs
  /\ disk \in Graphs
  /\ graph \in Graphs
  /\ todo \in Seq(Libs \X Libs)
  /\ decided \subseteq Libs \X Libs
  /\ added \in Seq(Libs)

\* Import circles are rejected by mcpp: when pass 1 left none, there is none in
\* memory, and none on disk however few of the files have been rewritten.
KeepsAcyclic == Acyclic(found) => Acyclic(graph) /\ Acyclic(disk)

\* No candidate is forgotten: either an import of the library reaches the home,
\* or the home reaches the library, and no edge could have helped.
Served ==
  \A c \in decided :
    \/ c[1] = c[2]
    \/ Reachable(graph, c[1], c[2])
    \/ Reachable(graph, c[2], c[1])

\* What a library can import does not depend on the order in which candidates
\* were taken, though which edges are written does: where the edges found and
\* those asked for form no circle, the graph reaches what all of them reach
\* (merge_body_edges: libs in processing order, homes sorted).
Asked == [l \in Libs |-> found[l] \cup {m \in Libs \ {l} : <<l, m>> \in decided}]

OrderIrrelevant ==
  Acyclic(Asked) =>
    \A a, b \in Libs : Reachable(graph, a, b) <=> Reachable(Asked, a, b)

\* Pass 2 only completes: the files keep every import pass 1 wrote, gain none
\* that no body asked for, and none that pass 1 already implied.
OnlyCompletes ==
  \A l \in Libs :
    /\ found[l] \subseteq disk[l]
    /\ disk[l] \subseteq graph[l]
    /\ \A m \in graph[l] \ found[l] :
         <<l, m>> \in decided /\ ~Reachable(found, l, m)

\* In the end the files hold the graph that was decided.
EndsWritten == <>(todo = << >> /\ disk = graph)

\* The edge set stays minimal: no added edge is implied by the others.
StaysMinimal ==
  \A l \in Libs : \A m \in graph[l] \ found[l] :
    ~Reachable([graph EXCEPT ![l] = @ \ {m}], l, m)

-----------------------------------------------------------------------------
\* The graph the loops end with when they go on from g with the candidates s.
Outcome(g, s) ==
  LET after[n \in 0..Len(s)] ==
        IF n = 0 THEN g ELSE Consider(after[n - 1], s[n][1], s[n][2])
  IN  after[Len(s)]

Pass2 == INSTANCE Completion WITH
  files <- disk,
  goal <- Outcome(graph, todo),
  asked <- decided \cup {todo[i] : i \in DOMAIN todo}

\* Deciding cannot be seen from outside: what the files will hold is settled when
\* pass 2 begins, completes what they held, and reaches them file by file, so that
\* a process killed anywhere leaves files of the old graph and files of the new.
ImplementsCompletion == Pass2!Spec
=============================================================================
