----------------------------- MODULE Completion -----------------------------
(***************************************************************************)
(* What pass 2 of gen_exports.py promises: the graph of the .deps files is *)
(* completed with imports the bodies asked for, settled on before the      *)
(* first file is touched, and reaches the disk one whole file at a time.   *)
(***************************************************************************)
EXTENDS DepsFiles

VARIABLES
  files,        \* the graph of the .deps files
  goal,         \* the graph they are completed to
  asked         \* the imports <<lib, home>> the bodies asked for

completionVars == <<files, goal, asked>>

\* h completes g with imports asked for: none is lost, the new ones were asked
\* for and not implied, no circle is closed, and every one asked for is there in
\* effect unless it would close one.
Completes(h, g, wanted) ==
  /\ Acyclic(g) => Acyclic(h)
  /\ \A l \in Libs :
       /\ g[l] \subseteq h[l]
       /\ \A m \in h[l] \ g[l] : <<l, m>> \in wanted /\ ~Reachable(g, l, m)
  /\ \A c \in wanted :
       c[1] = c[2] \/ Reachable(h, c[1], c[2]) \/ Reachable(h, c[2], c[1])

Init ==
  /\ files \in Graphs
  /\ goal \in Graphs
  /\ asked \in SUBSET (Libs \X Libs)
  /\ Completes(goal, files, asked)

\* A file that differs is written as a whole.
Write(l) ==
  /\ files[l] # goal[l]
  /\ files' = [files EXCEPT ![l] = goal[l]]
  /\ UNCHANGED <<goal, asked>>

Next == \E l \in Libs : Write(l)

Spec == Init /\ [][Next]_completionVars
=============================================================================
