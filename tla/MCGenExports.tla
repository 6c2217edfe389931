---------------------------- MODULE MCGenExports ----------------------------
(***************************************************************************)
(* Small vendored trees for GenExports: three libraries with one public    *)
(* header each (headers 1, 2 and 3), a detail header of library 2          *)
(* (header 4), one of library 1 (header 6), and a header no target library *)
(* owns (header 5).                                                        *)
(***************************************************************************)
EXTENDS GenExports

MCLibs == {1, 2, 3}
MCTargetLibs == <<3, 1, 2>>
MCHeaders == 1..6
MCOwner == <<1, 2, 3, 2, Shared, 1>>
MCPublic == <<{1}, {2}, {3}>>

H(i, s, b) == [inc |-> i, sig |-> s, body |-> b, using |-> {}, compiles |-> TRUE]
Leaf == H({}, {}, {})

NoCurated == [v \in Versions |-> [l \in Libs |-> {}]]

Opt(use_cache, libs) ==
  [use_cache |-> use_cache, full_closure |-> FALSE, no_body_deps |-> FALSE,
   emit_cppm |-> FALSE, libs |-> libs]

Plain   == {Opt(TRUE, Libs)}
Mixed   == {Opt(TRUE, MCLibs), Opt(TRUE, {1, 2}),
            [Opt(TRUE, MCLibs) EXCEPT !.full_closure = TRUE],
            [Opt(TRUE, MCLibs) EXCEPT !.no_body_deps = TRUE]}
Uncached == {[Opt(FALSE, MCLibs) EXCEPT !.emit_cppm = TRUE]}
Either  == {Opt(TRUE, MCLibs), Opt(FALSE, MCLibs)}
Bodies  == Uncached \cup {[Opt(FALSE, MCLibs) EXCEPT !.no_body_deps = TRUE]}

(***************************************************************************)
(* Chain: 3 includes 2 includes 1, and whoever claims a shared entity is   *)
(* upstream of whoever else sees it.  The second revision moves the shared *)
(* header from 1 to 2, the third makes 3 need 1 by name.                   *)
(***************************************************************************)
ChainTree ==
  << <<H({5}, {5}, {}), H({1}, {1}, {}), H({2}, {2}, {1}), Leaf, Leaf, Leaf>>,
     <<H({}, {}, {}), H({1, 5}, {1, 5}, {}), H({2}, {2}, {1}), Leaf, Leaf, Leaf>>,
     <<H({5}, {5}, {}), H({1}, {1}, {}), H({1, 2}, {1, 2}, {}), Leaf, Leaf, Leaf>> >>

(***************************************************************************)
(* Longer: a fourth revision, where 2 needs 1 only in a body and includes  *)
(* it only through its detail header, so that pass 2 has an edge to add.   *)
(***************************************************************************)
LongerTree ==
  ChainTree \o
  << <<Leaf, H({4}, {}, {1}), H({2}, {2}, {}), H({1}, {}, {}), Leaf, Leaf>> >>

(***************************************************************************)
(* Sibling: 1 and 2 do not depend on each other and both see header 5; the *)
(* second revision of 2, which is processed first, no longer includes it.  *)
(***************************************************************************)
SiblingTree ==
  << <<H({5}, {5}, {}), H({5}, {5}, {}), H({2}, {2}, {}), Leaf, Leaf, Leaf>>,
     <<H({5}, {5}, {}), Leaf, H({2}, {2}, {}), Leaf, Leaf, Leaf>> >>

(***************************************************************************)
(* Cycle: in the second revision 1 includes 2, which includes 1.           *)
(***************************************************************************)
CycleTree ==
  << <<H({5}, {5}, {}), H({1}, {1}, {}), Leaf, Leaf, Leaf, Leaf>>,
     <<H({2, 5}, {2, 5}, {}), H({1}, {1}, {}), Leaf, Leaf, Leaf, Leaf>> >>

(***************************************************************************)
(* Body: 2 reaches 1 only through its detail header and needs it only in a *)
(* body.                                                                   *)
(***************************************************************************)
BodyTree ==
  << <<Leaf, H({3, 4}, {3}, {1}), Leaf, H({1}, {}, {}), Leaf, Leaf>> >>

(***************************************************************************)
(* Turn: as Body, but 2 has no other import; the second revision turns the *)
(* dependency around.                                                      *)
(***************************************************************************)
TurnTree ==
  << <<Leaf, H({4}, {}, {1}), Leaf, H({1}, {}, {}), Leaf, Leaf>>,
     <<H({2}, {2}, {}), Leaf, Leaf, Leaf, Leaf, Leaf>> >>

(***************************************************************************)
(* Hidden: 2 needs 1 by name but includes it through its detail header, so *)
(* that 3, which includes 2, draws 2 ahead of 1.                           *)
(***************************************************************************)
HiddenTree ==
  << <<Leaf, H({4}, {1}, {}), H({2}, {}, {}), H({1}, {}, {}), Leaf, Leaf>> >>

(***************************************************************************)
(* Pruned: the only header of 3 includes 2 and is refused by the gate.     *)
(***************************************************************************)
PrunedTree ==
  << <<Leaf, Leaf, [H({2}, {2}, {}) EXCEPT !.compiles = FALSE], Leaf, Leaf, Leaf>> >>

(***************************************************************************)
(* Family: the trees a choice of includes for headers 1, 2 and 3 gives,    *)
(* where the signature of a public header mentions what the header         *)
(* includes and a body all it can see. Through the detail headers 4 and 6, *)
(* 2 may hide its need of 1 and 1 its need of 2; no two public headers     *)
(* include each other. Left out is 1 -> 2 -> 3 -> 1 with the first step    *)
(* hidden: there the imports pass 1 writes, which nobody checks for        *)
(* circles, already form one.                                              *)
(***************************************************************************)
FamilyIncludes ==
  {<<a, b, c, {1}, {}, {2}>> :
     a \in {{}, {5}, {6}, {5, 6}}, b \in {{4}, {3, 4}, {1, 3}, {1, 5}},
     c \in {{}, {1}, {2}, {1, 2}}}

FamilyOf(i) ==
  LET near(S) == S \cup UNION {i[h] : h \in S}
  IN  [h \in MCHeaders |->
         H(i[h], IF h \in {4, 6} THEN {} ELSE i[h] \ {4, 6},
           near(near(near(i[h]))))]

FamilyVersions ==
  {i \in FamilyIncludes : /\ ~(3 \in i[2] /\ 2 \in i[3])
                          /\ ~(6 \in i[1] /\ 3 \in i[2] /\ 1 \in i[3])}
FamilyTree == [i \in FamilyVersions |-> FamilyOf(i)]

(***************************************************************************)
(* Detour: five libraries, each with one public header, which hides what   *)
(* it only needs in a body behind a detail header (5 more than its own).   *)
(* With all .deps files there, the path from 2 through 1 and 4 to 3        *)
(* refuses an edge from 3 to 2; once the files of 3 and 4 are lost, that   *)
(* edge comes first and refuses the one from 4 to 3, by which 5 got to 3.  *)
(***************************************************************************)
DetourLibs == 1..5
DetourTargetLibs == <<1, 2, 3, 4, 5>>
DetourHeaders == 1..10
DetourOwner == DetourTargetLibs \o DetourTargetLibs
DetourPublic == <<{1}, {2}, {3}, {4}, {5}>>
DetourTree ==
  << <<H({6}, {}, {4}), H({1, 7}, {1}, {3}), H({8}, {}, {2}), H({9}, {}, {3}),
       H({1, 10}, {1}, {3})>>
     \o <<H({4}, {}, {}), H({3}, {}, {}), H({2}, {}, {}), H({3}, {}, {}),
          H({3}, {}, {})>> >>

MCSurvey == [v \in Versions |-> SurveyOf(v)]
MCBundle ==
  [g \in Versions |-> [v \in Versions |-> [l \in Libs |-> BundleOf(g, v, l)]]]

\* Nobody edits the headers.
FixedTree ==
  /\ Init /\ [][Next /\ rev' = rev]_vars
  /\ WF_vars(Generator) /\ \A o \in RunOpts : WF_vars(Start(o))

(***************************************************************************)
(* Three trees one after the other, each of a shape of its own.            *)
(***************************************************************************)
ShapesTree == <<SiblingTree[1]>> \o HiddenTree \o PrunedTree

\* The users of the steady state: they start run after run.
FairUsers == Spec /\ \A o \in RunOpts : WF_vars(Start(o))
=============================================================================
