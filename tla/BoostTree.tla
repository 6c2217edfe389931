------------------------------ MODULE BoostTree ------------------------------
(***************************************************************************)
(* What the generator computes from one revision of the vendored headers   *)
(* before it touches the disk: the include list of a library, the closure  *)
(* its cache key hashes, the dependency graph between libraries, the       *)
(* processing order and the records (entities) of a library.               *)
(*                                                                         *)
(* Libraries and headers are numbered in the order Python's sorted() gives *)
(* their names.  Every header declares one entity in namespace boost, and  *)
(* the entity is named by its header.                                      *)
(***************************************************************************)
EXTENDS Naturals, Sequences, FiniteSets, FiniteSetsExt, SequencesExt

CONSTANTS
  Libs,         \* the target libraries, a finite set of positive integers
  TargetLibs,   \* TARGET_LIBS: the same libraries in their stable order
  Headers,      \* the vendored headers, a finite set of integers
  Owner,        \* Owner[h]: the target library whose directory holds h, or Shared
  Public,       \* Public[l]: the headers libs.json lists for l (detail headers left out)
  Versions,     \* the revisions of the vendored tree
  Tree,         \* Tree[v][h]: the text of header h at revision v, see HeaderText
  Curated       \* Curated[v][l]: the names curated/<l>.txt forces at revision v

Shared == 0

(***************************************************************************)
(* The text of a header, as far as the generator looks at it: the headers  *)
(* it includes, the entities its own entity mentions in its signature and  *)
(* in its body, the entities it re-publishes by a using-declaration at     *)
(* namespace scope, and whether clang++ accepts it.                        *)
(***************************************************************************)
HeaderText ==
  [inc: SUBSET Headers, sig: SUBSET Headers, body: SUBSET Headers,
   using: SUBSET Headers, compiles: BOOLEAN]

ASSUME LibsAssumption ==
  /\ Libs \subseteq Nat \ {Shared} /\ IsFiniteSet(Libs) /\ Libs # {}
  /\ TargetLibs \in Seq(Libs)
  /\ \A l \in Libs : \E i \in DOMAIN TargetLibs : TargetLibs[i] = l

ASSUME HeadersAssumption ==
  /\ Headers \subseteq Nat /\ IsFiniteSet(Headers)
  /\ Owner \in [Headers -> Libs \cup {Shared}]
  /\ Public \in [Libs -> SUBSET Headers]
  /\ \A l \in Libs : \A h \in Public[l] : Owner[h] = l
  /\ Tree \in [Versions -> [Headers -> HeaderText]]
  /\ Curated \in [Versions -> [Libs -> SUBSET Headers]]

Sorted(S) == SetToSortSeq(S, <)

-----------------------------------------------------------------------------
(***************************************************************************)
(* What a walk along next[h] visits from a set of headers: the worklists   *)
(* of the code, whatever order they are taken in.                          *)
(***************************************************************************)
Closure(next, seeds) ==
  LET grow[S \in SUBSET Headers] ==
        LET T == S \cup UNION {next[h] : h \in S}
        IN  IF T = S THEN S ELSE grow[T]
  IN  grow[seeds]

\* The include closure of a set of headers.
Reach(v, S) == Closure([h \in Headers |-> Tree[v][h].inc], S)

(***************************************************************************)
(* gfm_headers_of: the public headers no other public header includes,     *)
(* then, while a public header is out of reach, the sources of what is     *)
(* missing, or its smallest member when it has no source.                  *)
(***************************************************************************)
SourcesOf(v, S) == {h \in S : \A g \in S \ {h} : h \notin Tree[v][g].inc}

PublicReach(v, l, S) ==
  Closure([h \in Headers |-> Tree[v][h].inc \cap Public[l]], S)

GfmHeadersOf(v, l) ==
  LET extend[chosen \in SUBSET Public[l]] ==
        LET missing == Public[l] \ PublicReach(v, l, chosen)
            sources == SourcesOf(v, missing)
        IN  IF missing = {} THEN chosen
            ELSE extend[chosen \cup
                        IF sources # {} THEN sources ELSE {Min(missing)}]
      sources == SourcesOf(v, Public[l])
  IN  IF sources = {} THEN Public[l] ELSE extend[sources]

(***************************************************************************)
(* What _parse_bundle keeps of that list: the headers whose includes all   *)
(* pass the clang++ gate.                                                  *)
(***************************************************************************)
GatePruned(v, gfm) ==
  {h \in gfm : \A g \in Reach(v, {h}) : Tree[v][g].compiles}

-----------------------------------------------------------------------------
(***************************************************************************)
(* dep_graph: the libraries whose headers are included from a seed header, *)
(* or from a header of no target library reached from one.  The walk does  *)
(* not continue through a header a target library owns, l itself included. *)
(***************************************************************************)
WalkedFrom(v, seeds) ==
  Closure([h \in Headers |-> {i \in Tree[v][h].inc : Owner[i] = Shared}], seeds)

DepsFrom(v, l, seeds) ==
  {Owner[i] : i \in UNION {Tree[v][h].inc : h \in WalkedFrom(v, seeds)}}
    \ {l, Shared}

DepGraph(v) == [l \in Libs |-> DepsFrom(v, l, Public[l])]

(***************************************************************************)
(* topo_order: depth-first, dependencies in sorted order, the roots in     *)
(* TARGET_LIBS order; a library that is being visited is not entered again.*)
(***************************************************************************)
TopoOrder(graph) ==
  LET visit[l \in Libs, stack \in SUBSET Libs, order \in Seq(Libs)] ==
        IF l \in ToSet(order) \cup stack THEN order
        ELSE Append(FoldLeft(LAMBDA acc, dep : visit[dep, stack \cup {l}, acc],
                             order, Sorted(graph[l])),
                    l)
  IN  FoldLeft(LAMBDA acc, l : visit[l, {}, acc], << >>, TargetLibs)

-----------------------------------------------------------------------------
(***************************************************************************)
(* The entities of one bundle.  A USR is either a declaration or a name    *)
(* injected by a using-declaration ("inject:" in the code).                *)
(***************************************************************************)
Decl(h)   == <<"decl", h>>
Inject(h) == <<"inject", h>>
Usrs      == {"decl", "inject"} \X Headers

\* The library a record belongs to when library l is processed.
Home(l, u) == IF u[1] = "inject" THEN l ELSE Owner[u[2]]

\* collect_candidates: entities of the bundle owned by l or by no library.
Candidates(v, l, bundle) ==
  {h \in Reach(v, bundle) : Owner[h] \in {l, Shared}}

\* closure_from: everything the signatures of those entities lead to.
SignatureClosure(v, S) == Closure([h \in Headers |-> Tree[v][h].sig], S)

Declarations(v, l, bundle) ==
  {Decl(h) : h \in SignatureClosure(v, Candidates(v, l, bundle))}

\* collect_injections: the names re-published in the bundle, before those an
\* earlier library injected are taken out.
UsingNames(v, l, bundle) ==
  UNION {Tree[v][h].using : h \in Candidates(v, l, bundle)}

\* collect_curated: the curated names the bundle declares, claimed or not.
CuratedNames(v, l, bundle) == Curated[v][l] \cap Reach(v, bundle)

\* The entities the exported declarations of S mention, in signature or body.
Mentions(v, S) ==
  {Decl(g) : g \in UNION {Tree[v][h].sig \cup Tree[v][h].body :
                              h \in {x \in Headers : Decl(x) \in S}}}

-----------------------------------------------------------------------------
(***************************************************************************)
(* The tables the generator works with: what it finds on revision v before *)
(* it parses anything, and the bundle of each library when the include     *)
(* list is the one of revision g and the texts are those of revision v.    *)
(* The bundle leads to other libraries from the gate-pruned includes, or   *)
(* from every public header when the gate left none.                       *)
(***************************************************************************)
SurveyOf(v) ==
  [graph   |-> DepGraph(v),
   order   |-> TopoOrder(DepGraph(v)),
   gfm     |-> [l \in Libs |-> GfmHeadersOf(v, l)],
   closure |-> [l \in Libs |-> [h \in Reach(v, GfmHeadersOf(v, l)) |-> Tree[v][h]]]]

BundleOf(g, v, l) ==
  LET bundle[kept \in SUBSET Headers] ==
        [declarations |-> Declarations(v, l, kept),
         using_names  |-> UsingNames(v, l, kept),
         curated      |-> CuratedNames(v, l, kept),
         headers      |-> Reach(v, kept),
         extra_deps   |-> DepsFrom(v, l, IF kept = {} THEN Public[l] ELSE kept)]
  IN  bundle[GatePruned(v, GfmHeadersOf(g, l))]
=============================================================================
