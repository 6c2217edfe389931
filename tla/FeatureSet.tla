----------------------------- MODULE FeatureSet -----------------------------
(***************************************************************************)
(* From the .deps files to `import boost;`: scripts/gen_features.py writes *)
(* the feature tables of mcpp.toml and the two lists beside it, mcpp       *)
(* activates features by those tables, and build.mcpp checks the profiles  *)
(* and writes the aggregate module from the lists.                         *)
(*                                                                         *)
(* A library, its feature and its module share a name.                     *)
(***************************************************************************)
EXTENDS Naturals, FiniteSets

CONSTANTS
  Libs,         \* the libraries that ever have a feature
  Candidates,   \* DEFAULT_CANDIDATES
  ModuleLess,   \* features without a module interface (log, unit_test_framework)
  FeatureOnly,  \* FEATURE_ONLY_SOURCES: kept out of the base sources
  TUs,          \* TUs[l]: what the globs of l match
  Skipped,      \* what the compiler at hand cannot re-export from the aggregate
  Revs,         \* revisions of the tables and of the .deps files
  Table,        \* Table[r]: see Tables
  Requests,     \* the sets of features consumers ask for
  Arches,       \* target architectures
  AnyArch,      \* a profile without an architecture
  None          \* a file that was never written

\* A profile feature, the one axis it decides and what it brings.
IsProfile(p) ==
  /\ DOMAIN p = {"feature", "axis", "arch", "sources", "implies"}
  /\ p.arch \in Arches \cup {AnyArch}
  /\ p.sources \subseteq UNION {TUs[l] : l \in Libs} /\ p.implies \subseteq Libs

\* LIBS, the union of the .deps edges and EXTRA_IMPLIES, PROFILE_OWNED and
\* PROFILE_FEATURES: no feature twice, and what a profile brings and a glob
\* matches is owned.
IsTable(t) ==
  /\ DOMAIN t = {"libs", "edges", "owned", "profiles"}
  /\ Candidates \subseteq t.libs /\ t.libs \subseteq Libs
  /\ t.edges \in [t.libs -> SUBSET t.libs]
  /\ \A l \in t.libs : t.owned[l] \subseteq TUs[l]
  /\ \A p \in t.profiles :
       /\ IsProfile(p)
       /\ \A l \in t.libs : p.sources \cap TUs[l] \subseteq t.owned[l]
  /\ \A p, q \in t.profiles : p.feature = q.feature => p = q

ASSUME FeatureAssumption ==
  /\ Candidates \subseteq Libs /\ ModuleLess \subseteq Libs
  /\ FeatureOnly \subseteq Libs /\ Skipped \subseteq Libs
  /\ \A r \in Revs : IsTable(Table[r])

VARIABLES
  rev,          \* the tables and .deps files in the work tree
  toml,         \* the generated blocks of mcpp.toml
  lst,          \* features.lst
  plst,         \* profiles.lst
  gen,          \* the running gen_features.py: its tables and how far it is
  checked,      \* ghost: --check passed, and no file changed since
  out,          \* boost.cppm in the build tree, see Aggregate, or None
  build         \* the last build

vars == <<rev, toml, lst, plst, gen, checked, out, build>>

committed == <<toml, lst, plst>>

-----------------------------------------------------------------------------
\* Where a loop that adds to seeds what next leads to comes to rest: the least
\* set around the seeds that next does not lead out of.
Closed(next, S) == \A l \in S : next[l] \subseteq S

Closure(next, seeds) ==
  {l \in DOMAIN next :
     \A S \in SUBSET DOMAIN next : seeds \subseteq S /\ Closed(next, S) => l \in S}

(***************************************************************************)
(* gen_features.py, as functions of the tables.                            *)
(***************************************************************************)
\* Deviation: the candidates and what they imply, not what that implies.
DefaultClosure_OneStep(t) == Candidates \cup UNION {t.edges[l] : l \in Candidates}

\* The candidates, and with a library what it implies, until nothing is added.
DefaultClosure(t) == Closure(t.edges, Candidates)

\* Deviation: the globs are taken as they are.
FeatureSources_WholeGlob(t, l) == TUs[l]

\* The globs of a library without the files a profile owns.
FeatureSources(t, l) == TUs[l] \ t.owned[l]

\* all_sources: what `mcpp test` compiles whatever is active.
BaseSources(t) == UNION {FeatureSources(t, l) : l \in t.libs \ FeatureOnly}

TomlOf(t) ==
  [default |-> DefaultClosure(t),
   implies |-> t.edges,
   sources |-> [l \in t.libs |-> FeatureSources(t, l)],
   base |-> BaseSources(t),
   profiles |-> t.profiles]

PlstOf(t) == {[axis |-> p.axis, feature |-> p.feature, arch |-> p.arch] : p \in t.profiles}

\* Deviation: --check does not look at profiles.lst.
CheckCommitted_NoProfiles ==
  toml = TomlOf(Table[rev]) /\ lst = Table[rev].libs

CheckCommitted ==
  /\ toml = TomlOf(Table[rev])
  /\ lst = Table[rev].libs
  /\ plst = PlstOf(Table[rev])

-----------------------------------------------------------------------------
(***************************************************************************)
(* mcpp (external): a feature brings what it implies.  A request starts    *)
(* from the default set or from nothing, and names only what is declared.  *)
(***************************************************************************)
Activated(request) ==
  LET profiles == {p \in toml.profiles : p.feature \in request.features}
      asked    == request.features
                    \cup (IF request.default THEN toml.default ELSE {})
                    \cup UNION {p.implies : p \in profiles}
  IN  [libs |-> Closure(toml.implies, asked \cap DOMAIN toml.implies),
       profiles |-> profiles]

Compiled(active) ==
  UNION ({toml.sources[l] : l \in active.libs} \cup {p.sources : p \in active.profiles})

-----------------------------------------------------------------------------
(***************************************************************************)
(* build.mcpp.                                                             *)
(***************************************************************************)
Listed(active) ==
  {p \in plst : p.feature \in {q.feature : q \in active.profiles}}

Refused(active, arch) ==
  \/ \E p \in Listed(active) : p.arch \notin {AnyArch, arch}
  \/ \E p, q \in Listed(active) : p # q /\ p.axis = q.axis

Aggregate(imports) == [imports |-> imports, whole |-> TRUE]

\* One `export import` per listed library that is active and has a module.
Body(active) == Aggregate(((lst \cap active.libs) \ ModuleLess) \ Skipped)

-----------------------------------------------------------------------------
Init ==
  /\ rev \in Revs
  /\ toml = TomlOf(Table[rev]) /\ lst = Table[rev].libs /\ plst = PlstOf(Table[rev])
  /\ gen = None
  /\ checked = FALSE
  /\ out = None
  /\ build = None

\* A regeneration changes .deps files, a developer the tables.
EditTables(r) ==
  /\ rev' = r
  /\ checked' = FALSE
  /\ UNCHANGED <<committed, gen, out, build>>

WriteToml ==
  /\ gen = None
  /\ toml' = TomlOf(Table[rev])
  /\ gen' = [tables |-> rev, wrote |-> "toml"]
  /\ checked' = FALSE
  /\ UNCHANGED <<rev, lst, plst, out, build>>

WriteFeaturesLst ==
  /\ gen # None /\ gen.wrote = "toml"
  /\ lst' = Table[gen.tables].libs
  /\ gen' = [gen EXCEPT !.wrote = "lst"]
  /\ checked' = FALSE
  /\ UNCHANGED <<rev, toml, plst, out, build>>

WriteProfilesLst ==
  /\ gen # None /\ gen.wrote = "lst"
  /\ plst' = PlstOf(Table[gen.tables])
  /\ gen' = None
  /\ checked' = FALSE
  /\ UNCHANGED <<rev, toml, lst, out, build>>

\* gen_features.py dies between two of its files.
KillGenerator ==
  /\ gen # None
  /\ gen' = None
  /\ UNCHANGED <<rev, committed, checked, out, build>>

Check ==
  /\ checked' = CheckCommitted
  /\ UNCHANGED <<rev, committed, gen, out, build>>

Outcome(request, arch, outcome) ==
  LET active == Activated(request)
  IN  build' = [active |-> active, compiled |-> Compiled(active),
                owned |-> UNION {p.sources : p \in toml.profiles},
                arch |-> arch, outcome |-> outcome, checked |-> checked]

RefuseBuild(request, arch) ==
  /\ Refused(Activated(request), arch)
  /\ Outcome(request, arch, "refused")
  /\ UNCHANGED <<rev, committed, gen, checked, out>>

\* Deviation: an aggregate that is there is left alone.
Build_KeepsAggregate(request, arch) ==
  /\ ~Refused(Activated(request), arch)
  /\ out' = IF out = None THEN Body(Activated(request)) ELSE out
  /\ Outcome(request, arch, "ok")
  /\ UNCHANGED <<rev, committed, gen, checked>>

\* The aggregate is written when it differs from what is there.
Build(request, arch) ==
  /\ ~Refused(Activated(request), arch)
  /\ out' = Body(Activated(request))
  /\ Outcome(request, arch, "ok")
  /\ UNCHANGED <<rev, committed, gen, checked>>

\* The write fails or the program dies in it: the file was truncated before.
BuildCutShort(request, arch) ==
  /\ ~Refused(Activated(request), arch)
  /\ out # Body(Activated(request))
  /\ out' = [Body(Activated(request)) EXCEPT !.whole = FALSE]
  /\ Outcome(request, arch, "failed")
  /\ UNCHANGED <<rev, committed, gen, checked>>

Next ==
  \/ \E r \in Revs : EditTables(r)
  \/ WriteToml \/ WriteFeaturesLst \/ WriteProfilesLst \/ KillGenerator
  \/ Check
  \/ \E request \in Requests, arch \in Arches :
       RefuseBuild(request, arch) \/ Build(request, arch) \/ BuildCutShort(request, arch)

Spec == Init /\ [][Next]_vars
-----------------------------------------------------------------------------
\* The default features bring nothing but default features, whatever moment
\* the tables on disk are from.
DefaultClosed ==
  \A l \in toml.default : toml.implies[l] \subseteq toml.default

\* A file a profile owns is compiled only by a profile, never because its
\* library is active, and the base sources never hold it.
OwnedByProfile ==
  /\ \A p \in toml.profiles : toml.base \cap p.sources = {}
  /\ build # None =>
       build.compiled \cap build.owned \subseteq
         UNION {p.sources : p \in build.active.profiles}

\* On a tree --check accepts, `import boost;` brings exactly the modules that
\* are active, whatever an earlier build left in the build tree.
AggregateIsActive ==
  build # None /\ build.outcome = "ok" /\ build.checked =>
    out = Aggregate((build.active.libs \ ModuleLess) \ Skipped)

\* On a tree --check accepts, no build goes through with two profiles of one
\* axis or with a profile of another architecture.
OneProfilePerAxis ==
  build # None /\ build.outcome = "ok" /\ build.checked =>
    \A p, q \in build.active.profiles :
      /\ p.arch \in {AnyArch, build.arch}
      /\ p # q => p.axis # q.axis
=============================================================================
