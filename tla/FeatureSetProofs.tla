--------------------------- MODULE FeatureSetProofs ---------------------------
(***************************************************************************)
(* The safety properties of FeatureSet, for any libraries, tables,         *)
(* requests and architectures FeatureAssumption allows, and any            *)
(* interleaving of edits, broken-off generations, checks and builds.       *)
(***************************************************************************)
EXTENDS FeatureSet, TLAPS

\* What a closure adds is declared, and it leads nowhere else.
LEMMA ClosureIsClosed ==
  ASSUME NEW next, NEW seeds, \A l \in DOMAIN next : next[l] \subseteq DOMAIN next
  PROVE  /\ Closure(next, seeds) \subseteq DOMAIN next
         /\ Closed(next, Closure(next, seeds))
  <1>1. Closure(next, seeds) \subseteq DOMAIN next
    BY DEF Closure
  <1>2. ASSUME NEW l \in Closure(next, seeds), NEW m \in next[l]
        PROVE  m \in Closure(next, seeds)
    <2>1. l \in DOMAIN next /\ m \in DOMAIN next
      BY <1>1
    <2>2. ASSUME NEW S \in SUBSET DOMAIN next, seeds \subseteq S, Closed(next, S)
          PROVE  m \in S
      <3>1. l \in S
        BY <2>2 DEF Closure
      <3> QED
        BY <2>2, <3>1 DEF Closed
    <2> QED
      BY <2>1, <2>2 DEF Closure
  <1> QED
    BY <1>1, <1>2 DEF Closed

\* The block of mcpp.toml a revision of the tables gives.
LEMMA TomlOfTable ==
  ASSUME NEW r \in Revs
  PROVE  LET toml_r == TomlOf(Table[r])
         IN  /\ DOMAIN toml_r.implies = Table[r].libs
             /\ toml_r.implies = Table[r].edges
             /\ \A l \in Table[r].libs : toml_r.implies[l] \subseteq Table[r].libs
             /\ toml_r.default = Closure(Table[r].edges, Candidates)
             /\ toml_r.profiles = Table[r].profiles
             /\ toml_r.base = BaseSources(Table[r])
             /\ \A l \in Table[r].libs : toml_r.sources[l] = TUs[l] \ Table[r].owned[l]
  BY FeatureAssumption DEF IsTable, TomlOf, DefaultClosure, FeatureSources

-----------------------------------------------------------------------------
(***************************************************************************)
(* The inductive invariant: the generated block is, at every moment, that  *)
(* of one revision of the tables, and the ghost checked means what         *)
(* --check looked at.  profiles.lst and features.lst may be of any other   *)
(* revision until a check has passed.                                      *)
(***************************************************************************)
TomlOfOneRevision == \E r \in Revs : toml = TomlOf(Table[r])

IInv ==
  /\ rev \in Revs
  /\ TomlOfOneRevision
  /\ checked => CheckCommitted
  /\ OwnedByProfile
  /\ AggregateIsActive
  /\ OneProfilePerAxis

\* A library that is active is declared.
LEMMA ActiveIsDeclared ==
  ASSUME IInv, NEW request
  PROVE  /\ Activated(request).libs \subseteq DOMAIN toml.implies
         /\ Activated(request).profiles \subseteq toml.profiles
  BY DEF Activated, Closure

\* On a checked tree the lists are those of the block of mcpp.toml.
LEMMA CheckedLists ==
  ASSUME IInv, checked
  PROVE  /\ lst = DOMAIN toml.implies
         /\ plst = PlstOf(Table[rev]) /\ toml.profiles = Table[rev].profiles
  BY TomlOfTable DEF IInv, CheckCommitted

\* What a build compiles of the files profiles own comes from profiles.
LEMMA CompilesOwned ==
  ASSUME IInv, NEW request, NEW x \in Compiled(Activated(request)),
         NEW p \in toml.profiles, x \in p.sources
  PROVE  x \in UNION {q.sources : q \in Activated(request).profiles}
  <1> DEFINE active == Activated(request)
  <1>1. PICK r \in Revs : toml = TomlOf(Table[r])
    BY DEF IInv, TomlOfOneRevision
  <1>2. CASE \E l \in active.libs : x \in toml.sources[l]
    <2>1. PICK l \in active.libs : x \in toml.sources[l]
      BY <1>2
    <2>2. l \in Table[r].libs
      BY <1>1, ActiveIsDeclared, TomlOfTable
    <2>3. x \in TUs[l] \ Table[r].owned[l] /\ p \in Table[r].profiles
      BY <1>1, <2>1, <2>2, TomlOfTable
    <2> QED
      BY <2>2, <2>3, FeatureAssumption DEF IsTable
  <1>3. CASE \E q \in active.profiles : x \in q.sources
    BY <1>3
  <1> QED
    BY <1>2, <1>3 DEF Compiled

\* A build that goes through on a checked tree has one profile per axis.
LEMMA NotRefused ==
  ASSUME IInv, checked, NEW request, NEW arch, ~Refused(Activated(request), arch),
         NEW p \in Activated(request).profiles, NEW q \in Activated(request).profiles
  PROVE  p.arch \in {AnyArch, arch} /\ (p # q => p.axis # q.axis)
  <1> DEFINE active == Activated(request)
             entry(x) == [axis |-> x.axis, feature |-> x.feature, arch |-> x.arch]
  <1>1. p \in Table[rev].profiles /\ q \in Table[rev].profiles
    BY ActiveIsDeclared, CheckedLists
  <1>2. entry(p) \in Listed(active) /\ entry(q) \in Listed(active)
    BY <1>1, CheckedLists DEF PlstOf, Listed
  <1>3. p # q => entry(p) # entry(q)
    <2>1. p # q => p.feature # q.feature
      BY <1>1, FeatureAssumption DEF IInv, IsTable
    <2> QED
      BY <2>1
  <1>4. entry(p).arch = p.arch /\ entry(p).axis = p.axis /\ entry(q).axis = q.axis
    OBVIOUS
  <1> HIDE DEF entry
  <1> QED
    BY <1>2, <1>3, <1>4 DEF Refused
-----------------------------------------------------------------------------
LEMMA IInvInit == Init => IInv
  <1> SUFFICES ASSUME Init PROVE IInv
    OBVIOUS
  <1>1. OwnedByProfile
    <2>1. ASSUME NEW p \in toml.profiles PROVE toml.base \cap p.sources = {}
      BY <2>1, TomlOfTable, FeatureAssumption DEF Init, IsTable, BaseSources, FeatureSources
    <2> QED
      BY <2>1 DEF Init, OwnedByProfile
  <1> QED
    BY <1>1 DEF Init, IInv, TomlOfOneRevision, CheckCommitted, AggregateIsActive,
                OneProfilePerAxis

\* A step that builds nothing and writes no block of mcpp.toml.
LEMMA ListsKeep ==
  ASSUME IInv, UNCHANGED <<toml, out, build>>, rev' \in Revs,
         checked' => CheckCommitted'
  PROVE  IInv'
  BY DEF IInv, TomlOfOneRevision, OwnedByProfile, AggregateIsActive, OneProfilePerAxis

LEMMA WriteTomlKeeps ==
  ASSUME IInv, WriteToml
  PROVE  IInv'
  <1>1. toml' = TomlOf(Table[rev]) /\ UNCHANGED <<rev, out, build>> /\ ~checked'
    BY DEF WriteToml
  <1>2. ASSUME NEW p \in toml'.profiles PROVE toml'.base \cap p.sources = {}
    BY <1>1, <1>2, TomlOfTable, FeatureAssumption
    DEF IInv, IsTable, BaseSources, FeatureSources
  <1>3. OwnedByProfile'
    BY <1>1, <1>2 DEF IInv, OwnedByProfile
  <1> QED
    BY <1>1, <1>3 DEF IInv, TomlOfOneRevision, AggregateIsActive, OneProfilePerAxis

\* Every kind of build records what it was given; one that goes through leaves
\* the aggregate of what is active.
LEMMA BuildKeeps ==
  ASSUME IInv, NEW request, NEW arch, NEW outcome \in {"ok", "refused", "failed"},
         Outcome(request, arch, outcome), UNCHANGED <<rev, committed, gen, checked>>,
         outcome = "ok" => /\ ~Refused(Activated(request), arch)
                           /\ out' = Body(Activated(request))
  PROVE  IInv'
  <1> DEFINE active == Activated(request)
  <1>1. /\ build'.active = active /\ build'.compiled = Compiled(active)
        /\ build'.owned = UNION {p.sources : p \in toml.profiles}
        /\ build'.arch = arch /\ build'.outcome = outcome /\ build'.checked = checked
    BY DEF Outcome
  <1>2. OwnedByProfile'
    <2>1. Compiled(active) \cap UNION {p.sources : p \in toml.profiles}
            \subseteq UNION {p.sources : p \in active.profiles}
      BY CompilesOwned
    <2> QED
      BY <1>1, <2>1 DEF IInv, OwnedByProfile, committed
  <1>3. AggregateIsActive'
    <2>1. checked => lst \cap active.libs = active.libs
      BY CheckedLists, ActiveIsDeclared
    <2> QED
      BY <1>1, <2>1 DEF AggregateIsActive, Body
  <1>4. OneProfilePerAxis'
    BY <1>1, NotRefused DEF OneProfilePerAxis
  <1> QED
    BY <1>2, <1>3, <1>4 DEF IInv, TomlOfOneRevision, CheckCommitted, committed

\* Every reachable state satisfies the inductive invariant.
THEOREM Inductive == Spec => []IInv
  <1>1. IInv /\ [Next]_vars => IInv'
    <2> SUFFICES ASSUME IInv, [Next]_vars PROVE IInv'
      OBVIOUS
    <2>1. CASE \E r \in Revs : EditTables(r)
      BY <2>1, ListsKeep DEF EditTables, committed
    <2>2. CASE WriteToml
      BY <2>2, WriteTomlKeeps
    <2>3. CASE WriteFeaturesLst
      BY <2>3, ListsKeep DEF WriteFeaturesLst, IInv
    <2>4. CASE WriteProfilesLst
      BY <2>4, ListsKeep DEF WriteProfilesLst, IInv
    <2>5. CASE KillGenerator
      BY <2>5, ListsKeep DEF KillGenerator, IInv, committed, CheckCommitted
    <2>6. CASE Check
      BY <2>6, ListsKeep DEF Check, IInv, committed, CheckCommitted
    <2>7. ASSUME NEW request \in Requests, NEW arch \in Arches,
                 \/ RefuseBuild(request, arch) \/ Build(request, arch)
                 \/ BuildCutShort(request, arch)
          PROVE  IInv'
      <3>1. CASE RefuseBuild(request, arch)
        BY <3>1, BuildKeeps DEF RefuseBuild
      <3>2. CASE Build(request, arch)
        BY <3>2, BuildKeeps DEF Build
      <3>3. CASE BuildCutShort(request, arch)
        BY <3>3, BuildKeeps DEF BuildCutShort
      <3> QED
        BY <2>7, <3>1, <3>2, <3>3
    <2>8. CASE UNCHANGED vars
      BY <2>8, ListsKeep DEF vars, IInv, CheckCommitted
    <2> QED
      BY <2>1, <2>2, <2>3, <2>4, <2>5, <2>6, <2>7, <2>8 DEF Next
  <1> QED
    BY <1>1, IInvInit, PTL DEF Spec
-----------------------------------------------------------------------------
\* The default features bring only default features, in whatever order tables
\* are edited and generations broken off (default_closure, assert_closed).
THEOREM DefaultsStayClosed == Spec => []DefaultClosed
  <1>1. IInv => DefaultClosed
    <2> SUFFICES ASSUME NEW r \in Revs, toml = TomlOf(Table[r]) PROVE DefaultClosed
      BY DEF IInv, TomlOfOneRevision
    <2>1. Closed(toml.implies, toml.default)
      BY TomlOfTable, ClosureIsClosed
    <2> QED
      BY <2>1 DEF DefaultClosed, Closed
  <1> QED
    BY <1>1, Inductive, PTL

\* A file a profile owns is compiled by a profile or not at all, whatever the
\* lists beside mcpp.toml say (feature_sources, PROFILE_OWNED).
THEOREM OwnedFilesNeedProfile == Spec => []OwnedByProfile
  <1>1. IInv => OwnedByProfile
    BY DEF IInv
  <1> QED
    BY <1>1, Inductive, PTL

\* On a tree --check accepts, `import boost;` is what is active, whatever builds
\* left behind, cut short or for other requests (the aggregate of build.mcpp).
THEOREM AggregateFollowsFeatures == Spec => []AggregateIsActive
  <1>1. IInv => AggregateIsActive
    BY DEF IInv
  <1> QED
    BY <1>1, Inductive, PTL

\* On a tree --check accepts, build.mcpp lets one profile per axis through, and
\* none of another architecture.
THEOREM ConflictsAreRefused == Spec => []OneProfilePerAxis
  <1>1. IInv => OneProfilePerAxis
    BY DEF IInv
  <1> QED
    BY <1>1, Inductive, PTL
=============================================================================
