# boost-module: TLA+ models of the generation pipeline

boost-module wraps Boost in C++23 named modules and builds them with `mcpp`.
Almost all of the repository is vendored Boost; its own logic is a set of
Python scripts that import Boost, turn its headers into committed snapshots
(`src/gen_exports/<lib>.inc`, `<lib>.deps`, `src/<lib>.cppm`) and feature
tables (`mcpp.toml`), and a build program (`build.mcpp`) that assembles
`import boost;`. These modules specify those scripts. `PROJECT.json` lists the
runs, the source lines each definition models, the hazards and the findings.

## 1. Inventory

| Part | Source | State it keeps | Operations | What makes it correct |
|---|---|---|---|---|
| Export generator | `scripts/gen_exports.py` `main`, `emit_inc`, `emit_cppm` | `.inc`, `.deps`, `.cppm`, `<lib>.skip.json` | one run: keys, per library hit or parse, pass 2, cache, drafts | a settled tree is what a run from an empty disk writes |
| Header survey | `scripts/boost_common.py`, helpers of `gen_exports.py` | none | include lists, library graph, processing order, records | the inputs of the generator are functions of the headers |
| Pass 2 | `merge_body_edges` | `.deps` | decide candidate edges, rewrite files | imports stay free of circles and reach what bodies need |
| Bundle gate | `_parse_bundle` | `<lib>.gate.json` | compile, prune, cache the verdict | the verdict is the one of the headers on disk |
| Sysroot | `scripts/fetch_mingw_sysroot.py` | archives, part files, tree, marker | fetch, check, print path | only the pinned archive is unpacked; a retry succeeds |
| Import | `scripts/import_boost.py` | tarball, `deps/boost` | download, verify, remove, extract | the tree is given up only for verified bytes |
| Hand edits | `scripts/reapply_hand_edits.py` | the edited files | patch, guard, ensure, restore | a replay applies and restores the committed tree |
| Verification | `scripts/ci/verify_generated.py` | the work tree | the steps in order, `git diff` | "ok" only on the committed tree |
| Features | `scripts/gen_features.py`, `build.mcpp` | `mcpp.toml`, `features.lst`, `profiles.lst`, `boost.cppm` | write, `--check`, build | `import boost;` brings the active modules, one profile per axis |
| Toolchain discovery | `boost_common.py` 204-417 | a cached module | find the sysroot, libclang and the builtin headers | what a process parses with fits together |
| Audit | `scripts/gen_audit.py` | a report | read, write | what the exporter drops is listed |
| Release | `package-source.sh`, `ci/update_mcpp_index.py`, `release.yml` | GitHub and GitCode release, mirror, index branch, pull request | three jobs, their losses and reruns | the index lists what both sites serve, and gets every version |

**How they interact.** The parts share files, not memory. `import_boost.py`
writes the headers; `fetch_mingw_sysroot.py` writes the system headers the gate
compiles against; `gen_exports.py` reads both and writes snapshots and drafts;
`reapply_hand_edits.py` edits the snapshots, the drafts and the vendored
headers; `gen_features.py` reads the `.deps` files; `build.mcpp` reads its
lists; `verify_generated.py` runs all of them and compares with `HEAD`. A pushed
tag starts the release jobs, which share the releases, the mirror and the
package index with the jobs of every other tag. Within a script the downloads of
the sysroot are the only threads.

**What is hard.** Every script is a sequence of file writes that can be killed
anywhere, is started again over what the last run left, and trusts caches,
markers or the mere presence of files. First-wins ownership makes the output of
one library depend on which libraries were processed before it, so a cache hit
must reproduce effects and not only a file. The hazards with their lines are
in `PROJECT.json`.

## 2. Modules

| Module | Models | State and actions |
|---|---|---|
| `BoostTree` | the header survey, one entity per header | operators on a vendored tree of numbered headers: `GfmHeadersOf`, `DepGraph`, `TopoOrder`, `Declarations`, `Mentions`; `SurveyOf`/`BundleOf` bundle them into the tables the generator uses |
| `Declarations` | what an exportable entity is, who owns it, what the audit lists of the rest | operators on a sequence of declarations: `HomeLibOfFile`, `LibOfInclude`, `Home`, `Candidates`, `Statics`, `Friends` |
| `UsingNames` | `collect_injections` | operators on one using-declaration or -directive and the entities of a unit: `UsingRecords`, `DirectiveRecords` |
| `VarTemplates` | the textual half of `collect_body_edges` | operators on tokens and name chains: `Classify`, `Initializer`, `Chains`, `Referred`, `EdgesOf` |
| `Toolchain` | discovery in `boost_common.py` | `BundledSysroot`, `CurrentRoot`, `LoadLibclang`, `ResourceDir`, `GetCi` as functions of what is on the host |
| `DepsFiles` | graphs of `.deps` files | `Reachable`, `Acyclic`, `Wanted`, `AddEdge`, `Consider` |
| `GenExports` | `gen_exports.py` | the disk (`rev`, `inc`, `deps`, `cppm`, `skip`), the locals of `main` (`run`) and how the last run ended (`last`); one action per file written: `PassOver`, `Replay`, `ParseAndEmitInc`, `EmitDeps`, `Merge`, `WriteMergedDeps`, `DropCacheEntry`, `WriteCacheEntry`, `EmitCppm`; users `EditHeaders`, `Start`, `LoseOutput`, `Kill` |
| `Regeneration` | what the generator promises | abstract: a file is only written with what a full run on the present headers with the same command line writes, and the files count as settled only when all are |
| `MergeBodyEdges` | `merge_body_edges` in detail | `Decide` takes one candidate, `Rewrite` one file |
| `Completion` | what pass 2 promises | abstract: the imports are completed, by a graph settled at the start, one whole file at a time |
| `BundleGate` | `_parse_bundle` and the line of `main` that calls it | `ReplayVerdict`, `GatePasses`, `GatePrunes`, `GateGivesUp`, `TakeApart`; between calls the headers and the system headers change |
| `FetchSysroot` | `fetch_mingw_sysroot.py` | phases of one process, one state per download thread, archives and part files; `Kill` anywhere |
| `ImportBoost` | `import_boost.py` | phases, the tarball and its `.part`, the tree member by member |
| `HandEdits` | `reapply_hand_edits.py`, `verify_generated.py` | how often each edit is in each file, the operation the replay is at, the stage of the verification |
| `IncLines` | the two edits of the replay that look at single lines | `GuardEntityLines`, `PatchText` on sequences of lines |
| `FeatureSet` | `gen_features.py`, `build.mcpp` | the three committed files written one by one, the aggregate, the last build; mcpp's activation is external |
| `Release` | `release.yml`, `package-source.sh` | what is published, the step and the runner of every job of every tag; a runner may be lost before or after a step took effect, any job of a finished run may be rerun; upstream merges pull requests that apply (external) |
| `VersionIndex` | the package index as `Release` needs it | the listed versions and their archives, and the newest, whose place the next branch edits |
| `DescriptorLines` | `update_mcpp_index.py` | the same edit line by line |
| `Algorithms` | what the pure algorithms are for | one variable, the input of one of them; the invariants compare the result with a reference definition |
| `*Proofs` | theorems, section 5 | |

`GenExports` uses `BoostTree` and `DepsFiles`; `MergeBodyEdges` takes its
atomic `Merge` apart, over the same `DepsFiles!Consider`. `Release` uses the
abstract `VersionIndex`, and `Algorithms` compares it with `DescriptorLines`.
`Algorithms` has no behaviour: every state is one input of one of the pure
algorithms, and the invariants compare the result with what it has to be, stated
the way C++ or the reader of the file sees it. The other `MC*` modules give the
constants their values. Definitions marked *Deviation* are the
same code with one plausible mistake; nothing refers to them but the list
`mutants`, which pairs each property with the mistake it catches.

**Abstractions.** A header declares one entity, named by the header; what an
entity is (kind, linkage, overloads) and how `.inc` text looks are left out. A
hash is what it hashes. In `SkipKey` the hash of the closure is the table of
header texts; the clang version, the flags and the generator's own text are
constants. In `Declarations` a unit is at most two declarations of one entity;
`UsingNames` and `VarTemplates` have the names and tokens spelled out, because
there the reading is what could be wrong. The release archive is one value per
build and name. A file is written in one step; the scripts do write in place, so a
kill in the middle of one file is a lost or unreadable file, and only
`FeatureSet` (the aggregate) and the archives and tree of the two downloaders
distinguish it.

## 3. Runs

Passing runs:

| Run | Question | Bounds |
|---|---|---|
| `cached` | do cached runs with different options equal full runs, step by step and as a refinement of `Regeneration`? | 3 libraries, 6 headers, 4 revisions of a chain of dependencies, 4 command lines, outputs lost between runs |
| `recovery` | does an uncached run repair what kills and failures left? | 2 revisions with opposite dependencies, `--emit-cppm`, all faults but edits during a run |
| `family` | do imports reach what bodies need, without circles, with one exporter per entity, and does the cache fill? | every tree of 44 include choices, kills, lost outputs, runs repeated for ever |
| `merge` | pass 2 in isolation: circles, whether the order of candidates matters, and whether it implements `Completion` and ends with all files written | all 64 graphs of 3 libraries, all candidate sets, all orders |
| `gate` | is the verdict, cached or not, the one of the loop? | 3 headers, 32 ways to fail, 2 rounds |
| `sysroot` | is only the pinned archive unpacked, are options obeyed, and does a retry succeed? | 6 command lines, 2 threads, 2 formats, 4 members, 3 faults |
| `import` | is the tree given up only for verified bytes, and does a rerun restore it? | 4 members, 3 faults |
| `hand_edits` | what stops a replay, what does a completed one leave, and is "ok" always true? | one operation of each kind, 8 files, one snapshot the cache may keep |
| `features` | tables, `--check` and build | 5 libraries, 2 revisions, 2 profiles of one axis, 6 requests, 2 architectures |
| `release` | does the index only list what both sites serve, and does every version get there? | 2 stable tags, 2 builds that differ, one lost runner or failed service, any number of reruns |
| `algorithms` | do the pure algorithms compute what they are for? | 18,791 inputs: descriptors of 2 platforms and up to 2 versions, export lists of up to 6 lines, 1 or 2 declarations of an entity, up to 3 overloads of a name, 40 variable templates, references in 2 namespaces, 5 nested directories, 2 installations and a wheel |

The violation run shows one statement of a document that the code does not keep;
`findings` quotes it:

- `sibling`: the skip key of a library does not see what unrelated libraries
  processed before it claim, so that a stale file is kept.

### Further divergences

These configurations are not among the listed runs; each refutes the properties
it names (`tlc -continue -config <cfg> MC<module>`, without `MC` for `ImportBoost`, shows
all of them, without `-continue` TLC stops at the first).

| Configuration | Property | What the code does |
|---|---|---|
| `GenExports_v_failure` | `SettledIsFullRun` | a failed run rewrites files behind cache entries that match again when the headers go back |
| | `HitMeansUpToDate` | an edit between the keys and the parse is stored under the key of the old text |
| `GenExports_v_failure` with `RunOpts <- Either`, `Faults = {}` | `SettledIsFullRun` | so does a `--no-cache` run |
| `GenExports_v_failure` with `Versions = {1, 2}`, `Tree <- CycleTree`, `Faults = {}` | `SettledIsFullRun` | a library that comes into an include cycle gets no key: its file is rewritten and its old entry stays, which matches again when the cycle is gone. `gen_exports.py:1515` calls leaving such libraries uncached "conservative" |
| `GenExports_v_detour` | `MentionsImportable` | pass 2 asks for no edge on behalf of a library it finds in the cache. When the files of two others are lost, those two are parsed again and their edges decided anew on a graph without them: an edge that a path refused before comes first now and refuses the other, and with that the imports of the cached library no longer reach what its bodies need. The run ends well (and empties the cache, so that the next one repairs it); `.agents/docs/2026-09-09-gen-exports-caching.md:10` calls the `.deps` a "deterministic function" of the inputs |
| `GenExports_v_sibling` with `Versions = {1}`, `Tree <- BodyTree`, `SPECIFICATION FairUsers`, `PROPERTY CacheForms` | `CacheForms` | a library with pass-2 edges has them dropped and added again in every run, and each addition empties the cache |
| `GenExports_v_staledeps` | `DepsFilesAreFullRun`, `DepsAcyclic` | `.deps` files are never removed; an old one and the imports of today can form a circle |
| `GenExports_v_shapes` | `OmittedIsHinted` | an entity of no target library, left to the first claimer, is hinted as one's own |
| | `ExportedOnce` | a library processed before an entity's home exports it, and so does the home |
| | `PrunedDoNotLeak` | an empty include list is taken for a missing one |
| `MergeBodyEdges_all` with `StaysMinimal` for its properties | `StaysMinimal` | an edge added early becomes redundant through one added later |
| `BundleGate_v` | `VerdictIsFresh` | a verdict reached with half a sysroot is replayed |
| | `FailureIsFinal` | the list of the last round is never compiled |
| | `FailureIsReported` | `_parse_bundle` returns a bare `None` that `main` unpacks as a pair, so that the error message and return code after it are never reached |
| `FetchSysroot_v` | `ForceDownloads` | `--force` does nothing when a sysroot is there |
| | `SuccessIsWhole` | a half-extracted tree counts as present |
| `ImportBoost_v_bytes` | `RerunReverts` | a complete download of wrong bytes fails every rerun |
| `HandEdits_v_cached` | `ReplayAlwaysApplies` | a patch over a kept snapshot and a fresh draft applies in neither direction, and the replay stops |
| `Release_v` | `ReleasedIsMirrored` | `push --force --prune` with tags fetched before another tag was pushed takes that tag off the mirror, though `release.yml:54` promises "every branch/tag" |
| | `UrlsExist` | `package-source.sh:10` names the archive by `git describe`, the index by the tag: with a stable tag and a preview on one commit the file of the URL does not exist |
| `Algorithms_v` | `GuardedAreLeft` | a line between two others in one `#if` is guarded again; only its neighbours are looked at |
| | `AnonymousIsAudited` | `gen_audit.py:235` asks for a `boost::` name, which an entity of an anonymous namespace does not have |
| | `FriendsAreAudited` | class templates are not among the audit's kinds, their friends are not looked for |
| | `PublicSpellingKept` | a relative target is looked for in the declaring namespace only, though `gen_exports.py:684-690` is about keeping the public name |
| | `NoInternalOverload` | the overloads of the public name are not looked at when the target has some |
| | `FalseMatchesSkipped` | an enclosing namespace's match with an edge of its own ends the search |
| | `FaceAddsNoEdge` | a name on the module's own face is passed over, and an outer or shorter one gives an edge after all |
| | `SecondMentionAddsNothing` | a name that gave an edge is in `_seen_pairs` and gives no second one, so that when it is mentioned again the search goes on to a shorter or an outer name, though `gen_exports.py:1386` says that "the first useful lookup wins" |
| | `HeadersMatch` | the first `lib/clang/*` of an installation is taken, whatever release libclang is |
| | `EveryFileIsOwned` | only `*.hpp` files are mapped to their library |

**Why the bounds are enough.** Ownership conflicts need two claimants and a
user of the entity, so three libraries; stale keys need a change and its
reversal, so two revisions, and three to change the processing order as well; a
fourth gives pass 2 an edge to add. A circle of imports over a hidden include
needs three libraries. A fault matters where it meets the leftovers of an
earlier one; three faults allow a failure, a failure of its repair and one more.
The pruning loop has 6 rounds over any number of headers; 2 rounds over 3
headers meet the limit as 6 over 7 do. A release race needs two tags, and one
loss leaves a job behind each of its steps, with reruns unbounded; a second
build lets a rerun package something else. The algorithms' inputs are built so
that each branch of the code and each rule of the reference definition decides
at least one of them. The family leaves out one shape, the
circle `1 -> 2 -> 3 -> 1` with a hidden first step, where the imports of pass 1
themselves form a circle; nothing in the code checks those.

**Conditions in the passing runs.** `ReplayEqualsFullRun` and
`HitMeansUpToDate` speak of runs whose headers do not change under them
(`rev = run.start`). `cached` uses trees where whoever claims a shared entity is
upstream of whoever else sees it, which the key does cover; `sibling` shows the
other case. `CacheFormsWithoutEdges` leaves out the libraries
with pass-2 edges of their own (`BodyTree` above). `MentionsImportable` holds in `family`, whose runs use the
cache, for want of libraries: `GenExports_v_detour` needs five to break it; section 5
says when it is true of any number. `Recovers` excepts an extraction that broke off behind
the files the tree is recognised by, and `RerunRevertsPinned` a tarball of
wrong bytes: the two situations of the configurations above.
`ReplayRestoresCommitted` excepts the files a failing `git checkout` was to
restore, which the replay does not notice, and `OnlyKeptSnapshotsStick` the
patches of a snapshot the cache kept. `OrderIrrelevant` speaks of candidates that
form no circle with what is on disk: where they do, which of them is refused does
depend on the order. `OptionsTakeEffect` says of `--force` what is true of it: if
the run gets as far as unpacking, it unpacks its own download. `EndsInIndex`
excepts a version whose own release is in the way (`InTheWay`): `gh release
create` and its GitCode counterpart refuse a release that an earlier attempt, or
a rerun of a job that was done, left. In `algorithms`, `OwnerIsDefined` is about headers named
`.hpp`, `TemplatesRead` excepts template headers with a `>>`,
`RecordsDenote` takes the targets the code can find (in the declaring namespace
or written out), `EdgeForReferenced` templates in a namespace of their own
library, `ToolchainFits` trees that were extracted whole and installations of
one release; the configurations above show what happens without.

`TypeOK` of `GenExports`, `BundleGate`, `FetchSysroot` and `Release`, `Served` and
`OnlyCompletes` of `MergeBodyEdges` and `VerifyDecides` of `HandEdits` hold in the
same configurations; they are not in them, because what they say is weaker than
the properties that are (or proved, for `FetchSysroot` and `MergeBodyEdges`).

## 4. Fairness

A started process goes on (`WF` of the generator and its pass 2, of a download
and its threads, of a replay and the verification): the scripts wait for no one.
GitHub's runners go on with what is waiting (`WF_vars(Runner(t))` per tag).
Nobody is obliged to start a run, to edit, or to kill, so `Start`,
`EditHeaders` and `Kill` have none in the specifications themselves. Four runs
ask what
happens *if* users go on, which is the hypothesis of the statements they check
("rerun", "re-running"): `family` (`FixedTree`) and `import` (`Persistent`) add
weak fairness to starting a run; `sysroot` (`Stubborn`) adds strong fairness to
starting a fetch, since other commands may be started in between; `release`
(`Tended`) adds strong fairness to a maintainer rerunning what failed or was
overtaken and to upstream merging what applies, since other tags' jobs and
merges come in between. Faults are
bounded, or excepted by name in the property (`Disturbance` in `CacheForms`).

## 5. Proofs

Every theorem is about the module's `Spec` (of `ImportBoost`: `ImportSpec`, since
`DownloadProofs` extends two modules) with the module's named assumptions,
and with a hypothesis only where one is named below; each proof module has an
inductive invariant `IInv`, a lemma or step per action, and the theorem
`Inductive == Spec => []IInv` the others follow from.

**`GenExportsProofs`**, for any headers, libraries, processing orders, command
lines and faults (`SurveyAssumption`, `BundleAssumption`, `OptionsAssumption`).
`DraftsReflectDeps` needs no hypothesis. The others are about what the
generator promises and therefore assume what the violations of section 3 show
to be needed, as the operator `Orderly`: no edit during a run, and either no
run reads the cache (then any faults), or every run does, none breaks off unless
all full runs write the same files (`FilesAgree`), and
`KeyIsSound`: whenever a library has the same key twice, a full run makes the
same of it both times, and a library that ever has a key always has one.
`TypeCorrect` and `MergeIsPassTwo`, like `DraftsReflectDeps`, are true of any cache,
faults and options.

| Theorem | Statement |
|---|---|
| `TypeCorrect` | `TypeOK` |
| `DraftsReflectDeps` | `CppmReflectsDeps` |
| `SnapshotsAreFullRun` | `SettledIsFullRun`, if `Orderly` |
| `ReplayIsExact` | `ReplayEqualsFullRun`, if `Orderly` |
| `HitsAreUpToDate` | `HitMeansUpToDate`, if `Orderly` |
| `NoTwoExporters` | `ExportedOnce`, if `Orderly` and `OwnersFirst` (no library is processed before the owner of an entity its records hold) |
| `NoImportCircles` | `DepsAcyclic`, if `Orderly` and `ImportsAgree` (all full runs list the same imports, which form no circle) |
| `BodiesResolve` | `MentionsImportable`, if `Orderly`, `OwnersDeclare` (what exported code mentions of a library is in the records of that library) and `BodiesRead` (no run reads the cache or, over all libraries, leaves out the bodies) |
| `HintsResolve` | `MentionsImportable`, if `Orderly`, `ImportsAgree`, `OwnersDeclare` and `BodiesHinted` (the imports of pass 1 suffice for what bodies mention) |
| `Implements` | `Spec => ImplementsRegeneration`, the refinement of `Regeneration`, if `Orderly` |
| `MergeIsPassTwo` | `[][Merge => TakesCandidates /\ AddsWhatIsAsked]_vars`: whenever a run merges, the graph it ends with is what `MergeBodyEdges` makes of the files there are and the candidates in order, and every import it adds was asked for by a body and not implied |

The hypotheses are formulas on constants, which TLC evaluates when they are
listed as invariants of a configuration:

| Hypothesis | True in | False in, where the property does fail |
|---|---|---|
| `Orderly` | `cached` (cached runs), `recovery` (uncached ones with kills and failures), each tree of `family` by itself | `sibling`, and `CycleTree` above (`KeyIsSound`) |
| `OwnersFirst` | `cached`, `recovery` | `GenExports_v_shapes` |
| `ImportsAgree` | each tree of `family` by itself, kills included | `GenExports_v_staledeps`, where `Orderly` holds |
| `OwnersDeclare` | all configurations | |
| `BodiesRead` | `recovery`, where TLC finds `MentionsImportable` true | `GenExports_v_detour`, where `Orderly`, `OwnersDeclare` and `ImportsAgree` hold |
| `BodiesHinted` | 20 of the 44 trees of `family`, each by itself | `GenExports_v_detour` |

`family` never edits (`FixedTree`), so that its behaviours are those of its trees one
by one. `ImportsAgree` stands for the headers being left alone as far as imports
go: since `.deps` files are never removed, the imports of two revisions mix.
So the theorems say that these are the only ways in which
the generator goes wrong, besides edits in a run, cached runs that break off
between two revisions, and mixtures of `--no-cache` with cached runs. That the
processing order names each
library once is part of `SurveyAssumption`, evaluated by TLC and not proved of
`TopoOrder`.

The argument. The full run is a recursive function over the order. `PassExists`
shows that a function with its equation exists, by induction on the length
(`SetInduction`, from `WFMin` of the well-founded naturals), and `FullPassStep`
gives the value at one place from the one before. From these, again by
induction on the place: the part a library contributes is not touched by later
ones (`FullPlace`), and replaying what the full run recorded of a library gives
the claims of the full run after it (`FullReplay`). `IInv` adds to the
properties what they rest on: the loop's claims and injected names are those of
the full run at the same place (`OnCourse`); everything it is done with is
written as in the full run (`FilesTrue`); what the cache is going to be told
is true (`PayloadsTrue`); and an entry on disk is true of every revision and
command line that has its key (`EntryTrue`), not only of the present one, since
the headers can go back. Between the writing of a file and the
writing of its entry the old entry is false and harmless: `Rewritten` says
when, and a kill in just that window is what `Orderly` excludes, unless the file
would have come out the same. For the refinement each action is shown to be a
write, a loss, an edit, the beginning or the settling of a run, or no step at
all, of `Regeneration`.

Types. That a bundle holds headers and a merge libraries is not in the shape of
the definitions, which are recursive functions on sets and sequences.
`ClosureIsVisited` shows, by induction on the headers not yet visited, that a
worklist ends with the least set that has its seeds and that no step leaves, in
whatever order it is taken; `IncludeList` that the include list stays among the
public headers though each of its rounds depends on the last; `KeysTyped` that
every library comes to have a key or `None`.

Imports. `CandidateTaken` takes what `MergeBodyEdgesProofs` shows of one candidate
over to `GenExports` (`Merging`, an instance of that module), and `AllTaken`
carries it through both loops (`HomeSteps`, `LibrarySteps`). That these loops are the
single one of `MergeBodyEdges` is `CandidatesListed`: the list of candidates is built
along with the graph, library by library and home by home (`Taken`), and each one
appended takes the `Outcome` one step on (`OutcomeOfAppend`); so `GenExports`, where
`Merge` is one step, and `MergeBodyEdges`, where each candidate is one, speak of the
same pass 2 (`MergeIsPassTwo`). By `AllTaken` pass 2 completes the graph it read, adds no circle,
and links the two libraries of every candidate. `DepsAcyclic` is not inductive,
since a lost `.deps` file comes back with its pass-1 imports while the edges added
without it are still there. `EdgesInv` therefore speaks of what the files list
*and* full runs would add to it (`Joint`): it has no circle, because pass 2 only
runs on a graph that holds the imports of all libraries (`HintsKept`; a hit
counts, since its entry knows whether there were any, `HintsListed`). For
`BodiesResolve`, `LinksInv` follows the candidates (`BodiesTrue`) into the graph
(`GraphLinked`) and the files (`FilesLinked`), from where on only the loss of a
file can undo them; `LinkedIsImportable` reads the property off. It was the
attempt to prove the same of cached runs that led to `GenExports_v_detour`: the
candidates of a hit are in no variable. `HintsResolve` is what remains true there.

**`BundleGateProofs`**, for any include list, headers, errors and number of
rounds (`GateAssumption`). `VerdictFitsText`: the list returned is always the
one the loop finds on the vendored headers of this moment with some state of the
system headers there is, and it compiled with them. `CachedVerdictIsFresh`:
`VerdictIsFresh`, if the system headers make no difference to any text
(`SystemIsIrrelevant`, which holds in `gate`; `BundleGate_v` is what happens
otherwise). `IInv` says that from any round on, what remains to be done from the
pruned list is what was to be done from the whole one (`Remaining`, a
recursive function handled as above), and the same of the verdict in the cache.

**`FeatureSetProofs`**, for any tables, requests and architectures
(`FeatureAssumption`): `DefaultsStayClosed`, `OwnedFilesNeedProfile`,
`AggregateFollowsFeatures`, `ConflictsAreRefused`. The closures are least sets
around their seeds (`ClosureIsClosed`), which is where the two loops come to
rest. `IInv` adds that the block of `mcpp.toml` is at every moment that of one
revision of the tables, while the lists may be of any other until `--check` has
passed.

**`MergeBodyEdgesProofs`**, for any libraries, every graph found on disk and every
list of candidates (`CandidatesAssumption`): `TypeCorrect`; `NoCircleIsClosed` (if
the files pass 1 left have no circle of imports, neither has the graph in memory
nor any state of the disk, those a kill leaves included); `EveryCandidateIsServed`
(`Served`); `OrderDoesNotMatter` (what the imports reach is what the edges found and
all candidates together reach, unless these form a circle); `PassTwoOnlyCompletes`
(`OnlyCompletes`); `Implements` (`Spec => ImplementsCompletion`).
The argument: `Reachable(g, a, b)` says that every set closed under `g` that
holds `a` holds `b`. `AddEdgeAcyclic` shows that a new edge `lib -> home` makes
a circle only when `home` already reaches `lib`, by exhibiting, for a library
on no circle before, a closed set without it after. `ReachableMonotone` and
`AcyclicMonotone` carry reachability up and circle-freeness down along
subgraphs. `KeepsAcyclic` is not inductive by itself, since it says of the disk
what is decided in memory: `IInv` says that the graph in memory completes what was
found with the candidates decided so far (`Completed`, kept by one more candidate:
`ConsiderCompletes`) and that the disk lies between what was found and that graph. For the order,
every edge asked for is served or closes a circle with the graph, which lies
within all that was asked for; without circles both graphs reach the same.

For the refinement the graph the files are completed to is, from the first moment
on, the one in memory taken through the candidates that are left (`Outcome`, a
recursive function, shown to have its values by `Stepwise` and to be the same
before and after a candidate is taken by `OutcomeOfTail`). `OutcomeCompletes`, by
induction on the candidates, says that it completes the files found with
everything asked for; so the initial states map to initial states of `Completion`,
`Decide` to no step, and `Rewrite` to the writing of one whole file. Whoever reads
the files of a process that was killed, or is still running, sees old and new
files of one completion and nothing else. That all are written in the end
(`EndsWritten`) is left to TLC.

**`DownloadProofs`** is about both downloaders. Of `FetchSysroot`, for any formats,
members, command lines, connections and faults (`SysrootAssumption`):
`TypeCorrect`, `OnlyPinnedIsUnpacked`, `NoThreadOutlives`, `MarkerVouches`,
`OptionsAreObeyed`. The properties need each other and one more conjunct,
`PhaseFitsOptions`: which phases a looking, a downloading and a forced run can be
in, which is how the early returns of `main` and the digest check reach the
extraction. Of `ImportBoost`, for any members and faults:
`TreeIsRecoverable`, `ImportIsWhole`. `ImportInv` adds `ImportPhaseFits`: from the
removal on the tarball is the verified one, and a tree in extraction has only kept
members.

**`HandEditsProofs`**, for any program of the shape `ShapeAssumption` names
(patches span files of `deps/` or of `src/` but not of both, the other edits
have one file, restored files are in no patch with another) and any cache and
`git` (`HitsAssumption`): `TypeCorrect` (no edit is ever applied twice),
`OnlyKeptStops`, `OkMeansCommitted`, `ReplayIsIdempotent`. `IInv` says where
edits can be (`Levels`), that what the replay has passed is as committed
(`Replayed`), and that all files of a patch hold it or none does, but after a
regeneration cut short or where the cache keeps a file (`Coherent`): a replay is
only started after a full regeneration, which is why a patch then applies in one
direction. `ShapeAssumption` is what the lists in `reapply_hand_edits.py` are
like, checked by TLC on the program of `MCHandEdits`.

**`ReleaseProofs`**, for any tags, previews, names, builds and faults
(`ReleaseAssumption`): `ListedIsServed`. `IndexServesArchive` is about published
state; `IInv` adds, per tag, what a job that got to some step has published or
carries (`Pipeline`), so that the archive the index job downloads is the one
both sites have, and that every branch offered lists such archives only.

**`AlgorithmsProofs`**, for inputs of any size (`InputsAssumption`: the
declarations of an entity differ in where they are and whether they define it, the
namespaces of what is declared are declared, an installation that has headers has
those of its release, the conditionals of an export list are well nested, the
block that replaces the anchor exports the anchor and nothing else, a
descriptor lists each platform once and on it each version once, and in a
variable template the angle brackets of the header pair, as parentheses, brackets
and braces do, a semicolon stands inside some of these, no `=` comes between the
first token that is the declared name and the declaration itself, and the names of
the initializer are maximal: what is between two of them is more than `::`; with
a `>>` in the header no angle bracket closes it). There is nothing to be inductive about, since the one
variable never changes; what is proved is that the algorithms agree with their
reference definitions on every input, where TLC has small ones.

| Theorem | Statement | Argument |
|---|---|---|
| `OwnersAreDefined` | `OwnerIsDefined` | for an entity defined in one library `Home` is that library at every declaration (`HomeOfDefinition`), and whether there is a candidate at all does not depend on which declaration comes first (`ExportedInAnyOrder`) |
| `DroppedAreAudited` | `DroppedIsAudited` | the declaration that decides the home is in the library, so that the walk of the audit meets it, as a friend or as one of its kinds (`ListedIsAudited`) |
| `RecordsAreRight` | `RecordsDenote` | by the cases of `collect_injections`: written out, found in the declaring namespace, or not found |
| `EdgesLead` | `EdgeForReferenced` | the search goes through the bases from inside out and through each from its end (`FirstHit`, `LongestPrefix`); inside the template's own library no deeper base is of use (`OwnNamespace`, `DeeperLeadsNowhere`), and of the base that is meant nothing longer is declared (`ReferredMeant`) |
| `EditsAreSettled` | `EditsSettle` | a list is written line by line, as the line or as three (`GuardSteps`, by induction over the lines with `SetInduction`): guarding leaves nothing to guard (`GuardSettles`), a list with nothing to guard stays as it is (`SettledIsStable`), and with two conditions neither undoes the other; no export is lost (`GuardKeepsUsings`), the conditionals it writes open and close between those that are there (`GuardNests`), and a line that is left alone by its neighbours is in a conditional (`HitsAreOpen`); the anchor has one place, and behind the patch its block is found there (`AnchorIsSettled`) |
| `PatchesAddVersions` | `PatchAddsVersion` | what `remove_entry` keeps of a descriptor is what it keeps of its pieces (`KeepsOfFlatten`, over `RemovalSteps`), and the first closing brace indented like the header of an entry is that entry's last line (`KeepsOfEntry`), so that an entry goes as a whole and nothing else does (`RemovedEverywhere`); the regular expression finds the one line of a listed platform (`ListedIsInserted`) and none of another (`UnlistedIsMissing`), hence `PatchedIsRendered` by induction over the platforms, and the version listed is the one `Release` adds (`AddedIsUpdated`) |
| `TemplatesAreRead` | `TemplatesRead` | the scan for names goes from token to token (`ScanSteps`): punctuation is passed (`PunctuationPassed`), a name is read to its end and what is behind it passed (`PartIsRead`), hence by induction over the names `InitializerIsRead`; as brackets pair, the nesting is what opened less what ended (`NestingIsDeep`), so that the declaration ends at the semicolon behind it and the initializer begins at its own `=` (`InitializerIsFound`); the depth in angle brackets finds the end of the header (`DepthOfHeader`), and with it whether arguments follow the name (`ClassIsTold`) |
| `ToolchainsFit` | `ToolchainFits` | the two scans take the first match of the least depth; each way `load_libclang` succeeds names the installation whose headers come first |

**Only model-checked.** `MentionsImportable` of cached runs where pass 2 has edges
to add: it is false of some trees and true of the 24 of `family` that are of this
kind. Liveness
(`CacheFormsWithoutEdges`, `EndsWritten`, `Recovers`, `RerunRevertsPinned`,
`EndsInIndex`) is out of the prover's reach.

## 6. Not modelled

- `gen_exports.py --scan` (rewrites `libs.json`) and `gen_audit.py --macros`
  (counts macros): one file from its inputs, nothing depends on it.
- The signature closure of templates type by type (`referenced_types`): in
  `BoostTree` it is the set of headers a signature mentions. The quirks of
  libclang's cursors that its helpers work around.
- The text of `.inc` files; platform guards other than as one edit per file, and
  as lines in `IncLines`.
- The platform's SDK (`GEN_SYSROOT` on macOS), the names of the library per
  platform, files that vanish between two looks of the discovery.
- The curated tables of `gen_features.py` and `reapply_hand_edits.py`: they are
  constants.
- The CI matrix, the C++ tests and the vendored code under `deps/boost`.

## 7. Plan

Done: the generator with its cache, pass 2, the gate, both downloaders, the hand
edits with their verification, the features, the release, the discovery of the
toolchain, and the algorithms on declarations, names, tokens and lines, with proofs
for all of them; and the composition of the generator with pass 2
(`MergeIsPassTwo`).

Next, in this order:

1. `Pipeline`: the composition of `GenExports`, `HandEdits` and `FeatureSet`
   over the same `.deps` files, which are now three constants.
2. The exactness of `gfm_headers_of` on include circles.
3. The signature closure over a small type grammar, in the manner of
   `Declarations`.
