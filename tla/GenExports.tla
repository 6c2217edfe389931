----------------------------- MODULE GenExports -----------------------------
(***************************************************************************)
(* scripts/gen_exports.py: the run that turns the vendored headers into    *)
(* the committed snapshots <lib>.inc and <lib>.deps, with its skip cache.  *)
(*                                                                         *)
(* The disk (rev, inc, deps, cppm, skip) outlives the runs; run holds the  *)
(* locals of main() and dies with the process.  Users edit the headers,    *)
(* start runs with the options they like, and kill them.                   *)
(***************************************************************************)
EXTENDS BoostTree

CONSTANTS
  Survey,       \* Survey[v]: the include lists, the graph and the order, computed
                \* once per run, see SurveyOf
  Bundle,       \* Bundle[g][v][l]: the bundle of l, see BundleOf
  Special,      \* LIBS_SPECIAL: hand-maintained modules, never generated
  RunOpts,      \* the command lines users give, see Options
  Faults,       \* what may go wrong: a subset of FaultKinds
  None          \* an absent file, a missing key, an unclaimed entity

Options ==
  [use_cache: BOOLEAN, full_closure: BOOLEAN, no_body_deps: BOOLEAN,
   emit_cppm: BOOLEAN, libs: SUBSET Libs]

\* How a run may end.
Endings == [outcome: {"ok", "failed", "killed"}, rev: Versions, opts: RunOpts]

FaultKinds == {"kill", "parse_failure", "edit_during_run", "lost_output"}

\* The tables are those of the vendored headers; the order names every library
\* once.
ASSUME SurveyAssumption ==
  /\ Survey = [v \in Versions |-> SurveyOf(v)]
  /\ \A v \in Versions : LET order == Survey[v].order
                          IN  /\ order \in Seq(Libs)
                              /\ \A l \in Libs : \E i \in DOMAIN order : order[i] = l
                              /\ \A i, j \in DOMAIN order : order[i] = order[j] => i = j

ASSUME BundleAssumption ==
  /\ Bundle = [g \in Versions |-> [v \in Versions |->
                 [l \in Libs |-> BundleOf(g, v, l)]]]

ASSUME OptionsAssumption ==
  /\ Special \subseteq Libs
  /\ RunOpts \subseteq Options
  /\ None \notin Libs /\ None \notin RunOpts \cup Endings
  /\ \A S \in SUBSET Libs : S # None
  /\ Faults \subseteq FaultKinds

VARIABLES
  rev,          \* the revision of the headers on disk
  inc,          \* inc[l]: the entities src/gen_exports/<l>.inc exports, or None
  deps,         \* deps[l]: the libraries <l>.deps lists, or None
  cppm,         \* cppm[l]: the imports of the drafted src/<l>.cppm, or None
  skip,         \* skip[l]: <l>.skip.json, or None
  run,          \* the locals of the running main(), or the idle value
  last          \* how the last run ended, on which revision, with which options

vars == <<rev, inc, deps, cppm, skip, run, last>>

Files == INSTANCE DepsFiles

-----------------------------------------------------------------------------
(***************************************************************************)
(* Computed once per run, before the loop over the libraries.              *)
(***************************************************************************)
\* Deviations: a key that forgets the texts of the headers, or that the run was
\* asked for full closures.
SkipKey_NoClosure(v, l, up, o) ==
  [bundle |-> Survey[v].gfm[l], closure |-> {}, curated |-> Curated[v][l],
   libs |-> o.libs, full_closure |-> o.full_closure,
   no_body_deps |-> o.no_body_deps, upstream |-> up]

\* _skip_key: what the digest covers, the upstream keys folded in.
SkipKey(v, l, up, o) ==
  [bundle |-> Survey[v].gfm[l],
   closure |-> Survey[v].closure[l],
   curated |-> Curated[v][l],
   libs |-> o.libs, full_closure |-> o.full_closure,
   no_body_deps |-> o.no_body_deps,
   upstream |-> up]

\* The keys in processing order: a library one of whose upstreams has no key
\* yet sits in an include cycle and gets none.
LibKeys(v, o) ==
  LET order == Survey[v].order
      up(l) == Survey[v].graph[l]
      keys[n \in 0..Len(order)] ==
        IF n = 0 THEN [l \in Libs |-> None]
        ELSE [keys[n - 1] EXCEPT ![order[n]] =
                IF \E u \in up(order[n]) : keys[n - 1][u] = None THEN None
                ELSE SkipKey(v, order[n], [u \in up(order[n]) |-> keys[n - 1][u]], o)]
  IN  keys[Len(order)]

\* The keys of every revision and command line.
KeysAt == [v \in Versions |-> [o \in RunOpts |-> LibKeys(v, o)]]

\* The libraries the loop does not pass over.
Work(o) == o.libs \ Special

-----------------------------------------------------------------------------
(***************************************************************************)
(* emit_inc and collect_body_edges, as functions of the records and of the *)
(* claims of the libraries processed before.                               *)
(***************************************************************************)
\* Deviation: what was claimed before is exported once more.
Exported_Again(l, records, claimed) == records

Exported(l, records, claimed) ==
  {u \in records : Home(l, u) = l \/ claimed[u] = None}

\* The homes of the entities left to the library that claimed them first.
HintedHomes(l, records, claimed) ==
  {Home(l, u) : u \in {x \in records : claimed[x] # None}} \ {l, Shared}

\* Deviation: only what nobody claimed is taken for a missing import.
BodyEdges_Unclaimed(v, l, records, claimed) ==
  {Owner[u[2]] : u \in {x \in Mentions(v, Exported(l, records, claimed)) :
                           claimed[x] = None}
                         \ Exported(l, records, claimed)} \ {l, Shared}

\* The homes of what exported bodies mention and this module does not export.
BodyEdges(v, l, records, claimed) ==
  {Owner[u[2]] : u \in Mentions(v, Exported(l, records, claimed))
                         \ Exported(l, records, claimed)} \ {l, Shared}

\* claimed.setdefault for every record.
ClaimAll(claimed, records, l) ==
  [u \in Usrs |-> IF claimed[u] = None /\ u \in records THEN l ELSE claimed[u]]

InjectAll(claimed_inject, names, l) ==
  [q \in Headers |->
     IF claimed_inject[q] = Shared /\ q \in names THEN l ELSE claimed_inject[q]]

NoClaims  == [u \in Usrs |-> None]
NoInjects == [q \in Headers |-> Shared]

\* collect_injections and collect_curated: what is re-published in the bundle and
\* not injected yet, and what the curated list forces.
NewNames(bundle, claimed_inject) ==
  {q \in bundle.using_names : claimed_inject[q] = Shared} \cup bundle.curated

Records(bundle, names) == bundle.declarations \cup {Inject(q) : q \in names}

-----------------------------------------------------------------------------
Idle == [phase |-> "idle"]

Running(p) == run.phase = p

\* The library the loop is at.
Current == run.order[run.next]

LoopDone == run.next > Len(run.order)

\* The libraries whose cache entry the run is going to write.
Parsed == DOMAIN run.payload

Key(l) == run.keys[l]

\* The hit condition: the key matches and the outputs are where it left them.
Usable(l) ==
  /\ run.opts.use_cache
  /\ Key(l) # None
  /\ skip[l] # None
  /\ skip[l].key = Key(l)
  /\ inc[l] # None
  /\ (deps[l] # None) <=> skip[l].deps_present

End(outcome) ==
  /\ run' = Idle
  /\ last' = [outcome |-> outcome, rev |-> run.start, opts |-> run.opts]

-----------------------------------------------------------------------------
(***************************************************************************)
(* The users.                                                              *)
(***************************************************************************)
EditHeaders(v) ==
  /\ Running("idle") \/ "edit_during_run" \in Faults
  /\ v # rev
  /\ rev' = v
  /\ UNCHANGED <<inc, deps, cppm, skip, run, last>>

\* Generated files vanish: a checkout, a cleaned work tree.
LoseOutput(l) ==
  /\ "lost_output" \in Faults
  /\ Running("idle")
  /\ inc[l] # None
  /\ inc' = [inc EXCEPT ![l] = None]
  /\ \/ deps' = [deps EXCEPT ![l] = None]
     \/ UNCHANGED deps
  /\ UNCHANGED <<rev, cppm, skip, run, last>>

Kill ==
  /\ "kill" \in Faults
  /\ ~Running("idle")
  /\ End("killed")
  /\ UNCHANGED <<rev, inc, deps, cppm, skip>>

-----------------------------------------------------------------------------
(***************************************************************************)
(* main().                                                                 *)
(***************************************************************************)
Start(o) ==
  /\ Running("idle")
  /\ run' = [phase |-> "pass1", opts |-> o, start |-> rev,
             order |-> Survey[rev].order, keys |-> KeysAt[rev][o], next |-> 1,
             claimed |-> NoClaims, inject |-> NoInjects, cur |-> None,
             body |-> [l \in Libs |-> {}], payload |-> << >>,
             gfm |-> {}, graph |-> None, pending |-> {}, added |-> FALSE]
  /\ UNCHANGED <<rev, inc, deps, cppm, skip, last>>

AtLoop == Running("pass1") /\ ~LoopDone

AtLibrary == AtLoop /\ Current \in Work(run.opts)

PassOver ==
  /\ AtLoop /\ Current \notin Work(run.opts)
  /\ run' = [run EXCEPT !.next = @ + 1]
  /\ UNCHANGED <<rev, inc, deps, cppm, skip, last>>

\* Deviation: a hit that replays nothing.
Replay_NoClaims ==
  /\ AtLibrary
  /\ Usable(Current)
  /\ run' = [run EXCEPT !.gfm = @ \cup {Current}, !.next = @ + 1]
  /\ UNCHANGED <<rev, inc, deps, cppm, skip, last>>

\* A cache hit replays the claims the library contributed when it was parsed.
Replay ==
  /\ AtLibrary
  /\ LET l == Current
     IN  /\ Usable(l)
         /\ run' = [run EXCEPT
              !.claimed = ClaimAll(@, skip[l].claims, l),
              !.inject = InjectAll(@, skip[l].inject_claims, l),
              !.gfm = @ \cup {l},
              !.next = @ + 1]
  /\ UNCHANGED <<rev, inc, deps, cppm, skip, last>>

\* Deviation: a file that exists is left alone.
ParseAndEmitInc_KeepsFile ==
  /\ AtLibrary
  /\ ~Usable(Current)
  /\ LET l       == Current
         bundle  == Bundle[run.start][rev][l]
         names   == NewNames(bundle, run.inject)
         records == Records(bundle, names)
         full    == run.opts.full_closure
         claimed == IF full THEN NoClaims ELSE run.claimed
     IN  /\ inc' = IF inc[l] # None THEN inc
                 ELSE [inc EXCEPT ![l] = Exported(l, records, claimed)]
         /\ run' = [run EXCEPT
              !.claimed = claimed,
              !.inject = IF full THEN NoInjects ELSE InjectAll(@, names, l),
              !.phase = "parsed",
              !.cur = [records |-> records, text |-> rev,
                       extra_deps |-> IF full THEN {} ELSE bundle.extra_deps]]
  /\ UNCHANGED <<rev, deps, cppm, skip, last>>

\* Deviation: the file is written before the claims are looked at.
ParseAndEmitInc_NoFirstWins ==
  /\ AtLibrary
  /\ ~Usable(Current)
  /\ LET l       == Current
         bundle  == Bundle[run.start][rev][l]
         names   == NewNames(bundle, run.inject)
         records == Records(bundle, names)
         full    == run.opts.full_closure
         claimed == IF full THEN NoClaims ELSE run.claimed
     IN  /\ inc' = [inc EXCEPT ![l] = Exported(l, records, NoClaims)]
         /\ run' = [run EXCEPT
              !.claimed = claimed,
              !.inject = IF full THEN NoInjects ELSE InjectAll(@, names, l),
              !.phase = "parsed",
              !.cur = [records |-> records, text |-> rev,
                       extra_deps |-> IF full THEN {} ELSE bundle.extra_deps]]
  /\ UNCHANGED <<rev, deps, cppm, skip, last>>

\* A miss parses the bundle and writes <l>.inc.
ParseAndEmitInc ==
  /\ AtLibrary
  /\ ~Usable(Current)
  /\ LET l       == Current
         bundle  == Bundle[run.start][rev][l]
         names   == NewNames(bundle, run.inject)
         records == Records(bundle, names)
         full    == run.opts.full_closure
         claimed == IF full THEN NoClaims ELSE run.claimed
     IN  /\ inc' = [inc EXCEPT ![l] = Exported(l, records, claimed)]
         /\ run' = [run EXCEPT
              !.claimed = claimed,
              !.inject = IF full THEN NoInjects ELSE InjectAll(@, names, l),
              !.phase = "parsed",
              !.cur = [records |-> records, text |-> rev,
                       extra_deps |-> IF full THEN {} ELSE bundle.extra_deps]]
  /\ UNCHANGED <<rev, deps, cppm, skip, last>>

\* The bundle does not parse: main gives up where it is.
ParseFails ==
  /\ "parse_failure" \in Faults
  /\ AtLibrary
  /\ ~Usable(Current)
  /\ End("failed")
  /\ UNCHANGED <<rev, inc, deps, cppm, skip>>

\* The rest of the iteration: <l>.deps, written only when it has a line, the
\* claims of the library and what its cache entry will hold.
EmitDeps ==
  /\ Running("parsed")
  /\ LET l       == Current
         records == run.cur.records
         imports == HintedHomes(l, records, run.claimed) \cup run.cur.extra_deps
     IN  /\ deps' = IF imports = {} THEN deps ELSE [deps EXCEPT ![l] = imports]
         /\ run' = [run EXCEPT
              !.claimed = ClaimAll(@, records, l),
              !.body[l] = IF run.opts.full_closure \/ run.opts.no_body_deps THEN {}
                          ELSE BodyEdges(run.cur.text, l, records, run.claimed),
              !.payload =
                 IF run.opts.use_cache /\ Key(l) # None
                 THEN [m \in Parsed \cup {l} |->
                         IF m # l THEN run.payload[m]
                         ELSE [key |-> Key(l), claims |-> records,
                               inject_claims |-> {q \in Headers : run.inject[q] = l}]]
                 ELSE @,
              !.gfm = @ \cup {l},
              !.phase = "pass1",
              !.cur = None,
              !.next = @ + 1]
  /\ UNCHANGED <<rev, inc, cppm, skip, last>>

\* merge_body_edges, up to the files it rewrites: the graph is read from every
\* .deps file on disk, the candidates are taken library by library.
DepsGraph == [l \in Libs |-> IF deps[l] = None THEN {} ELSE deps[l]]

Considered ==
  [g \in [Libs -> SUBSET Libs] |->
    [lib \in Libs |-> [home \in Libs |-> Files!Consider(g, lib, home)]]]

\* The inner loop, over the candidates of one library in sorted order.
MergeHomes(body, lib, graph) ==
  LET after[n \in 0..Max(Libs)] ==
        IF n = 0 THEN graph
        ELSE IF n \in body[lib] THEN Considered[after[n - 1]][lib][n]
        ELSE after[n - 1]
  IN  after[Max(Libs)]

\* The outer loop, over the libraries in processing order.
MergedGraph(body, order, graph) ==
  LET after[n \in 0..Len(order)] ==
        IF n = 0 THEN graph ELSE MergeHomes(body, order[n], after[n - 1])
  IN  after[Len(order)]

Merge ==
  /\ Running("pass1") /\ LoopDone
  /\ LET merged == MergedGraph(run.body, run.order, DepsGraph)
         grown  == {l \in Libs : merged[l] # DepsGraph[l]}
     IN  run' = [run EXCEPT !.phase = "merge", !.graph = merged,
                            !.pending = grown, !.added = (grown # {})]
  /\ UNCHANGED <<rev, inc, deps, cppm, skip, last>>

\* The first of S in processing order.
FirstOf(S) == run.order[Min({i \in DOMAIN run.order : run.order[i] \in S})]

WriteMergedDeps ==
  /\ Running("merge") /\ run.pending # {}
  /\ LET l == FirstOf(run.pending)
     IN  /\ deps' = [deps EXCEPT ![l] = run.graph[l]]
         /\ run' = [run EXCEPT !.pending = @ \ {l}]
  /\ UNCHANGED <<rev, inc, cppm, skip, last>>

\* The cache is touched only by a run that uses it and parsed something.
\* Deviation: only entries that are there are brought up to date.
MergeDone_RefreshesOnly ==
  /\ Running("merge") /\ run.pending = {}
  /\ run' = [run EXCEPT !.phase = "cache",
                        !.pending = IF Parsed = {} THEN {}
                                    ELSE IF run.added
                                    THEN {l \in Libs : skip[l] # None}
                                    ELSE {l \in Parsed : skip[l] # None}]
  /\ UNCHANGED <<rev, inc, deps, cppm, skip, last>>

MergeDone ==
  /\ Running("merge") /\ run.pending = {}
  /\ run' = [run EXCEPT !.phase = "cache",
                        !.pending = IF Parsed = {} THEN {}
                                    ELSE IF run.added
                                    THEN {l \in Libs : skip[l] # None}
                                    ELSE Parsed]
  /\ UNCHANGED <<rev, inc, deps, cppm, skip, last>>

\* Added edges invalidate the whole cache, in the order glob returns.
DropCacheEntry(l) ==
  /\ Running("cache") /\ run.added /\ l \in run.pending
  /\ skip' = [skip EXCEPT ![l] = None]
  /\ run' = [run EXCEPT !.pending = @ \ {l}]
  /\ UNCHANGED <<rev, inc, deps, cppm, last>>

WriteCacheEntry ==
  /\ Running("cache") /\ ~run.added /\ run.pending # {}
  /\ LET l == FirstOf(run.pending)
         p == run.payload[l]
     IN  /\ skip' = [skip EXCEPT ![l] =
                       [key |-> p.key, claims |-> p.claims,
                        inject_claims |-> p.inject_claims,
                        deps_present |-> deps[l] # None]]
         /\ run' = [run EXCEPT !.pending = @ \ {l}]
  /\ UNCHANGED <<rev, inc, deps, cppm, last>>

CacheDone ==
  /\ Running("cache") /\ run.pending = {}
  /\ run' = [run EXCEPT !.phase = "emit",
                        !.pending = IF run.opts.emit_cppm THEN run.gfm ELSE {}]
  /\ UNCHANGED <<rev, inc, deps, cppm, skip, last>>

\* Deviation: a draft that exists is left alone.
EmitCppm_KeepsDraft ==
  /\ Running("emit") /\ run.pending # {}
  /\ LET l == FirstOf(run.pending)
     IN  /\ cppm' = IF cppm[l] = None THEN [cppm EXCEPT ![l] = DepsGraph[l]]
                    ELSE cppm
         /\ run' = [run EXCEPT !.pending = @ \ {l}]
  /\ UNCHANGED <<rev, inc, deps, skip, last>>

\* emit_cppm: the drafts take their imports from the .deps files as they are.
EmitCppm ==
  /\ Running("emit") /\ run.pending # {}
  /\ LET l == FirstOf(run.pending)
     IN  /\ cppm' = [cppm EXCEPT ![l] = DepsGraph[l]]
         /\ run' = [run EXCEPT !.pending = @ \ {l}]
  /\ UNCHANGED <<rev, inc, deps, skip, last>>

Return ==
  /\ Running("emit") /\ run.pending = {}
  /\ End("ok")
  /\ UNCHANGED <<rev, inc, deps, cppm, skip>>

-----------------------------------------------------------------------------
Init ==
  /\ rev \in Versions
  /\ inc = [l \in Libs |-> None]
  /\ deps = [l \in Libs |-> None]
  /\ cppm = [l \in Libs |-> None]
  /\ skip = [l \in Libs |-> None]
  /\ run = Idle
  /\ last = None

\* The steps of a running process, which nothing holds up.
Generator ==
  \/ PassOver \/ Replay \/ ParseAndEmitInc \/ EmitDeps
  \/ Merge \/ WriteMergedDeps \/ MergeDone
  \/ (\E l \in Libs : DropCacheEntry(l)) \/ WriteCacheEntry \/ CacheDone
  \/ EmitCppm \/ Return

Users ==
  \/ \E v \in Versions : EditHeaders(v)
  \/ \E l \in Libs : LoseOutput(l)
  \/ \E o \in RunOpts : Start(o)
  \/ ParseFails
  \/ Kill

Next == Generator \/ Users

\* A started generator runs to its end; nobody is obliged to start one.
Spec == Init /\ [][Next]_vars /\ WF_vars(Generator)
-----------------------------------------------------------------------------
(***************************************************************************)
(* What a run from an empty disk generates: the loop with every library a  *)
(* miss, in one expression.                                                *)
(***************************************************************************)
FullStep(before, l, bundle, full) ==
  LET names   == NewNames(bundle, before.inject)
      records == Records(bundle, names)
      claimed == IF full THEN NoClaims ELSE before.claimed
  IN  [inc |-> [before.inc EXCEPT ![l] = Exported(l, records, claimed)],
       deps |-> [before.deps EXCEPT ![l] =
                   HintedHomes(l, records, claimed)
                     \cup IF full THEN {} ELSE bundle.extra_deps],
       records |-> [before.records EXCEPT ![l] = records],
       claimed |-> ClaimAll(claimed, records, l),
       inject |-> IF full THEN NoInjects ELSE InjectAll(before.inject, names, l)]

FullPass1(v, o) ==
  LET order == Survey[v].order
      pass[n \in 0..Len(order)] ==
        IF n = 0
        THEN [inc |-> [l \in Libs |-> None], deps |-> [l \in Libs |-> {}],
              records |-> [l \in Libs |-> {}],
              claimed |-> NoClaims, inject |-> NoInjects]
        ELSE IF order[n] \notin Work(o) THEN pass[n - 1]
        ELSE FullStep(pass[n - 1], order[n], Bundle[v][v][order[n]], o.full_closure)
  IN  pass

FullAt == [v \in Versions |-> [o \in RunOpts |-> FullPass1(v, o)]]

FullRun(v, o) == FullAt[v][o][Len(Survey[v].order)]

\* The names l injects in a full run.
InjectedBy(v, o, l) == {q \in Headers : FullRun(v, o).inject[q] = l}

-----------------------------------------------------------------------------
(***************************************************************************)
(* Properties.                                                             *)
(***************************************************************************)
IsPayload(p) ==
  /\ DOMAIN p = {"key", "claims", "inject_claims"}
  /\ p.claims \subseteq Usrs /\ p.inject_claims \subseteq Headers

IsEntry(e) ==
  /\ DOMAIN e = {"key", "claims", "inject_claims", "deps_present"}
  /\ e.claims \subseteq Usrs /\ e.inject_claims \subseteq Headers
  /\ e.deps_present \in BOOLEAN

Parsing == [records: SUBSET Usrs, text: Versions, extra_deps: SUBSET Libs]

IsLocals(r) ==
  /\ r.phase \in {"pass1", "parsed", "merge", "cache", "emit"}
  /\ r.opts \in RunOpts /\ r.start \in Versions
  /\ r.order \in Seq(Libs) /\ r.next \in 1..(Len(r.order) + 1)
  /\ DOMAIN r.keys = Libs
  /\ r.claimed \in [Usrs -> Libs \cup {None}]
  /\ r.inject \in [Headers -> Libs \cup {Shared}]
  /\ IF r.phase = "parsed" THEN r.cur \in Parsing ELSE r.cur = None
  /\ r.body \in [Libs -> SUBSET Libs]
  /\ DOMAIN r.payload \subseteq Libs
  /\ \A l \in DOMAIN r.payload : IsPayload(r.payload[l])
  /\ r.gfm \subseteq Libs
  /\ r.graph \in [Libs -> SUBSET Libs] \cup {None}
  /\ r.pending \subseteq Libs /\ r.added \in BOOLEAN

\* Every file and every local variable holds a value of its kind.
TypeOK ==
  /\ rev \in Versions
  /\ inc \in [Libs -> (SUBSET Usrs) \cup {None}]
  /\ deps \in [Libs -> (SUBSET Libs) \cup {None}]
  /\ cppm \in [Libs -> (SUBSET Libs) \cup {None}]
  /\ \A l \in Libs : skip[l] # None => IsEntry(skip[l])
  /\ Running("idle") \/ IsLocals(run)
  /\ last \in Endings \cup {None}

\* Wherever a library has the same key, a full run makes the same of it, and what
\* can ever be keyed always is: all the cache has to go by.
KeyIsSound ==
  \A v, w \in Versions, o, p \in RunOpts : \A l \in Work(o) \cap Work(p) :
    /\ KeysAt[v][o][l] = None => KeysAt[w][p][l] = None
    /\ KeysAt[v][o][l] # None /\ KeysAt[v][o][l] = KeysAt[w][p][l] =>
         /\ FullRun(v, o).inc[l] = FullRun(w, p).inc[l]
         /\ FullRun(v, o).records[l] = FullRun(w, p).records[l]
         /\ InjectedBy(v, o, l) = InjectedBy(w, p, l)

\* All full runs write the same: the headers are never edited, or to no effect.
FilesAgree ==
  \A v, w \in Versions, o, p \in RunOpts : \A l \in Work(o) \cap Work(p) :
    FullRun(v, o).inc[l] = FullRun(w, p).inc[l]

\* Nobody edits headers while a run is at work, and either no run reads the cache,
\* or every run does, the keys are sound, and none ends before its time unless
\* there is but one thing to write.
Orderly ==
  /\ "edit_during_run" \notin Faults
  /\ \/ \A o \in RunOpts : ~o.use_cache
     \/ /\ \A o \in RunOpts : o.use_cache
        /\ KeyIsSound
        /\ {"kill", "parse_failure"} \cap Faults # {} => FilesAgree

\* The owner of an entity is processed before any library whose records hold it.
OwnersFirst ==
  \A v \in Versions, o \in RunOpts : \A i, j \in 1..Len(Survey[v].order) :
    i < j /\ Survey[v].order[i] \in Work(o) =>
      \A h \in Headers : Owner[h] = Survey[v].order[j] =>
        Decl(h) \notin FullRun(v, o).records[Survey[v].order[i]]

\* Every full run lists the same imports, and these form no circle.
ImportsAgree ==
  \A v, w \in Versions, o, p \in RunOpts :
    /\ FullRun(v, o).deps \in [Libs -> SUBSET Libs]
    /\ Files!Acyclic(FullRun(v, o).deps)
    /\ FullRun(v, o).deps = FullRun(w, p).deps

\* What exported code mentions of a target library is in the records of that library.
OwnersDeclare ==
  \A v \in Versions, o \in RunOpts : o.libs = Libs =>
    \A l \in Work(o) : \A u \in Mentions(v, FullRun(v, o).inc[l]) :
      Owner[u[2]] # Shared =>
        Owner[u[2]] \in Work(o) /\ u \in FullRun(v, o).records[Owner[u[2]]]

\* What exported bodies mention is imported, or imports them, by what pass 1 lists
\* alone: merge_body_edges has nothing to add.
BodiesHinted ==
  \A v \in Versions, o \in RunOpts : o.libs = Libs =>
    \A l \in Work(o) :
      \A u \in Mentions(v, FullRun(v, o).inc[l]) \ FullRun(v, o).inc[l] :
        Owner[u[2]] # Shared =>
          \/ Files!Reachable(FullRun(v, o).deps, l, Owner[u[2]])
          \/ Files!Reachable(FullRun(v, o).deps, Owner[u[2]], l)

\* No run reads the cache, and one over all libraries looks at the bodies.
BodiesRead ==
  \A o \in RunOpts :
    ~o.use_cache /\ (o.libs = Libs => ~o.full_closure /\ ~o.no_body_deps)

\* The last run ended well on the headers that are on disk now.
Settled ==
  /\ Running("idle") /\ last # None /\ last.outcome = "ok" /\ last.rev = rev

Covered == [o \in RunOpts |-> Work(o)]
FullFiles == [v \in Versions |-> [o \in RunOpts |-> FullRun(v, o).inc]]

\* What Regeneration sees of a state: the generated files, the command line of the
\* present or last run, and whether that run left nothing to be done.
Snapshots == [l \in Libs \ Special |-> inc[l]]

CommandLine ==
  IF ~Running("idle") THEN run.opts ELSE IF last = None THEN None ELSE last.opts

Complete == Settled /\ \A l \in Covered[last.opts] : inc[l] # None

Regen ==
  INSTANCE Regeneration WITH
    Libs <- Libs \ Special, Opts <- RunOpts, Covers <- Covered, Full <- FullFiles,
    files <- Snapshots, opts <- CommandLine, settled <- Complete

\* Every file is written, and counts as settled, as in a full run.
ImplementsRegeneration == Regen!Spec

\* The claims a hit replays are those a full run would have made by then: the
\* declarations belong to the first library, in processing order, whose
\* records hold them, whatever mixture of hits and misses came before.
ReplayEqualsFullRun ==
  Running("pass1") /\ rev = run.start /\ ~run.opts.full_closure =>
    \A h \in Headers :
      run.claimed[Decl(h)] =
        FullAt[run.start][run.opts][run.next - 1].claimed[Decl(h)]

\* A usable cache entry stands for a file a full run would write the same.
HitMeansUpToDate ==
  AtLibrary /\ rev = run.start /\ Usable(Current) =>
    inc[Current] = FullRun(run.start, run.opts).inc[Current]

\* After a run, what it generated is what a run from an empty disk generates.
SettledIsFullRun ==
  Settled => \A l \in Work(last.opts) :
               inc[l] \in {None, FullRun(rev, last.opts).inc[l]}

\* Imports of consumers: the modules that import boost.<l> brings in.
ImportsOf(l) == {m \in Libs : Files!Reachable(DepsGraph, l, m)}

Visible(l) == UNION {inc[m] : m \in {x \in ImportsOf(l) : inc[x] # None}}

\* After a run over all libraries, an import of boost.<l> reaches every entity
\* of a target library that what <l> exports mentions, unless that library
\* itself imports boost.<l>, a circle no edge can serve.
MentionsImportable ==
  Settled /\ last.opts.libs = Libs /\ (\A l \in Libs \ Special : inc[l] # None) =>
    \A l \in Libs \ Special :
      \A u \in Mentions(rev, inc[l]) :
        Owner[u[2]] # Shared =>
          u \in Visible(l) \/ l \in ImportsOf(Owner[u[2]])

\* The .deps files a run leaves never import each other in a circle when the
\* libraries themselves do not.
DepsAcyclic == Settled => Files!Acyclic(DepsGraph)

\* The drafts import what the completed .deps files list.
CppmReflectsDeps ==
  Settled /\ last.opts.emit_cppm =>
    \A l \in last.opts.libs \ Special :
      inc[l] # None => cppm[l] = DepsGraph[l]

\* The .deps files are a function of the headers: a library whose full run
\* lists no import has no .deps file.
DepsFilesAreFullRun ==
  Settled /\ last.opts.no_body_deps /\ last.opts.libs = Libs =>
    \A l \in Libs \ Special :
      FullRun(rev, last.opts).deps[l] = DepsGraph[l]

\* What is reachable only through headers the gate pruned does not leak into the
\* .deps files: an import is the owner of a header of the bundle.
PrunedDoNotLeak ==
  Settled /\ last.opts.libs = Libs =>
    \A l \in Libs \ Special :
      DepsGraph[l] \subseteq {Owner[h] : h \in Bundle[rev][rev][l].headers}

\* An entity left to the library that claimed it first is still reached by an
\* import of the library that left it.
OmittedIsHinted ==
  Settled /\ last.opts.libs = Libs /\ ~last.opts.full_closure =>
    \A l \in Libs \ Special :
      {Decl(h) : h \in Headers} \cap
        FullRun(rev, last.opts).records[l] \subseteq Visible(l)

\* Only one library exports an entity.
ExportedOnce ==
  Settled /\ last.opts.libs = Libs /\ ~last.opts.full_closure =>
    \A l, m \in Libs \ Special : \A h \in Headers :
      l # m /\ inc[l] # None /\ inc[m] # None =>
        ~(Decl(h) \in inc[l] /\ Decl(h) \in inc[m])

\* Once the headers and the outputs are left alone and runs go on undisturbed,
\* the cache comes to hold a valid entry for every library.
EntriesValid ==
  \A o \in RunOpts : \A l \in o.libs \ Special :
    skip[l] # None /\ skip[l].key = KeysAt[rev][o][l]

Disturbance ==
  \/ rev' # rev
  \/ ~Running("idle") /\ run' = Idle /\ last'.outcome # "ok"
  \/ \E l \in Libs : inc[l] # None /\ inc'[l] = None

CacheForms == []<><<Disturbance>>_vars \/ <>[]EntriesValid

\* The same, for libraries whose imports pass 2 has nothing to add to.
CacheFormsWithoutEdges == []<>(Running("cache") /\ run.added) \/ CacheForms
=============================================================================
