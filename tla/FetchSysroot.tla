---------------------------- MODULE FetchSysroot ----------------------------
(***************************************************************************)
(* scripts/fetch_mingw_sysroot.py: download, verification and extraction   *)
(* of the pinned MinGW sysroot under scripts/_deps.                        *)
(*                                                                         *)
(* The archives, the part files, the extracted tree and the marker outlive *)
(* a run.  A run is one process; while it downloads in parallel, one       *)
(* thread per part writes next to it.                                      *)
(***************************************************************************)
EXTENDS Naturals, FiniteSets

CONSTANTS
  Formats,      \* the archive formats: "7z", "zip"
  Workers,      \* the range connections of a parallel download
  Members,      \* the members of the archive
  Anchors,      \* the members by which _is_sysroot recognises the tree
  Probed,       \* the members the probe compiles against
  RunOpts,      \* the command lines users give, see Options
  Faults,       \* what may go wrong: a subset of FaultKinds
  MaxFaults,    \* how often something goes wrong
  None          \* an absent file, no run yet

Options ==
  [mode: {"fetch", "check", "print_path"}, fmt: Formats, force: BOOLEAN,
   parallel: BOOLEAN, probe: BOOLEAN]

FaultKinds == {"network", "disk", "kill"}

ASSUME SysrootAssumption ==
  /\ IsFiniteSet(Workers) /\ Workers # {}
  /\ Anchors \subseteq Members /\ Anchors # {} /\ Probed \subseteq Members
  /\ RunOpts \subseteq Options
  /\ Faults \subseteq FaultKinds /\ MaxFaults \in Nat

VARIABLES
  archive,      \* archive[f]: the file in _archives: "pinned", "wrong" or None
  part,         \* part[w]: the file <archive>.part<w>: "good", "wrong" or None
  tree,         \* the extracted members
  marker,       \* mingw-sysroot.json: the format it names, or None
  phase,        \* where the running process is, or "idle"
  opts,         \* its command line
  worker,       \* worker[w]: "idle", "running", "done" or "failed"
  downloaded,   \* ghost: this run downloaded something
  faults,       \* ghost: how often something went wrong
  last          \* how the last run ended

vars == <<archive, part, tree, marker, phase, opts, worker, downloaded, faults, last>>

disk == <<archive, part, tree, marker>>

-----------------------------------------------------------------------------
\* _is_sysroot; current_root finds the tree by the marker or by a scan.
IsSysroot(t) == Anchors \subseteq t

NoWorkers == [w \in Workers |-> "idle"]
NoParts   == [w \in Workers |-> None]

At(p) == phase = p

MayFail(kind) == kind \in Faults /\ faults < MaxFaults

End(outcome) ==
  /\ phase' = "idle"
  /\ worker' = NoWorkers
  /\ last' = [outcome |-> outcome, opts |-> opts, downloaded |-> downloaded]
  /\ UNCHANGED <<opts, downloaded>>

GoTo(p) ==
  /\ phase' = p
  /\ UNCHANGED <<opts, last>>

-----------------------------------------------------------------------------
Init ==
  /\ archive = [f \in Formats |-> None]
  /\ part = NoParts
  /\ tree = {}
  /\ marker = None
  /\ phase = "idle"
  /\ opts \in RunOpts
  /\ worker = NoWorkers
  /\ downloaded = FALSE
  /\ faults = 0
  /\ last = None

\* Deviation: the options that only look are looked at last.
Start_FetchesFirst(o) ==
  /\ At("idle")
  /\ opts' = o
  /\ downloaded' = FALSE
  /\ phase' = IF IsSysroot(tree) THEN IF o.mode = "print_path" THEN "print_path" ELSE "probe"
              ELSE "fetch"
  /\ UNCHANGED <<archive, part, tree, marker, worker, faults, last>>

\* main() up to the fetch: --print-path and --check end here, and so does a
\* fetch that finds a sysroot, but for the probe.
Start(o) ==
  /\ At("idle")
  /\ opts' = o
  /\ downloaded' = FALSE
  /\ phase' = IF o.mode = "print_path" THEN "print_path"
              ELSE IF IsSysroot(tree) THEN "probe"
              ELSE IF o.mode = "check" THEN "not_found"
              ELSE "fetch"
  /\ UNCHANGED <<archive, part, tree, marker, worker, faults, last>>

PrintPath ==
  /\ At("print_path")
  /\ End(IF IsSysroot(tree) THEN "ok" ELSE "failed")
  /\ UNCHANGED <<disk, faults>>

NotFound ==
  /\ At("not_found")
  /\ End("failed")
  /\ UNCHANGED <<disk, faults>>

-----------------------------------------------------------------------------
(***************************************************************************)
(* fetch_archive and _download.                                            *)
(***************************************************************************)
Kept == archive[opts.fmt] # None /\ ~opts.force

\* Deviation: a kept archive with the wrong digest ends the run.
UseKeptArchive_GivesUp ==
  /\ At("fetch") /\ Kept
  /\ IF archive[opts.fmt] = "pinned" THEN GoTo("extract") /\ UNCHANGED <<worker, downloaded>>
     ELSE End("failed")
  /\ UNCHANGED <<disk, faults>>

UseKeptArchive ==
  /\ At("fetch") /\ Kept
  /\ GoTo(IF archive[opts.fmt] = "pinned" THEN "extract" ELSE "download")
  /\ UNCHANGED <<disk, worker, downloaded, faults>>

NoKeptArchive ==
  /\ At("fetch") /\ ~Kept
  /\ GoTo("download")
  /\ UNCHANGED <<disk, worker, downloaded, faults>>

\* The size is known and worth several connections.
StartParallel ==
  /\ At("download") /\ opts.parallel
  /\ GoTo("parallel")
  /\ downloaded' = TRUE
  /\ worker' = [w \in Workers |-> "running"]
  /\ UNCHANGED <<disk, faults>>

\* One connection was asked for, or the server does not tell the size.
StartSingle ==
  /\ At("download")
  /\ \/ ~opts.parallel /\ UNCHANGED faults
     \/ opts.parallel /\ MayFail("network") /\ faults' = faults + 1
  /\ GoTo("single")
  /\ downloaded' = TRUE
  /\ UNCHANGED <<disk, worker>>

\* A connection ends: with its range, or silently short of it.
WorkerEnds(w) ==
  /\ worker[w] = "running"
  /\ worker' = [worker EXCEPT ![w] = "done"]
  /\ \/ part' = [part EXCEPT ![w] = "good"] /\ UNCHANGED faults
     \/ /\ MayFail("network") /\ faults' = faults + 1
        /\ part' = [part EXCEPT ![w] = "wrong"]
  /\ UNCHANGED <<archive, tree, marker, phase, opts, downloaded, last>>

\* It ends with an exception, before or after the part file is opened.
WorkerFails(w) ==
  /\ worker[w] = "running"
  /\ MayFail("network") /\ faults' = faults + 1
  /\ worker' = [worker EXCEPT ![w] = "failed"]
  /\ part' \in {part, [part EXCEPT ![w] = "wrong"]}
  /\ UNCHANGED <<archive, tree, marker, phase, opts, downloaded, last>>

AllEnded == \A w \in Workers : worker[w] \in {"done", "failed"}

\* All ranges arrived: the archive is opened, which truncates it.
OpenArchive ==
  /\ At("parallel") /\ \A w \in Workers : worker[w] = "done"
  /\ archive' = [archive EXCEPT ![opts.fmt] = "wrong"]
  /\ GoTo("assemble")
  /\ UNCHANGED <<part, tree, marker, worker, downloaded, faults>>

\* The parts are concatenated and removed.
Assemble ==
  /\ At("assemble")
  /\ archive' = [archive EXCEPT ![opts.fmt] =
                   IF \A w \in Workers : part[w] = "good" THEN "pinned" ELSE "wrong"]
  /\ part' = NoParts
  /\ worker' = NoWorkers
  /\ GoTo("verify")
  /\ UNCHANGED <<tree, marker, downloaded, faults>>

\* Deviation: the first failure starts the single stream.
FallBack_AtOnce ==
  /\ At("parallel") /\ \E w \in Workers : worker[w] = "failed"
  /\ part' = NoParts
  /\ GoTo("single")
  /\ UNCHANGED <<archive, tree, marker, worker, downloaded, faults>>

\* A range failed: the executor waits for the others, the parts are removed and
\* a single stream takes over.
FallBack ==
  /\ At("parallel") /\ AllEnded /\ \E w \in Workers : worker[w] = "failed"
  /\ part' = NoParts
  /\ worker' = NoWorkers
  /\ GoTo("single")
  /\ UNCHANGED <<archive, tree, marker, downloaded, faults>>

OpenSingle ==
  /\ At("single")
  /\ archive' = [archive EXCEPT ![opts.fmt] = "wrong"]
  /\ GoTo("stream")
  /\ UNCHANGED <<part, tree, marker, worker, downloaded, faults>>

StreamEnds ==
  /\ At("stream")
  /\ \/ /\ archive' = [archive EXCEPT ![opts.fmt] = "pinned"]
        /\ UNCHANGED faults
     \/ MayFail("network") /\ faults' = faults + 1 /\ UNCHANGED archive
  /\ GoTo("verify")
  /\ UNCHANGED <<part, tree, marker, worker, downloaded>>

\* No one catches the exception of the single stream.
StreamFails ==
  /\ At("single") \/ At("stream")
  /\ MayFail("network") /\ faults' = faults + 1
  /\ End("failed")
  /\ UNCHANGED disk

\* Deviation: a parallel download that raised nothing is taken for complete.
Verify_TrustsParallel ==
  /\ At("verify")
  /\ IF archive[opts.fmt] = "pinned" \/ opts.parallel
     THEN GoTo("extract") /\ UNCHANGED <<worker, downloaded>>
     ELSE End("failed")
  /\ UNCHANGED <<disk, faults>>

\* What was downloaded must have the pinned digest; if not, it stays where it is.
Verify ==
  /\ At("verify")
  /\ IF archive[opts.fmt] = "pinned"
     THEN GoTo("extract") /\ UNCHANGED <<worker, downloaded>>
     ELSE End("failed")
  /\ UNCHANGED <<disk, faults>>

-----------------------------------------------------------------------------
(***************************************************************************)
(* Extraction, marker and probe.                                           *)
(***************************************************************************)
ExtractMember(m) ==
  /\ At("extract") /\ m \in Members \ tree
  /\ tree' = tree \cup {m}
  /\ UNCHANGED <<archive, part, marker, phase, opts, worker, downloaded, faults, last>>

ExtractFails ==
  /\ At("extract")
  /\ MayFail("disk") /\ faults' = faults + 1
  /\ End("failed")
  /\ UNCHANGED disk

\* Deviation: the marker is written as soon as the tree is recognised.
WriteMarker_Early ==
  /\ At("extract") /\ IsSysroot(tree)
  /\ marker' = opts.fmt
  /\ IF tree = Members THEN GoTo("probe") ELSE GoTo("extract")
  /\ UNCHANGED <<archive, part, tree, worker, downloaded, faults>>

\* The whole archive is extracted and the tree is found.
WriteMarker ==
  /\ At("extract") /\ tree = Members
  /\ marker' = opts.fmt
  /\ GoTo("probe")
  /\ UNCHANGED <<archive, part, tree, worker, downloaded, faults>>

Probe ==
  /\ At("probe")
  /\ End(IF ~opts.probe \/ Probed \subseteq tree THEN "ok" ELSE "failed")
  /\ UNCHANGED <<disk, faults>>

\* The process dies with its threads; every file stays as it is.
Kill ==
  /\ ~At("idle")
  /\ MayFail("kill") /\ faults' = faults + 1
  /\ End("killed")
  /\ UNCHANGED disk

-----------------------------------------------------------------------------
Process ==
  \/ PrintPath \/ NotFound
  \/ UseKeptArchive \/ NoKeptArchive \/ StartParallel \/ StartSingle
  \/ OpenArchive \/ Assemble \/ FallBack \/ OpenSingle \/ StreamEnds \/ StreamFails
  \/ Verify
  \/ (\E m \in Members : ExtractMember(m)) \/ ExtractFails \/ WriteMarker \/ Probe

Threads == \E w \in Workers : WorkerEnds(w) \/ WorkerFails(w)

Next ==
  \/ Process
  \/ Threads
  \/ Kill
  \/ \E o \in RunOpts : Start(o)

\* A process and its threads go on; nobody is obliged to start one.
Spec == Init /\ [][Next]_vars /\ WF_vars(Process) /\ WF_vars(Threads)

\* A user who tries again and again, whatever else is started in between.
Stubborn ==
  Spec /\ SF_vars(\E o \in RunOpts : o.mode = "fetch" /\ ~o.force /\ Start(o))
-----------------------------------------------------------------------------
\* Every file and every local variable holds a value of its kind.
TypeOK ==
  /\ archive \in [Formats -> {"pinned", "wrong", None}]
  /\ part \in [Workers -> {"good", "wrong", None}]
  /\ tree \subseteq Members
  /\ marker \in Formats \cup {None}
  /\ phase \in {"idle", "print_path", "not_found", "fetch", "download", "parallel",
                "assemble", "single", "stream", "verify", "extract", "probe"}
  /\ opts \in RunOpts
  /\ worker \in [Workers -> {"idle", "running", "done", "failed"}]
  /\ downloaded \in BOOLEAN
  /\ faults \in 0..MaxFaults
  /\ last \in [outcome: {"ok", "failed", "killed"}, opts: RunOpts,
               downloaded: BOOLEAN] \cup {None}

\* Only an archive with the pinned digest is ever unpacked, whichever of the
\* downloads, kept files and interrupted runs it comes from.
ExtractsPinned == phase = "extract" => archive[opts.fmt] = "pinned"

\* No thread writes a part file once the download went on to something else.
WorkersJoined ==
  (\E w \in Workers : worker[w] = "running") => phase = "parallel"

\* The marker vouches for a complete tree, even after runs that died.
MarkedIsWhole == marker # None => tree = Members

\* --check and --print-path write nothing, whatever they find, and what a forced
\* run unpacks is what it downloaded itself, never a file of an earlier run, by
\* whichever of the ways it went (main and fetch_archive).
OptionsObeyed ==
  /\ ~At("idle") /\ opts.mode # "fetch" => UNCHANGED disk
  /\ At("extract") /\ opts.force => downloaded

OptionsTakeEffect == [][OptionsObeyed]_vars

\* Whatever failed downloads, full disks and dying runs left behind, a user who
\* tries again gets a sysroot and every run after that succeeds, unless an
\* extraction broke off between the members the tree is recognised by and the
\* rest, for then nothing is ever extracted again.
Recovers ==
  <>(At("idle") /\ IsSysroot(tree) /\ tree # Members)
    \/ <>[](last # None /\ last.outcome = "ok")

\* A run that succeeds leaves, or found, the whole sysroot.
SuccessIsWhole ==
  last # None /\ last.outcome = "ok" => tree = Members

\* A forced fetch that succeeds has downloaded the archive again.
ForceDownloads ==
  last # None /\ last.outcome = "ok" /\ last.opts.mode = "fetch" /\ last.opts.force
    => last.downloaded
=============================================================================
