--------------------------- MODULE DownloadProofs ---------------------------
(***************************************************************************)
(* The safety properties of the two scripts that download and unpack: of   *)
(* FetchSysroot, for any archive formats, any number of connections, any   *)
(* members and any faults, and of ImportBoost, for any members and faults. *)
(***************************************************************************)
EXTENDS FetchSysroot, ImportBoost, TLAPS

-----------------------------------------------------------------------------
\* A download happened before what is downloaded is used, unless a kept archive
\* passed; and what only looks never gets as far as the fetch.
Downloading == {"parallel", "assemble", "single", "stream", "verify"}

Looking == {"idle", "print_path", "not_found", "probe"}

PhaseFitsOptions ==
  /\ phase \in Downloading => downloaded
  /\ phase = "extract" /\ opts.force => downloaded
  /\ opts.mode # "fetch" => phase \in Looking

IInv ==
  /\ TypeOK
  /\ ExtractsPinned
  /\ WorkersJoined
  /\ MarkedIsWhole
  /\ PhaseFitsOptions

\* The command line is one of those given, its format one of the formats.
LEMMA OptionsTyped ==
  ASSUME NEW o \in RunOpts
  PROVE  /\ o.fmt \in Formats /\ o.mode \in {"fetch", "check", "print_path"}
         /\ o.force \in BOOLEAN /\ o.parallel \in BOOLEAN /\ o.probe \in BOOLEAN
  BY SysrootAssumption DEF Options

LEMMA IInvInit == Init => IInv
  <1> SUFFICES ASSUME Init PROVE IInv
    OBVIOUS
  <1>1. faults \in 0..MaxFaults
    BY SysrootAssumption DEF Init
  <1>2. TypeOK
    BY <1>1 DEF Init, TypeOK, NoParts, NoWorkers
  <1>3. ExtractsPinned /\ WorkersJoined /\ MarkedIsWhole /\ PhaseFitsOptions
    BY DEF Init, ExtractsPinned, WorkersJoined, MarkedIsWhole, PhaseFitsOptions,
           Downloading, Looking, NoWorkers
  <1> QED
    BY <1>2, <1>3 DEF IInv

\* How a run ends: no thread is left, and nothing is being extracted.
LEMMA EndKeeps ==
  ASSUME IInv, NEW outcome \in {"ok", "failed", "killed"}, End(outcome),
         UNCHANGED disk, faults' \in 0..MaxFaults
  PROVE  IInv'
  <1>1. /\ phase' = "idle" /\ worker' = NoWorkers /\ opts' = opts
        /\ downloaded' = downloaded
        /\ last' = [outcome |-> outcome, opts |-> opts, downloaded |-> downloaded]
        /\ archive' = archive /\ part' = part /\ tree' = tree /\ marker' = marker
    BY DEF End, disk
  <1>2. TypeOK'
    BY <1>1 DEF IInv, TypeOK, NoWorkers
  <1>3. ExtractsPinned' /\ MarkedIsWhole' /\ WorkersJoined'
    BY <1>1 DEF IInv, ExtractsPinned, MarkedIsWhole, WorkersJoined, NoWorkers
  <1>4. PhaseFitsOptions'
    BY <1>1 DEF PhaseFitsOptions, Downloading, Looking
  <1> QED
    BY <1>2, <1>3, <1>4 DEF IInv

\* A fault leaves the count within its bound.
LEMMA FaultsBounded ==
  ASSUME TypeOK, NEW kind, MayFail(kind)
  PROVE  faults + 1 \in 0..MaxFaults
  BY SysrootAssumption DEF TypeOK, MayFail

LEMMA StartKeeps ==
  ASSUME IInv, NEW o \in RunOpts, Start(o)
  PROVE  IInv'
  <1>1. phase' \in {"print_path", "probe", "not_found", "fetch"}
    BY DEF Start
  <1>2. TypeOK'
    BY <1>1 DEF Start, IInv, TypeOK
  <1>3. ExtractsPinned' /\ MarkedIsWhole' /\ WorkersJoined'
    BY <1>1 DEF Start, At, IInv, ExtractsPinned, MarkedIsWhole, WorkersJoined
  <1>4. PhaseFitsOptions'
    BY <1>1, OptionsTyped DEF Start, PhaseFitsOptions, Downloading, Looking
  <1> QED
    BY <1>2, <1>3, <1>4 DEF IInv
-----------------------------------------------------------------------------
\* A step of the process that goes on at p, with no thread running.
LEMMA GoToKeeps ==
  ASSUME IInv, NEW p, GoTo(p),
         p \in {"download", "single", "stream", "verify", "extract", "probe",
                "assemble", "fetch"},
         UNCHANGED marker, tree' = tree,
         archive' \in [Formats -> {"pinned", "wrong", None}],
         part' \in [Workers -> {"good", "wrong", None}],
         worker' \in [Workers -> {"idle", "running", "done", "failed"}],
         \A w \in Workers : worker'[w] # "running",
         faults' \in 0..MaxFaults, downloaded' \in BOOLEAN,
         p = "extract" => archive'[opts.fmt] = "pinned" /\ (opts.force => downloaded'),
         p \in Downloading => downloaded',
         opts.mode = "fetch"
  PROVE  IInv'
  <1>1. phase' = p /\ opts' = opts /\ last' = last
    BY DEF GoTo
  <1>2. TypeOK'
    BY <1>1 DEF IInv, TypeOK
  <1>3. ExtractsPinned' /\ MarkedIsWhole' /\ WorkersJoined' /\ PhaseFitsOptions'
    BY <1>1 DEF IInv, ExtractsPinned, MarkedIsWhole, WorkersJoined, PhaseFitsOptions,
                Downloading
  <1> QED
    BY <1>2, <1>3 DEF IInv

\* What the lemma wants of a process that has started to fetch.
LEMMA Fetching ==
  ASSUME IInv, phase \notin Looking
  PROVE  /\ opts.mode = "fetch" /\ opts.fmt \in Formats
         /\ phase # "parallel" => \A w \in Workers : worker[w] # "running"
  BY OptionsTyped DEF IInv, TypeOK, WorkersJoined, PhaseFitsOptions

LEMMA FetchKeeps ==
  ASSUME IInv, UseKeptArchive \/ NoKeptArchive \/ StartParallel \/ StartSingle
  PROVE  IInv'
  <1> USE DEF Looking, Downloading
  <1>1. CASE UseKeptArchive
    <2>1. At("fetch") /\ Kept /\ GoTo(IF archive[opts.fmt] = "pinned" THEN "extract" ELSE "download")
      BY <1>1 DEF UseKeptArchive
    <2>2. UNCHANGED <<archive, part, tree, marker, worker, downloaded, faults>>
      BY <1>1 DEF UseKeptArchive, disk
    <2> QED
      BY <2>1, <2>2, Fetching, GoToKeeps DEF At, Kept, IInv, TypeOK
  <1>2. CASE NoKeptArchive
    BY <1>2, Fetching, GoToKeeps DEF NoKeptArchive, At, disk, IInv, TypeOK
  <1>3. CASE StartSingle
    <2>1. faults' \in 0..MaxFaults
      BY <1>3, FaultsBounded DEF StartSingle, IInv, TypeOK
    <2> QED
      BY <1>3, <2>1, Fetching, GoToKeeps DEF StartSingle, At, disk, IInv, TypeOK
  <1>4. CASE StartParallel
    <2>1. /\ phase' = "parallel" /\ downloaded' = TRUE /\ opts' = opts /\ last' = last
          /\ worker' = [w \in Workers |-> "running"]
          /\ UNCHANGED <<archive, part, tree, marker, faults>>
          /\ opts.mode = "fetch"
      BY <1>4, Fetching DEF StartParallel, GoTo, disk, At
    <2>2. TypeOK'
      BY <2>1 DEF IInv, TypeOK
    <2>3. ExtractsPinned' /\ MarkedIsWhole' /\ WorkersJoined' /\ PhaseFitsOptions'
      BY <2>1 DEF IInv, ExtractsPinned, MarkedIsWhole, WorkersJoined, PhaseFitsOptions
    <2> QED
      BY <2>2, <2>3 DEF IInv
  <1> QED
    BY <1>1, <1>2, <1>3, <1>4

LEMMA ThreadsKeep ==
  ASSUME IInv, Threads
  PROVE  IInv'
  <1>1. PICK w \in Workers : WorkerEnds(w) \/ WorkerFails(w)
    BY DEF Threads
  <1>2. /\ worker[w] = "running" /\ worker' \in {[worker EXCEPT ![w] = "done"],
                                               [worker EXCEPT ![w] = "failed"]}
        /\ UNCHANGED <<archive, tree, marker, phase, opts, downloaded, last>>
    BY <1>1 DEF WorkerEnds, WorkerFails
  <1>3. part' \in {part, [part EXCEPT ![w] = "good"], [part EXCEPT ![w] = "wrong"]}
    BY <1>1 DEF WorkerEnds, WorkerFails
  <1>4. faults' \in 0..MaxFaults
    BY <1>1, FaultsBounded DEF WorkerEnds, WorkerFails, IInv, TypeOK
  <1>5. TypeOK'
    BY <1>2, <1>3, <1>4 DEF IInv, TypeOK
  <1>6. phase = "parallel"
    BY <1>2 DEF IInv, WorkersJoined
  <1>7. ExtractsPinned' /\ MarkedIsWhole' /\ WorkersJoined' /\ PhaseFitsOptions'
    BY <1>2, <1>6 DEF IInv, ExtractsPinned, MarkedIsWhole, WorkersJoined, PhaseFitsOptions
  <1> QED
    BY <1>5, <1>7 DEF IInv

LEMMA DownloadKeeps ==
  ASSUME IInv, OpenArchive \/ Assemble \/ FallBack \/ OpenSingle \/ StreamEnds \/ Verify
  PROVE  IInv'
  <1> USE DEF Looking, Downloading
  <1>1. CASE OpenArchive
    <2>1. \A w \in Workers : worker[w] # "running"
      BY <1>1 DEF OpenArchive
    <2>2. archive' \in [Formats -> {"pinned", "wrong", None}]
      BY <1>1 DEF OpenArchive, IInv, TypeOK
    <2> QED
      BY <1>1, <2>1, <2>2, Fetching, GoToKeeps
      DEF OpenArchive, At, IInv, TypeOK, PhaseFitsOptions
  <1>2. CASE Assemble
    BY <1>2, Fetching, GoToKeeps
    DEF Assemble, At, NoParts, NoWorkers, IInv, TypeOK, PhaseFitsOptions
  <1>3. CASE FallBack
    BY <1>3, Fetching, GoToKeeps
    DEF FallBack, At, NoParts, NoWorkers, IInv, TypeOK, PhaseFitsOptions
  <1>4. CASE OpenSingle
    BY <1>4, Fetching, GoToKeeps DEF OpenSingle, At, IInv, TypeOK, PhaseFitsOptions
  <1>5. CASE StreamEnds
    <2>1. faults' \in 0..MaxFaults
      BY <1>5, FaultsBounded DEF StreamEnds, IInv, TypeOK
    <2>2. archive' \in [Formats -> {"pinned", "wrong", None}]
      BY <1>5 DEF StreamEnds, IInv, TypeOK
    <2> QED
      BY <1>5, <2>1, <2>2, Fetching, GoToKeeps
      DEF StreamEnds, At, IInv, TypeOK, PhaseFitsOptions
  <1>6. CASE Verify
    <2>1. CASE archive[opts.fmt] = "pinned"
      BY <1>6, <2>1, Fetching, GoToKeeps
      DEF Verify, At, disk, IInv, TypeOK, PhaseFitsOptions
    <2>2. CASE archive[opts.fmt] # "pinned"
      BY <1>6, <2>2, EndKeeps DEF Verify, IInv, TypeOK
    <2> QED
      BY <2>1, <2>2
  <1> QED
    BY <1>1, <1>2, <1>3, <1>4, <1>5, <1>6

LEMMA ExtractionKeeps ==
  ASSUME IInv, (\E m \in Members : ExtractMember(m)) \/ WriteMarker
  PROVE  IInv'
  <1>1. phase = "extract"
    BY DEF ExtractMember, WriteMarker, At
  <1>2. CASE \E m \in Members : ExtractMember(m)
    <2>1. /\ tree # Members /\ tree' \subseteq Members
          /\ UNCHANGED <<archive, part, marker, phase, opts, worker, downloaded, faults, last>>
      BY <1>2 DEF ExtractMember, IInv, TypeOK
    <2>2. marker = None
      BY <2>1 DEF IInv, MarkedIsWhole
    <2> QED
      BY <2>1, <2>2
      DEF IInv, TypeOK, ExtractsPinned, WorkersJoined, MarkedIsWhole, PhaseFitsOptions
  <1>3. CASE WriteMarker
    <2>1. /\ tree' = Members /\ marker' = opts.fmt /\ phase' = "probe"
          /\ UNCHANGED <<archive, part, opts, worker, downloaded, faults, last>>
          /\ tree' = tree
      BY <1>3 DEF WriteMarker, GoTo
    <2>2. opts.fmt \in Formats
      BY OptionsTyped DEF IInv, TypeOK
    <2>3. TypeOK'
      BY <2>1, <2>2 DEF IInv, TypeOK
    <2>4. ExtractsPinned' /\ MarkedIsWhole' /\ WorkersJoined' /\ PhaseFitsOptions'
      BY <1>1, <2>1 DEF IInv, ExtractsPinned, MarkedIsWhole, WorkersJoined,
                        PhaseFitsOptions, Downloading, Looking
    <2> QED
      BY <2>3, <2>4 DEF IInv
  <1> QED
    BY <1>2, <1>3

\* The steps with which a run ends.
LEMMA EndingsKeep ==
  ASSUME IInv, PrintPath \/ NotFound \/ StreamFails \/ ExtractFails \/ Probe \/ Kill
  PROVE  IInv'
  <1>1. \E outcome \in {"ok", "failed", "killed"} : End(outcome)
    BY DEF PrintPath, NotFound, StreamFails, ExtractFails, Probe, Kill
  <1>2. UNCHANGED disk /\ faults' \in 0..MaxFaults
    BY FaultsBounded
    DEF PrintPath, NotFound, StreamFails, ExtractFails, Probe, Kill, IInv, TypeOK
  <1> QED
    BY <1>1, <1>2, EndKeeps

-----------------------------------------------------------------------------
\* Every reachable state satisfies the inductive invariant.
THEOREM Inductive == Spec => []IInv
  <1>1. IInv /\ [Next]_vars => IInv'
    <2> SUFFICES ASSUME IInv, [Next]_vars PROVE IInv'
      OBVIOUS
    <2>1. CASE Process
      BY <2>1, FetchKeeps, DownloadKeeps, ExtractionKeeps, EndingsKeep DEF Process
    <2>2. CASE Threads
      BY <2>2, ThreadsKeep
    <2>3. CASE Kill
      BY <2>3, EndingsKeep
    <2>4. CASE \E o \in RunOpts : Start(o)
      BY <2>4, StartKeeps
    <2>5. CASE UNCHANGED vars
      BY <2>5 DEF vars, IInv, TypeOK, ExtractsPinned, WorkersJoined, MarkedIsWhole,
                  PhaseFitsOptions
    <2> QED
      BY <2>1, <2>2, <2>3, <2>4, <2>5 DEF Next
  <1> QED
    BY <1>1, IInvInit, PTL DEF Spec

\* Every file and every local variable holds a value of its kind.
THEOREM TypeCorrect == Spec => []TypeOK
  <1>1. IInv => TypeOK
    BY DEF IInv
  <1> QED
    BY <1>1, Inductive, PTL

\* Whatever the number of connections, formats and faults, nothing but the pinned
\* archive is unpacked (fetch_archive checks the digest of kept and new files).
THEOREM OnlyPinnedIsUnpacked == Spec => []ExtractsPinned
  <1>1. IInv => ExtractsPinned
    BY DEF IInv
  <1> QED
    BY <1>1, Inductive, PTL

\* No thread outlives the parallel download it belongs to, however many there are
\* and whichever of them fail (the executor of _download_parallel waits for all).
THEOREM NoThreadOutlives == Spec => []WorkersJoined
  <1>1. IInv => WorkersJoined
    BY DEF IInv
  <1> QED
    BY <1>1, Inductive, PTL

\* The marker vouches for a complete tree (write_marker after extract).
THEOREM MarkerVouches == Spec => []MarkedIsWhole
  <1>1. IInv => MarkedIsWhole
    BY DEF IInv
  <1> QED
    BY <1>1, Inductive, PTL

\* Runs that only look write nothing, and a forced run unpacks its own download.
THEOREM OptionsAreObeyed == Spec => OptionsTakeEffect
  <1>1. IInv /\ [Next]_vars => [OptionsObeyed]_vars
    <2> SUFFICES ASSUME IInv, Next PROVE OptionsObeyed
      OBVIOUS
    <2>1. At("extract") /\ opts.force => downloaded
      BY DEF IInv, PhaseFitsOptions, At
    <2>2. ASSUME phase # "idle", opts.mode # "fetch"
          PROVE  UNCHANGED disk
      <3>1. phase \in {"print_path", "not_found", "probe"}
        BY <2>2 DEF IInv, PhaseFitsOptions, Looking
      <3>2. \A w \in Workers : worker[w] # "running"
        BY <3>1 DEF IInv, WorkersJoined
      <3>3. ~Threads
        BY <3>2 DEF Threads, WorkerEnds, WorkerFails
      <3>4. PrintPath \/ NotFound \/ Probe \/ Kill
        BY <3>1, <3>3
        DEF Next, Process, At, Start, UseKeptArchive, NoKeptArchive, StartParallel,
            StartSingle, OpenArchive, Assemble, FallBack, OpenSingle, StreamEnds,
            StreamFails, Verify, ExtractMember, ExtractFails, WriteMarker
      <3> QED
        BY <3>4 DEF PrintPath, NotFound, Probe, Kill
    <2> QED
      BY <2>1, <2>2 DEF OptionsObeyed, At
  <1> QED
    BY <1>1, Inductive, PTL DEF Spec, OptionsTakeEffect

-----------------------------------------------------------------------------
(***************************************************************************)
(* The import.                                                             *)
(***************************************************************************)
\* Only a verified tarball gets as far as the removal, and only a run without a
\* tarball downloads one.
ImportPhaseFits ==
  /\ importPhase \in {"idle", "download", "verify", "remove", "extract"}
  /\ importPhase \in {"remove", "extract"} => tarball = "pinned"
  /\ importPhase = "download" => tarball = "none"

ImportInv ==
  /\ vendored \subseteq KeptMembers
  /\ ImportPhaseFits
  /\ GivenUpForPinned
  /\ ImportedIsWhole

LEMMA ImportInvInit == ImportInit => ImportInv
  BY DEF ImportInit, ImportInv, ImportPhaseFits, GivenUpForPinned, ImportedIsWhole

\* Every reachable state of an import satisfies the inductive invariant.
THEOREM ImportInductive == ImportSpec => []ImportInv
  <1>1. ImportInv /\ [ImportNext]_importVars => ImportInv'
    <2> SUFFICES ASSUME ImportInv, [ImportNext]_importVars PROVE ImportInv'
      OBVIOUS
    <2> USE DEF ImportInv, ImportPhaseFits, GivenUpForPinned, ImportedIsWhole,
                ImportAt, Goes, Ends
    <2>1. CASE StartImport
      BY <2>1 DEF StartImport
    <2>2. CASE Download
      BY <2>2 DEF Download
    <2>3. CASE DownloadBreaksOff
      BY <2>3 DEF DownloadBreaksOff
    <2>4. CASE VerifyTarball
      BY <2>4 DEF VerifyTarball
    <2>5. CASE RemoveSome
      BY <2>5 DEF RemoveSome
    <2>6. CASE Removed
      BY <2>6 DEF Removed
    <2>7. CASE \E m \in ReleaseMembers : ImportMember(m)
      BY <2>7 DEF ImportMember
    <2>8. CASE ImportFails
      BY <2>8 DEF ImportFails
    <2>9. CASE Imported
      BY <2>9 DEF Imported
    <2>10. CASE KillImport
      BY <2>10 DEF KillImport
    <2>11. CASE UNCHANGED importVars
      BY <2>11 DEF importVars
    <2> QED
      BY <2>1, <2>2, <2>3, <2>4, <2>5, <2>6, <2>7, <2>8, <2>9, <2>10, <2>11
      DEF ImportNext, Importing
  <1> QED
    BY <1>1, ImportInvInit, PTL DEF ImportSpec

\* Whatever broke off before, the vendored tree is only ever incomplete while the
\* verified tarball lies next to it (the digest is checked before rmtree).
THEOREM TreeIsRecoverable == ImportSpec => []GivenUpForPinned
  <1>1. ImportInv => GivenUpForPinned
    BY DEF ImportInv
  <1> QED
    BY <1>1, ImportInductive, PTL

\* An import that says it succeeded left exactly the members it keeps.
THEOREM ImportIsWhole == ImportSpec => []ImportedIsWhole
  <1>1. ImportInv => ImportedIsWhole
    BY DEF ImportInv
  <1> QED
    BY <1>1, ImportInductive, PTL
=============================================================================
