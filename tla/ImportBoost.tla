---------------------------- MODULE ImportBoost -----------------------------
(***************************************************************************)
(* scripts/import_boost.py: download of the pinned release tarball, check  *)
(* of its digest, and replacement of deps/boost by what it holds.          *)
(***************************************************************************)
EXTENDS Naturals, FiniteSets

CONSTANTS
  ReleaseMembers,   \* the members of the tarball
  KeptMembers,      \* those keep_rel_path imports
  ImportFaults,     \* what may go wrong: a subset of ImportFaultKinds
  MaxImportFaults   \* how often something goes wrong

ImportFaultKinds == {"broken_off", "wrong_bytes", "disk", "kill"}

ASSUME ImportAssumption ==
  /\ IsFiniteSet(ReleaseMembers) /\ KeptMembers \subseteq ReleaseMembers
  /\ ImportFaults \subseteq ImportFaultKinds /\ MaxImportFaults \in Nat

VARIABLES
  partFile,     \* <tarball>.part is there
  tarball,      \* the tarball: "none", "pinned" or "wrong"
  vendored,     \* the members deps/boost holds
  importPhase,  \* where the running process is, or "idle"
  failures,     \* ghost: how often something went wrong
  lastImport    \* ghost: how the last run ended

importVars == <<partFile, tarball, vendored, importPhase, failures, lastImport>>

ImportAt(p) == importPhase = p

Goes(p) == importPhase' = p /\ UNCHANGED lastImport

Ends(outcome) == importPhase' = "idle" /\ lastImport' = outcome

ImportMayFail(kind) ==
  kind \in ImportFaults /\ failures < MaxImportFaults /\ failures' = failures + 1

-----------------------------------------------------------------------------
ImportInit ==
  /\ partFile = FALSE
  /\ tarball = "none"
  /\ vendored = KeptMembers
  /\ importPhase = "idle"
  /\ failures = 0
  /\ lastImport = "none"

\* Deviation: a .part file counts as a download made.
StartImport_TakesPart ==
  /\ ImportAt("idle")
  /\ Goes(IF tarball = "none" /\ ~partFile THEN "download" ELSE "verify")
  /\ UNCHANGED <<partFile, tarball, vendored, failures>>

StartImport ==
  /\ ImportAt("idle")
  /\ Goes(IF tarball = "none" THEN "download" ELSE "verify")
  /\ UNCHANGED <<partFile, tarball, vendored, failures>>

\* Into the .part file first, which takes the place of the tarball when the
\* transfer raised nothing.
Download ==
  /\ ImportAt("download")
  /\ partFile' = FALSE
  /\ \/ tarball' = "pinned" /\ UNCHANGED failures
     \/ tarball' = "wrong" /\ ImportMayFail("wrong_bytes")
  /\ Goes("verify")
  /\ UNCHANGED vendored

DownloadBreaksOff ==
  /\ ImportAt("download")
  /\ ImportMayFail("broken_off")
  /\ partFile' = TRUE
  /\ Ends("failed")
  /\ UNCHANGED <<tarball, vendored>>

\* Deviation: the old tree goes before the digest is looked at.
VerifyTarball_RemovesFirst ==
  /\ ImportAt("verify")
  /\ vendored' = {}
  /\ IF tarball = "pinned" THEN Goes("extract") ELSE Ends("failed")
  /\ UNCHANGED <<partFile, tarball, failures>>

\* A tarball with another digest ends the run, and stays where it is.
VerifyTarball ==
  /\ ImportAt("verify")
  /\ IF tarball = "pinned" THEN Goes("remove") ELSE Ends("failed")
  /\ UNCHANGED <<partFile, tarball, vendored, failures>>

\* rmtree takes the files one after another.
RemoveSome ==
  /\ ImportAt("remove")
  /\ \E S \in SUBSET vendored : S # vendored /\ vendored' = S
  /\ UNCHANGED <<partFile, tarball, importPhase, failures, lastImport>>

Removed ==
  /\ ImportAt("remove") /\ vendored = {}
  /\ Goes("extract")
  /\ UNCHANGED <<partFile, tarball, vendored, failures>>

\* Deviation: documentation is imported too.
ImportMember_All(m) ==
  /\ ImportAt("extract") /\ m \in ReleaseMembers \ vendored
  /\ vendored' = vendored \cup {m}
  /\ UNCHANGED <<partFile, tarball, importPhase, failures, lastImport>>

ImportMember(m) ==
  /\ ImportAt("extract") /\ m \in KeptMembers \ vendored
  /\ vendored' = vendored \cup {m}
  /\ UNCHANGED <<partFile, tarball, importPhase, failures, lastImport>>

ImportFails ==
  /\ ImportAt("extract")
  /\ ImportMayFail("disk")
  /\ Ends("failed")
  /\ UNCHANGED <<partFile, tarball, vendored>>

Imported ==
  /\ ImportAt("extract") /\ KeptMembers \subseteq vendored
  /\ Ends("ok")
  /\ UNCHANGED <<partFile, tarball, vendored, failures>>

KillImport ==
  /\ ~ImportAt("idle")
  /\ ImportMayFail("kill")
  /\ Ends("killed")
  /\ partFile' \in {partFile, partFile \/ ImportAt("download")}
  /\ UNCHANGED <<tarball, vendored>>

Importing ==
  \/ Download \/ DownloadBreaksOff \/ VerifyTarball \/ RemoveSome \/ Removed
  \/ (\E m \in ReleaseMembers : ImportMember(m)) \/ ImportFails \/ Imported

ImportNext == StartImport \/ Importing \/ KillImport

\* The process goes on; nobody is obliged to start one.
ImportSpec == ImportInit /\ [][ImportNext]_importVars /\ WF_importVars(Importing)

\* A user who runs it again after every failure.
Persistent == ImportSpec /\ WF_importVars(StartImport)
-----------------------------------------------------------------------------
\* The vendored tree is given up only for a tarball with the pinned digest,
\* however many runs were broken off, killed or fed the wrong bytes before.
GivenUpForPinned == vendored # KeptMembers => tarball = "pinned"

\* A run that succeeds leaves exactly the members that are imported.
ImportedIsWhole == importPhase = "idle" /\ lastImport = "ok" => vendored = KeptMembers

\* Running it again reverts whatever happened to the tree.
RerunReverts == []<>(lastImport = "ok" /\ vendored = KeptMembers)

\* It does after broken transfers, full disks and kills at any step, as long as
\* no complete download of wrong bytes lies at the tarball's path.
RerunRevertsPinned == []<>(tarball = "wrong") \/ RerunReverts
=============================================================================
