------------------------------ MODULE HandEdits ------------------------------
(***************************************************************************)
(* Replaying the hand edits that a regeneration overwrites                 *)
(* (scripts/reapply_hand_edits.py) and the verification that every step of *)
(* the generation leaves the committed tree unchanged                      *)
(* (scripts/ci/verify_generated.py).                                       *)
(*                                                                         *)
(* The replay is a fixed program of operations on files.  What a file      *)
(* holds is abstracted to how many times each operation's edit is in it;   *)
(* a freshly generated or freshly imported file holds none.                *)
(***************************************************************************)
EXTENDS Naturals, Sequences

CONSTANTS
    Snapshots,  \* files gen_exports writes per library: gen_exports/<lib>.inc
    Drafts,     \* files --emit-cppm rewrites on every run: src/<lib>.cppm
    Vendored,   \* files under deps/boost, wiped by import_boost.py
    Program,    \* the operations of main, in order
    Hits,       \* snapshots a regeneration may find up to date in its cache
    GitFails    \* whether `git checkout -- <file>` may fail

Files == Snapshots \cup Drafts \cup Vendored
Ops == 1 .. Len(Program)

(* What main's list of operations is like: only patches span several files, *)
(* of the vendored tree or of src/ but not of both; those of TOLERANT, and  *)
(* the one that is not required, are of one file; and what is checked out   *)
(* is in no patch with another file.                                        *)
ASSUME ShapeAssumption ==
    /\ Program \in Seq([kind : {"patch", "guard", "ensure", "restore"},
                        files : SUBSET Files, tolerant : BOOLEAN, anchored : BOOLEAN])
    /\ Program # << >>
    /\ Vendored \cap (Snapshots \cup Drafts) = {}
    /\ \A i \in Ops :
        LET op == Program[i] IN
        /\ op.kind # "patch" => op.anchored
        /\ op.kind # "patch" \/ op.tolerant => \E f \in Files : op.files = {f}
        /\ ~op.anchored => op.tolerant
        /\ op.files \subseteq Vendored \/ op.files \cap Vendored = {}
        /\ op.kind = "restore" =>
             \A j \in Ops : Program[j].files \cap op.files # {} => Program[j].files = op.files

ASSUME HitsAssumption == Hits \in SUBSET Snapshots /\ GitFails \in BOOLEAN

VARIABLES
    tree,   \* tree[f][i]: how many times edit i is in file f
    step,   \* the operation a running replay is at, 0 when none runs
    stage,  \* where verify_generated stands, "off" when it does not run
    full    \* the last regeneration ran to its end

vars == <<tree, step, stage, full>>

Stages == {"off", "vendor", "imported", "generate", "generated", "check",
           "ok", "failed"}

(* An untouched file, and the tree at HEAD: every edit once, except those  *)
(* whose anchor the generated text never had.                              *)
Raw == [i \in Ops |-> 0]
Committed ==
    [f \in Files |-> [i \in Ops |->
        IF f \in Program[i].files /\ Program[i].anchored THEN 1 ELSE 0]]

Init ==
    /\ tree = Committed
    /\ step = 0
    /\ stage = "off"
    /\ full = TRUE

Idle == step = 0 /\ stage \in {"off", "ok", "failed"}

------------------------------------------------------------------------------
(* One operation of the replay. *)

Holds(f, i) == tree[f][i] > 0
Edited(i) == [f \in Files |-> IF f \in Program[i].files
                              THEN [tree[f] EXCEPT ![i] = @ + 1] ELSE tree[f]]

(* `git apply` takes a patch as a whole or not at all. *)
Applies(i) == Program[i].anchored /\ \A f \in Program[i].files : ~Holds(f, i)
AlreadyApplied_Some(i) ==  \* deviation: one file of the patch stands for all
    \E f \in Program[i].files : Holds(f, i)
AlreadyApplied(i) == \A f \in Program[i].files : Holds(f, i)
Stuck(i) == ~Applies(i) /\ ~AlreadyApplied(i) /\ ~Program[i].tolerant

AfterLast == IF stage = "imported" THEN "generate"
             ELSE IF stage = "generated" THEN "check" ELSE stage

(* main goes on to the next operation, or prints "done.". *)
Advance ==
    /\ step' = IF step = Len(Program) THEN 0 ELSE step + 1
    /\ stage' = IF step = Len(Program) THEN AfterLast ELSE stage
    /\ UNCHANGED full

At(kind) == step # 0 /\ Program[step].kind = kind

Patch ==
    /\ At("patch")
    /\ Applies(step)
    /\ tree' = Edited(step)
    /\ Advance

(* Skipped: the reverse application would succeed, or the entry is one     *)
(* whose anchor may be absent.                                             *)
SkipPatch ==
    /\ At("patch")
    /\ ~Applies(step)
    /\ AlreadyApplied(step) \/ Program[step].tolerant
    /\ UNCHANGED tree
    /\ Advance

(* Neither direction applies: SystemExit. *)
PatchFails ==
    /\ At("patch")
    /\ Stuck(step)
    /\ step' = 0
    /\ stage' = "failed"
    /\ UNCHANGED <<tree, full>>

Guarded_Twice(i) == Edited(i)  \* deviation: no look at the lines around

(* Lines already between #if and #endif are left alone. *)
Guarded(i) == IF AlreadyApplied(i) THEN tree ELSE Edited(i)

Guard ==
    /\ At("guard")
    /\ tree' = Guarded(step)
    /\ Advance

Ensure ==
    /\ At("ensure")
    /\ tree' = IF AlreadyApplied(step) THEN tree ELSE Edited(step)
    /\ Advance

Restored(i) == [f \in Files |-> IF f \in Program[i].files THEN Committed[f] ELSE tree[f]]

Restore ==
    /\ At("restore")
    /\ tree' = Restored(step)
    /\ Advance

(* A failing checkout is printed and the replay goes on. *)
RestoreFails ==
    /\ GitFails
    /\ At("restore")
    /\ UNCHANGED tree
    /\ Advance

Replay ==
    \/ Patch \/ SkipPatch \/ PatchFails
    \/ Guard \/ Ensure \/ Restore \/ RestoreFails

------------------------------------------------------------------------------
(* What rewrites the files. *)

Regenerated_NoDrafts(hits) ==  \* deviation: run without --emit-cppm
    [f \in Files |-> IF f \in Snapshots \ hits THEN Raw ELSE tree[f]]

(* gen_exports --emit-cppm: a library whose skip key hits keeps its        *)
(* snapshot, every draft is written anew.                                  *)
Regenerated(hits) ==
    [f \in Files |-> IF f \in (Snapshots \ hits) \cup Drafts THEN Raw ELSE tree[f]]

(* Killed in its first pass it has rewritten some snapshots and no draft.  *)
CutShort(written) == [f \in Files |-> IF f \in written THEN Raw ELSE tree[f]]

Imported == [f \in Files |-> IF f \in Vendored THEN Raw ELSE tree[f]]

------------------------------------------------------------------------------
(* A developer in the working tree. *)

Regenerate ==
    /\ Idle
    /\ \E hits \in SUBSET Hits : tree' = Regenerated(hits)
    /\ full' = TRUE
    /\ stage' = "off"
    /\ UNCHANGED step

RegenerationKilled ==
    /\ Idle
    /\ \E written \in SUBSET Snapshots : tree' = CutShort(written)
    /\ full' = FALSE
    /\ stage' = "off"
    /\ UNCHANGED step

Reimport ==
    /\ Idle
    /\ tree' = Imported
    /\ stage' = "off"
    /\ UNCHANGED <<step, full>>

(* "Run after ANY full regeneration". *)
StartReplay ==
    /\ Idle
    /\ full
    /\ step' = 1
    /\ stage' = "off"
    /\ UNCHANGED <<tree, full>>

(* git checkout -- . *)
Discard ==
    /\ Idle
    /\ tree' = Committed
    /\ full' = TRUE
    /\ stage' = "off"
    /\ UNCHANGED step

Kill ==
    /\ step # 0
    /\ step' = 0
    /\ stage' = "off"
    /\ UNCHANGED <<tree, full>>

------------------------------------------------------------------------------
(* verify_generated.py *)

(* assert_clean: `git diff --exit-code HEAD` *)
Clean == tree = Committed

StartVerify ==
    /\ Idle
    /\ stage' = IF Clean THEN "vendor" ELSE "failed"
    /\ UNCHANGED <<tree, step, full>>

(* import_boost.py and the replay, when import_boost.py changed. *)
VerifyImport ==
    /\ stage = "vendor"
    /\ tree' = Imported
    /\ stage' = "imported"
    /\ step' = 1
    /\ UNCHANGED full

SkipImport ==
    /\ stage = "vendor"
    /\ stage' = "generate"
    /\ UNCHANGED <<tree, step, full>>

(* The replay after an import is followed by assert_clean, the generation  *)
(* is not.                                                                 *)
VerifyGenerate ==
    /\ stage = "generate" /\ step = 0
    /\ Clean
    /\ \E hits \in SUBSET Hits : tree' = Regenerated(hits)
    /\ stage' = "generated"
    /\ step' = 1
    /\ full' = TRUE

LeftDirty ==
    /\ stage \in {"generate", "check"} /\ step = 0
    /\ ~Clean
    /\ stage' = "failed"
    /\ UNCHANGED <<tree, step, full>>

VerifyEnds_Unchecked ==  \* deviation: no assert_clean at the end
    /\ stage = "check" /\ step = 0
    /\ stage' = "ok"
    /\ UNCHANGED <<tree, step, full>>

VerifyEnds ==
    /\ stage = "check" /\ step = 0
    /\ Clean
    /\ stage' = "ok"
    /\ UNCHANGED <<tree, step, full>>

(* A step exits with an error: import_boost.py before it touches the tree,  *)
(* gen_exports.py in its first pass, or one of the steps after the replay. *)
StepFails ==
    /\ stage \in {"vendor", "generate", "check"} /\ step = 0
    /\ stage' = "failed"
    /\ IF stage = "generate"
       THEN \E written \in SUBSET Snapshots : tree' = CutShort(written) /\ full' = FALSE
       ELSE UNCHANGED <<tree, full>>
    /\ UNCHANGED step

Verify ==
    \/ VerifyImport \/ SkipImport \/ VerifyGenerate
    \/ LeftDirty \/ StepFails \/ VerifyEnds

Next ==
    \/ Replay \/ Verify
    \/ Regenerate \/ RegenerationKilled \/ Reimport \/ StartReplay \/ Discard
    \/ StartVerify \/ Kill

Spec == Init /\ [][Next]_vars /\ WF_vars(Replay \/ Verify)

------------------------------------------------------------------------------
(* Properties *)

TypeOK ==
    /\ tree \in [Files -> [Ops -> 0 .. 1]]
    /\ step \in 0 .. Len(Program)
    /\ stage \in Stages
    /\ full \in BOOLEAN

(* A replay never gives up: whatever it is run after (a full regeneration, *)
(* a re-import, a replay that was killed or completed), every patch either *)
(* applies or is recognised as already there.  (The docstring's            *)
(* "idempotent".)                                                          *)
ReplayAlwaysApplies == At("patch") => ~Stuck(step)

(* The same with cached regenerations: the only patches that stop a replay *)
(* are those of a snapshot the cache may have kept.                        *)
OnlyKeptSnapshotsStick ==
    At("patch") /\ Stuck(step) => Program[step].files \cap Hits # {}

(* A replay that runs to its end leaves every file as committed, no edit   *)
(* missing and none applied twice, whatever re-imports, cached or cut      *)
(* short regenerations and killed replays came before it; only a file git  *)
(* was to check out may have kept its text.                                *)
CheckedOut ==
    UNION {Program[i].files : i \in {j \in Ops : Program[j].kind = "restore"}}

Completes == step = Len(Program) /\ Replay /\ ~PatchFails

ReplayRestoresCommitted ==
    [][Completes =>
         \A f \in Files :
           tree'[f] = Committed[f] \/ (GitFails /\ f \in CheckedOut)]_vars

(* The verdict "up to date and idempotent" is only printed on the          *)
(* committed tree, also when a restore failed without stopping the replay. *)
OkIsCommitted == stage = "ok" => Clean

(* A verification that started comes to a verdict, or its replay is killed. *)
VerifyDecides == stage = "vendor" ~> Idle
==============================================================================
