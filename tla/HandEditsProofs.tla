--------------------------- MODULE HandEditsProofs ---------------------------
(***************************************************************************)
(* The safety properties of HandEdits, for any list of operations of the   *)
(* shape main() has, any files and any cache.                              *)
(***************************************************************************)
EXTENDS HandEdits, TLAPS

Running == step # 0

\* No edit is in a file twice, or in a file it does not belong to.
Levels ==
  /\ tree \in [Files -> [Ops -> 0 .. 1]]
  /\ \A f \in Files, i \in Ops :
       tree[f][i] = 1 => f \in Program[i].files /\ Program[i].anchored

\* The operations the replay has passed left their files as committed.
Excused(f) == GitFails /\ f \in CheckedOut

Replayed ==
  Running => \A i \in 1 .. step - 1 : \A f \in Program[i].files :
               tree[f][i] = Committed[f][i] \/ Excused(f)

\* All files of a patch hold it, or none does.
Whole(i) == \A f, g \in Program[i].files : tree[f][i] = tree[g][i]

\* A patch is half gone only after a regeneration cut short, or where the cache
\* may have kept a file of it.
Coherent ==
  \A i \in Ops :
    Program[i].files \cap Hits = {} /\ (Program[i].files \subseteq Vendored \/ full \/ Running)
      => Whole(i)

Control ==
  /\ step \in 0 .. Len(Program)
  /\ stage \in Stages
  /\ full \in BOOLEAN
  /\ stage \in {"vendor", "ok"} => Clean /\ ~Running

IInv == Levels /\ Replayed /\ Coherent /\ Control

-----------------------------------------------------------------------------
\* What ShapeAssumption says of one operation.
LEMMA Shape ==
  ASSUME NEW i \in Ops
  PROVE  /\ Program[i].files \subseteq Files
         /\ Program[i].kind \in {"patch", "guard", "ensure", "restore"}
         /\ Program[i].tolerant \in BOOLEAN /\ Program[i].anchored \in BOOLEAN
         /\ Program[i].kind # "patch" => Program[i].anchored
         /\ Program[i].kind # "patch" \/ Program[i].tolerant
              => \E f \in Files : Program[i].files = {f}
         /\ ~Program[i].anchored => Program[i].tolerant
         /\ Program[i].files \subseteq Vendored \/ Program[i].files \cap Vendored = {}
         /\ Program[i].kind = "restore" =>
              \A j \in Ops : Program[j].files \cap Program[i].files # {}
                               => Program[j].files = Program[i].files
  <1>1. Len(Program) \in Nat /\ Ops = 1 .. Len(Program)
    BY ShapeAssumption DEF Ops
  <1>2. Program[i] \in [kind : {"patch", "guard", "ensure", "restore"},
                        files : SUBSET Files, tolerant : BOOLEAN, anchored : BOOLEAN]
    <2> DEFINE Operations == [kind : {"patch", "guard", "ensure", "restore"},
                              files : SUBSET Files, tolerant : BOOLEAN, anchored : BOOLEAN]
    <2>1. Program \in Seq(Operations)
      BY ShapeAssumption
    <2> HIDE DEF Operations
    <2>2. Program[i] \in Operations
      BY <1>1, <2>1
    <2> QED
      BY <2>2 DEF Operations
  <1>3. /\ Program[i].files \subseteq Files
        /\ Program[i].kind \in {"patch", "guard", "ensure", "restore"}
        /\ Program[i].tolerant \in BOOLEAN /\ Program[i].anchored \in BOOLEAN
    BY <1>2
  <1>4. /\ Program[i].kind # "patch" => Program[i].anchored
        /\ Program[i].kind # "patch" \/ Program[i].tolerant
             => \E f \in Files : Program[i].files = {f}
        /\ ~Program[i].anchored => Program[i].tolerant
        /\ Program[i].files \subseteq Vendored \/ Program[i].files \cap Vendored = {}
        /\ Program[i].kind = "restore" =>
             \A j \in Ops : Program[j].files \cap Program[i].files # {}
                              => Program[j].files = Program[i].files
    BY ShapeAssumption, Zenon
  <1> QED
    BY <1>3, <1>4

LEMMA Length == Len(Program) \in Nat \ {0} /\ Ops = 1 .. Len(Program)
  BY ShapeAssumption DEF Ops

\* The committed tree holds every edit that has an anchor, once.
LEMMA CommittedShape ==
  /\ Committed \in [Files -> [Ops -> 0 .. 1]]
  /\ \A f \in Files, i \in Ops :
       Committed[f][i] = IF f \in Program[i].files /\ Program[i].anchored THEN 1 ELSE 0
  BY DEF Committed

LEMMA RawShape == Raw \in [Ops -> 0 .. 1] /\ \A i \in Ops : Raw[i] = 0
  BY DEF Raw

\* A tree whose files are as they were, untouched, or committed.
LEMMA LevelsKept ==
  ASSUME Levels, NEW t, t = [f \in Files |-> t[f]],
         \A f \in Files : t[f] \in {tree[f], Raw, Committed[f]}
  PROVE  /\ t \in [Files -> [Ops -> 0 .. 1]]
         /\ \A f \in Files, i \in Ops :
              t[f][i] = 1 => f \in Program[i].files /\ Program[i].anchored
  <1>1. \A f \in Files : t[f] \in [Ops -> 0 .. 1]
    BY CommittedShape, RawShape DEF Levels
  <1>2. ASSUME NEW f \in Files, NEW i \in Ops, t[f][i] = 1
        PROVE  f \in Program[i].files /\ Program[i].anchored
    BY <1>2, CommittedShape, RawShape DEF Levels
  <1> QED
    BY <1>1, <1>2
-----------------------------------------------------------------------------
\* What an operation that does not stop the replay does to the tree: its files are
\* then as committed in what concerns it, the rest stays or becomes as committed.
Effect ==
  /\ tree' \in [Files -> [Ops -> 0 .. 1]]
  /\ \A f \in Files, i \in Ops :
       tree'[f][i] = 1 => f \in Program[i].files /\ Program[i].anchored
  /\ \A f \in Files, i \in Ops \ {step} :
       tree'[f][i] = tree[f][i] \/ tree'[f][i] = Committed[f][i]
  /\ \A f \in Program[step].files : tree'[f][step] = Committed[f][step] \/ Excused(f)
  /\ \A i \in Ops : Whole(i) => Whole(i)'

\* Every file of an operation with an anchor gains its edit.
LEMMA EditedEffect ==
  ASSUME Levels, NEW i \in Ops, i = step, Program[i].anchored, tree' = Edited(i),
         \A f \in Program[i].files : ~Holds(f, i)
  PROVE  Effect
  <1>1. \A f \in Program[i].files : f \in Files /\ tree[f][i] = 0
    BY Shape DEF Levels, Holds
  <1>2. \A f \in Files \ Program[i].files : tree'[f] = tree[f]
    BY DEF Edited
  <1>3. \A f \in Program[i].files :
          /\ tree'[f] \in [Ops -> 0 .. 1] /\ tree'[f][i] = 1
          /\ \A j \in Ops \ {i} : tree'[f][j] = tree[f][j]
    BY <1>1 DEF Edited, Levels
  <1>4. tree' \in [Files -> [Ops -> 0 .. 1]]
    <2>1. \A f \in Files : tree'[f] \in [Ops -> 0 .. 1]
      BY <1>2, <1>3 DEF Levels
    <2> QED
      BY <2>1 DEF Edited
  <1>5. \A f \in Files, j \in Ops \ {i} : tree'[f][j] = tree[f][j]
    BY <1>2, <1>3
  <1>6. ASSUME NEW f \in Files, NEW j \in Ops, tree'[f][j] = 1
        PROVE  f \in Program[j].files /\ Program[j].anchored
    BY <1>2, <1>5, <1>6 DEF Levels
  <1>7. ASSUME NEW j \in Ops, Whole(j)
        PROVE  Whole(j)'
    BY <1>3, <1>5, <1>7, Shape DEF Whole
  <1>8. \A f \in Program[i].files : tree'[f][i] = Committed[f][i]
    BY <1>1, <1>3, CommittedShape
  <1> QED
    BY <1>4, <1>5, <1>6, <1>7, <1>8 DEF Effect

\* An operation that changes nothing, because its edit is there already.
LEMMA AppliedEffect ==
  ASSUME Levels, NEW i \in Ops, i = step, tree' = tree,
         \A f \in Program[i].files : tree[f][i] = Committed[f][i] \/ Excused(f)
  PROVE  Effect
  BY DEF Levels, Effect, Whole

LEMMA HoldsAsCommitted ==
  ASSUME Levels, NEW i \in Ops, NEW f \in Program[i].files, Holds(f, i)
  PROVE  tree[f][i] = Committed[f][i]
  <1>1. f \in Files /\ tree[f][i] \in 0 .. 1
    BY Shape DEF Levels
  <1>2. tree[f][i] = 1
    BY <1>1 DEF Holds
  <1> QED
    BY <1>1, <1>2, CommittedShape DEF Levels

LEMMA PatchEffect ==
  ASSUME Levels, step \in Ops, Patch \/ SkipPatch
  PROVE  Effect
  <1>1. CASE Patch
    BY <1>1, EditedEffect DEF Patch, Applies
  <1>2. CASE SkipPatch /\ AlreadyApplied(step)
    BY <1>2, AppliedEffect, HoldsAsCommitted DEF SkipPatch, AlreadyApplied
  <1>3. CASE SkipPatch /\ ~AlreadyApplied(step)
    <2>1. Program[step].tolerant /\ ~Applies(step) /\ tree' = tree
      BY <1>3 DEF SkipPatch
    <2>2. PICK f \in Files : Program[step].files = {f}
      BY <2>1, Shape
    <2>3. ~Program[step].anchored
      BY <1>3, <2>1, <2>2 DEF Applies, AlreadyApplied
    <2>4. tree[f][step] = 0 /\ Committed[f][step] = 0
      BY <2>3, CommittedShape DEF Levels
    <2> QED
      BY <2>1, <2>2, <2>4, AppliedEffect
  <1> QED
    BY <1>1, <1>2, <1>3

LEMMA GuardEffect ==
  ASSUME Levels, step \in Ops, Guard \/ Ensure
  PROVE  Effect
  <1>1. tree' = IF AlreadyApplied(step) THEN tree ELSE Edited(step)
    BY DEF Guard, Ensure, Guarded
  <1>2. Program[step].kind # "patch"
    BY DEF Guard, Ensure, At
  <1>3. Program[step].anchored /\ \E f \in Files : Program[step].files = {f}
    BY <1>2, Shape
  <1>4. CASE AlreadyApplied(step)
    BY <1>1, <1>4, AppliedEffect, HoldsAsCommitted DEF AlreadyApplied
  <1>5. CASE ~AlreadyApplied(step)
    <2>1. \A f \in Program[step].files : ~Holds(f, step)
      BY <1>3, <1>5 DEF AlreadyApplied
    <2> QED
      BY <1>1, <1>3, <1>5, <2>1, EditedEffect
  <1> QED
    BY <1>4, <1>5

LEMMA RestoreEffect ==
  ASSUME Levels, step \in Ops, Restore \/ RestoreFails
  PROVE  Effect
  <1>1. Program[step].kind = "restore"
    BY DEF Restore, RestoreFails, At
  <1>2. CASE Restore
    <2>1. /\ tree' = [f \in Files |-> IF f \in Program[step].files THEN Committed[f] ELSE tree[f]]
          /\ \A f \in Files : tree'[f] \in {tree[f], Raw, Committed[f]}
      BY <1>2 DEF Restore, Restored
    <2>2. PICK r \in Files : Program[step].files = {r}
      BY <1>1, Shape
    <2>3. tree'[r] = Committed[r] /\ \A f \in Files \ {r} : tree'[f] = tree[f]
      BY <2>1, <2>2
    <2>4. /\ tree' \in [Files -> [Ops -> 0 .. 1]]
          /\ \A f \in Files, i \in Ops :
               tree'[f][i] = 1 => f \in Program[i].files /\ Program[i].anchored
      <3>1. tree' = [f \in Files |-> tree'[f]]
        BY <2>1
      <3> QED
        BY <2>1, <3>1, LevelsKept
    <2>5. ASSUME NEW i \in Ops, Whole(i)
          PROVE  Whole(i)'
      <3>1. CASE r \in Program[i].files
        <4>1. Program[i].files = {r}
          BY <1>1, <2>2, <3>1, Shape
        <4> QED
          BY <4>1 DEF Whole
      <3>2. CASE r \notin Program[i].files
        BY <2>3, <2>5, <3>2, Shape DEF Whole
      <3> QED
        BY <3>1, <3>2
    <2> QED
      BY <2>2, <2>3, <2>4, <2>5 DEF Effect
  <1>3. CASE RestoreFails
    <2>1. \A f \in Program[step].files : Excused(f)
      BY <1>1, <1>3 DEF RestoreFails, Excused, CheckedOut
    <2> QED
      BY <1>3, <2>1, AppliedEffect DEF RestoreFails
  <1> QED
    BY <1>2, <1>3
-----------------------------------------------------------------------------
\* The operations that go on, apart from the one that stops the replay.
GoesOn == Patch \/ SkipPatch \/ Guard \/ Ensure \/ Restore \/ RestoreFails

LEMMA GoesOnEffect ==
  ASSUME IInv, GoesOn
  PROVE  Effect /\ Advance /\ step \in Ops
  <1>1. step \in Ops
    BY Length DEF IInv, Control, GoesOn, Patch, SkipPatch, Guard, Ensure, Restore,
                  RestoreFails, At
  <1>2. Effect
    BY <1>1, PatchEffect, GuardEffect, RestoreEffect DEF IInv, GoesOn
  <1>3. Advance
    BY DEF GoesOn, Patch, SkipPatch, Guard, Ensure, Restore, RestoreFails
  <1> QED
    BY <1>1, <1>2, <1>3

LEMMA ReplayKeeps ==
  ASSUME IInv, Replay
  PROVE  IInv'
  <1>1. CASE PatchFails
    <2>1. step' = 0 /\ stage' = "failed" /\ tree' = tree /\ full' = full /\ Running
      BY <1>1 DEF PatchFails, At, Running
    <2> QED
      BY <2>1, Length
      DEF IInv, Levels, Replayed, Coherent, Whole, Control, Stages, Running
  <1>2. CASE GoesOn
    <2>1. Effect /\ Advance /\ step \in Ops /\ step # 0
      BY <1>2, GoesOnEffect, Length
    <2>2. Levels'
      BY <2>1 DEF Effect, Levels
    <2>3. Replayed'
      <3> SUFFICES ASSUME step' # 0, NEW i \in 1 .. step' - 1, NEW f \in Program[i].files
                   PROVE  tree'[f][i] = Committed[f][i] \/ Excused(f)
        BY DEF Replayed, Running, Excused, CheckedOut, Committed
      <3>1. step' = step + 1 /\ i \in 1 .. step
        BY <2>1, Length DEF Advance
      <3>2. i \in Ops /\ f \in Files
        BY <2>1, <3>1, Length, Shape
      <3>3. CASE i = step
        BY <2>1, <3>3 DEF Effect
      <3>4. CASE i # step
        <4>1. tree[f][i] = Committed[f][i] \/ Excused(f)
          BY <2>1, <3>1, <3>4, Length DEF IInv, Replayed, Running
        <4> QED
          BY <2>1, <3>2, <3>4, <4>1 DEF Effect
      <3> QED
        BY <3>3, <3>4
    <2>4. Coherent'
      BY <2>1 DEF IInv, Coherent, Effect, Running
    <2>5. Control'
      <3>1. step' \in 0 .. Len(Program) /\ full' = full
        BY <2>1, Length DEF Advance
      <3>2. stage \notin {"vendor", "ok"}
        BY <2>1 DEF IInv, Control, Running
      <3>3. stage' \in Stages /\ stage' \notin {"vendor", "ok"}
        BY <2>1, <3>2 DEF Advance, AfterLast, IInv, Control, Stages
      <3> QED
        BY <3>1, <3>3 DEF IInv, Control
    <2> QED
      BY <2>2, <2>3, <2>4, <2>5 DEF IInv
  <1> QED
    BY <1>1, <1>2 DEF Replay, GoesOn

\* What rewrites files outside a replay: every file stays, is written anew or is
\* committed.
LEMMA RewritingKeeps ==
  ASSUME IInv, NEW t, t = [f \in Files |-> t[f]], tree' = t,
         \A f \in Files : t[f] \in {tree[f], Raw, Committed[f]},
         step' \in {0, 1}, full' \in BOOLEAN, stage' \in Stages \ {"vendor", "ok"},
         \A i \in Ops :
           Program[i].files \cap Hits = {}
             /\ (Program[i].files \subseteq Vendored \/ full' \/ step' # 0)
           => Whole(i)'
  PROVE  IInv'
  <1>1. Levels'
    BY LevelsKept DEF IInv, Levels
  <1>2. Replayed'
    BY DEF Replayed, Running
  <1>3. Coherent'
    BY DEF Coherent, Running
  <1>4. Control'
    BY Length DEF Control
  <1> QED
    BY <1>1, <1>2, <1>3, <1>4 DEF IInv

\* Where all files of an operation are untouched, committed or as they were.
LEMMA SameKept ==
  ASSUME NEW i \in Ops,
         \/ \A f \in Program[i].files : tree'[f] = Raw
         \/ \A f \in Program[i].files : tree'[f] = Committed[f]
         \/ Whole(i) /\ \A f \in Program[i].files : tree'[f] = tree[f]
  PROVE  Whole(i)'
  <1>1. \A f \in Program[i].files : f \in Files
    BY Shape
  <1> QED
    BY <1>1, CommittedShape, RawShape DEF Whole

\* A regeneration writes every file of a patch that the cache does not keep.
LEMMA RegeneratedKept ==
  ASSUME Coherent, NEW hits \in SUBSET Hits, tree' = Regenerated(hits),
         NEW i \in Ops, Program[i].files \cap Hits = {}
  PROVE  Whole(i)'
  <1>1. Program[i].files \subseteq Files
        /\ (Program[i].files \subseteq Vendored \/ Program[i].files \cap Vendored = {})
    BY Shape
  <1>2. CASE Program[i].files \subseteq Vendored
    <2>1. \A f \in Program[i].files : tree'[f] = tree[f]
      BY <1>1, <1>2, ShapeAssumption DEF Regenerated
    <2> QED
      BY <1>2, <2>1, SameKept DEF Coherent
  <1>3. CASE Program[i].files \cap Vendored = {}
    <2>1. \A f \in Program[i].files : tree'[f] = Raw
      BY <1>1, <1>3 DEF Regenerated, Files
    <2> QED
      BY <2>1, SameKept
  <1> QED
    BY <1>1, <1>2, <1>3

LEMMA ImportedKept ==
  ASSUME tree' = Imported, NEW i \in Ops, Whole(i)
  PROVE  Whole(i)'
  <1>1. Program[i].files \subseteq Files
        /\ (Program[i].files \subseteq Vendored \/ Program[i].files \cap Vendored = {})
    BY Shape
  <1>2. CASE Program[i].files \subseteq Vendored
    BY <1>1, <1>2, SameKept DEF Imported
  <1>3. CASE Program[i].files \cap Vendored = {}
    <2>1. \A f \in Program[i].files : tree'[f] = tree[f]
      BY <1>1, <1>3 DEF Imported
    <2> QED
      BY <2>1, SameKept
  <1> QED
    BY <1>1, <1>2, <1>3

LEMMA CutShortKept ==
  ASSUME Coherent, NEW written \in SUBSET Snapshots, tree' = CutShort(written),
         NEW i \in Ops, Program[i].files \cap Hits = {}, Program[i].files \subseteq Vendored
  PROVE  Whole(i)'
  <1>1. \A f \in Program[i].files : tree'[f] = tree[f]
    BY Shape, ShapeAssumption DEF CutShort
  <1> QED
    BY <1>1, SameKept DEF Coherent

\* On a committed tree every patch is whole.
LEMMA CleanIsWhole ==
  ASSUME Clean, NEW i \in Ops
  PROVE  Whole(i)
  BY Shape, CommittedShape DEF Clean, Whole

LEMMA DeveloperKeeps ==
  ASSUME IInv, Regenerate \/ RegenerationKilled \/ Reimport \/ Discard
  PROVE  IInv'
  <1>1. step' = 0 /\ stage' = "off" /\ "off" \in Stages \ {"vendor", "ok"} /\ step = 0
    BY DEF Regenerate, RegenerationKilled, Reimport, Discard, Idle, Stages
  <1>2. CASE Regenerate
    <2>1. PICK hits \in SUBSET Hits : tree' = Regenerated(hits)
      BY <1>2 DEF Regenerate
    <2>2. full' = TRUE
      BY <1>2 DEF Regenerate
    <2>3. \A i \in Ops : Program[i].files \cap Hits = {} => Whole(i)'
      BY <2>1, RegeneratedKept DEF IInv
    <2> DEFINE t == Regenerated(hits)
    <2>4. t = [f \in Files |-> t[f]] /\ \A f \in Files : t[f] \in {tree[f], Raw, Committed[f]}
      BY DEF Regenerated
    <2> HIDE DEF t
    <2> QED
      BY <1>1, <2>1, <2>2, <2>3, <2>4, RewritingKeeps DEF t
  <1>3. CASE RegenerationKilled
    <2>1. PICK written \in SUBSET Snapshots : tree' = CutShort(written)
      BY <1>3 DEF RegenerationKilled
    <2>2. full' = FALSE
      BY <1>3 DEF RegenerationKilled
    <2>3. \A i \in Ops : Program[i].files \cap Hits = {} /\ Program[i].files \subseteq Vendored
                          => Whole(i)'
      BY <2>1, CutShortKept DEF IInv
    <2> DEFINE t == CutShort(written)
    <2>4. t = [f \in Files |-> t[f]] /\ \A f \in Files : t[f] \in {tree[f], Raw, Committed[f]}
      BY DEF CutShort
    <2> HIDE DEF t
    <2> QED
      BY <1>1, <2>1, <2>2, <2>3, <2>4, RewritingKeeps DEF t
  <1>4. CASE Reimport
    <2>1. tree' = Imported /\ full' = full
      BY <1>4 DEF Reimport
    <2>2. \A i \in Ops :
            Program[i].files \cap Hits = {} /\ (Program[i].files \subseteq Vendored \/ full)
              => Whole(i)'
      BY <2>1, ImportedKept DEF IInv, Coherent
    <2>3. Imported = [f \in Files |-> Imported[f]]
          /\ \A f \in Files : Imported[f] \in {tree[f], Raw, Committed[f]}
      BY DEF Imported
    <2> QED
      BY <1>1, <2>1, <2>2, <2>3, RewritingKeeps DEF IInv, Control
  <1>5. CASE Discard
    <2>1. tree' = Committed /\ full' = TRUE
      BY <1>5 DEF Discard
    <2>2. \A i \in Ops : Whole(i)'
      BY <2>1, Shape, SameKept
    <2>3. Committed = [f \in Files |-> Committed[f]]
      BY DEF Committed
    <2> QED
      BY <1>1, <2>1, <2>2, <2>3, RewritingKeeps
  <1> QED
    BY <1>2, <1>3, <1>4, <1>5

LEMMA ControlKeeps ==
  ASSUME IInv, StartReplay \/ StartVerify \/ Kill
  PROVE  IInv'
  <1>1. tree' = tree /\ full' = full /\ step' \in {0, 1} /\ stage' \in Stages
    BY DEF StartReplay, StartVerify, Kill, Idle, Stages
  <1>2. Levels'
    BY <1>1 DEF IInv, Levels
  <1>3. Replayed'
    <2>1. step' # 0 => 1 .. step' - 1 = {}
      <3>1. CASE step' = 1
        BY <3>1
      <3>2. CASE step' = 0
        BY <3>2
      <3> QED
        BY <1>1, <3>1, <3>2
    <2> SUFFICES ASSUME step' # 0, NEW i \in 1 .. step' - 1
                 PROVE  FALSE
      BY DEF Replayed, Running
    <2> QED
      BY <2>1
  <1>4. step' # 0 => full
    BY DEF StartReplay, StartVerify, Kill, Idle
  <1>5. Coherent'
    BY <1>1, <1>4 DEF IInv, Coherent, Whole, Running
  <1>6. stage' \in {"vendor", "ok"} => Clean' /\ step' = 0
    BY <1>1 DEF StartReplay, StartVerify, Kill, Idle, Clean
  <1> QED
    BY <1>1, <1>2, <1>3, <1>5, <1>6, Length DEF IInv, Control, Running

LEMMA VerifyKeeps ==
  ASSUME IInv, Verify
  PROVE  IInv'
  <1>1. CASE VerifyImport
    <2>1. tree' = Imported /\ full' = full /\ step' = 1 /\ stage' = "imported" /\ Clean
      BY <1>1 DEF VerifyImport, IInv, Control
    <2>2. \A i \in Ops : Whole(i)'
      BY <2>1, CleanIsWhole, ImportedKept
    <2>3. Imported = [f \in Files |-> Imported[f]]
          /\ \A f \in Files : Imported[f] \in {tree[f], Raw, Committed[f]}
      BY DEF Imported
    <2> QED
      BY <2>1, <2>2, <2>3, RewritingKeeps DEF IInv, Control, Stages
  <1>2. CASE VerifyGenerate
    <2>1. PICK hits \in SUBSET Hits : tree' = Regenerated(hits)
      BY <1>2 DEF VerifyGenerate
    <2>2. full' = TRUE /\ step' = 1 /\ stage' = "generated"
      BY <1>2 DEF VerifyGenerate
    <2>3. \A i \in Ops : Program[i].files \cap Hits = {} => Whole(i)'
      BY <2>1, RegeneratedKept DEF IInv
    <2> DEFINE t == Regenerated(hits)
    <2>4. t = [f \in Files |-> t[f]] /\ \A f \in Files : t[f] \in {tree[f], Raw, Committed[f]}
      BY DEF Regenerated
    <2> HIDE DEF t
    <2> QED
      BY <2>1, <2>2, <2>3, <2>4, RewritingKeeps DEF t, Stages
  <1>3. CASE StepFails /\ stage = "generate"
    <2>1. PICK written \in SUBSET Snapshots : tree' = CutShort(written)
      BY <1>3 DEF StepFails
    <2>2. full' = FALSE /\ step' = 0 /\ stage' = "failed"
      BY <1>3 DEF StepFails
    <2>3. \A i \in Ops : Program[i].files \cap Hits = {} /\ Program[i].files \subseteq Vendored
                          => Whole(i)'
      BY <2>1, CutShortKept DEF IInv
    <2> DEFINE t == CutShort(written)
    <2>4. t = [f \in Files |-> t[f]] /\ \A f \in Files : t[f] \in {tree[f], Raw, Committed[f]}
      BY DEF CutShort
    <2> HIDE DEF t
    <2> QED
      BY <2>1, <2>2, <2>3, <2>4, RewritingKeeps DEF t, Stages
  <1>4. CASE SkipImport \/ LeftDirty \/ VerifyEnds \/ (StepFails /\ stage # "generate")
    <2>1. tree' = tree /\ full' = full /\ step' = step /\ stage' \in Stages
          /\ stage' # "vendor" /\ (stage' = "ok" => Clean /\ step = 0)
      BY <1>4 DEF SkipImport, LeftDirty, VerifyEnds, StepFails, Stages
    <2> QED
      BY <2>1 DEF IInv, Levels, Replayed, Coherent, Whole, Control, Running, Clean
  <1> QED
    BY <1>1, <1>2, <1>3, <1>4 DEF Verify

-----------------------------------------------------------------------------
LEMMA IInvInit == Init => IInv
  <1> SUFFICES ASSUME Init PROVE IInv
    OBVIOUS
  <1>1. Levels
    BY CommittedShape DEF Init, Levels
  <1>2. Coherent
    BY CleanIsWhole DEF Init, Clean, Coherent
  <1> QED
    BY <1>1, <1>2, Length DEF Init, IInv, Replayed, Control, Running, Stages

\* Every reachable state satisfies the inductive invariant.
THEOREM Inductive == Spec => []IInv
  <1>1. IInv /\ [Next]_vars => IInv'
    <2>1. IInv /\ UNCHANGED vars => IInv'
      BY DEF vars, IInv, Levels, Replayed, Coherent, Whole, Control, Running, Clean
    <2> QED
      BY <2>1, ReplayKeeps, VerifyKeeps, DeveloperKeeps, ControlKeeps DEF Next
  <1> QED
    BY <1>1, IInvInit, PTL DEF Spec

\* No edit is ever applied twice, whatever the operations and files.
THEOREM TypeCorrect == Spec => []TypeOK
  <1>1. IInv => TypeOK
    BY DEF IInv, Levels, Control, TypeOK
  <1> QED
    BY <1>1, Inductive, PTL

\* A replay stops only at a patch of a snapshot the cache may have kept, for any
\* operations of main's shape (apply_patch_file).
THEOREM OnlyKeptStops == Spec => []OnlyKeptSnapshotsStick
  <1>1. IInv => OnlyKeptSnapshotsStick
    <2> SUFFICES ASSUME IInv, At("patch"), Stuck(step), Program[step].files \cap Hits = {}
                 PROVE  FALSE
      BY DEF OnlyKeptSnapshotsStick
    <2>1. step \in Ops /\ Running
      BY Length DEF IInv, Control, At, Running
    <2>2. Whole(step)
      BY <2>1 DEF IInv, Coherent
    <2>3. Program[step].anchored
      BY <2>1, Shape DEF Stuck
    <2> QED
      BY <2>2, <2>3 DEF Stuck, Applies, AlreadyApplied, Holds, Whole
  <1> QED
    BY <1>1, Inductive, PTL

\* The verification says ok only on the committed tree.
THEOREM OkMeansCommitted == Spec => []OkIsCommitted
  <1>1. IInv => OkIsCommitted
    BY DEF IInv, Control, OkIsCommitted
  <1> QED
    BY <1>1, Inductive, PTL

\* A replay that runs to its end leaves every file as committed, whatever the
\* operations, files and cache, and whatever came before it (main).
THEOREM ReplayIsIdempotent == Spec => ReplayRestoresCommitted
  <1> DEFINE Ended == \A f \in Files : tree'[f] = Committed[f] \/ (GitFails /\ f \in CheckedOut)
  <1>1. IInv /\ [Next]_vars => [Completes => Ended]_vars
    <2> SUFFICES ASSUME IInv, Completes, NEW f \in Files, ~Excused(f)
                 PROVE  tree'[f] = Committed[f]
      BY DEF Excused
    <2>1. GoesOn /\ step = Len(Program)
      BY DEF Completes, Replay, GoesOn
    <2>2. Effect /\ step \in Ops
      BY <2>1, GoesOnEffect
    <2>3. ASSUME NEW i \in Ops
          PROVE  tree'[f][i] = Committed[f][i]
      <3>1. CASE f \notin Program[i].files
        BY <2>2, <3>1, CommittedShape DEF Effect
      <3>2. CASE f \in Program[i].files /\ i = step
        BY <2>2, <3>2 DEF Effect
      <3>3. CASE f \in Program[i].files /\ i # step
        <4>1. i \in 1 .. step - 1 /\ Running
          BY <2>1, <3>3, Length DEF Running
        <4>2. tree[f][i] = Committed[f][i]
          BY <3>3, <4>1 DEF IInv, Replayed
        <4> QED
          BY <2>2, <3>3, <4>2 DEF Effect
      <3> QED
        BY <3>1, <3>2, <3>3
    <2>4. tree'[f] \in [Ops -> 0 .. 1] /\ Committed[f] \in [Ops -> 0 .. 1]
      BY <2>2, CommittedShape DEF Effect
    <2> QED
      BY <2>3, <2>4
  <1> QED
    BY <1>1, Inductive, PTL DEF Spec, ReplayRestoresCommitted
=============================================================================
