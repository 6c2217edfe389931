---------------------------- MODULE ReleaseProofs ----------------------------
(***************************************************************************)
(* What the package index lists is what was released, for any tags, builds *)
(* and faults, and any reruns.                                             *)
(***************************************************************************)
EXTENDS Release, TLAPS

Steps == {"off", "waiting", "package", "create", "download", "fetch", "push",
          "upload", "branch", "pr"} \cup Ended

Typed ==
  /\ at \in [Tags -> [Jobs -> Steps]]
  /\ dist \in [Tags -> [Jobs -> Archives \cup {None}]]
  /\ github \in [Tags -> Archives \cup {None}]
  /\ gitcode \in [Tags -> Archives \cup {None, Empty}]
  /\ branch = [t \in Tags |-> branch[t]]
  /\ pr \in [Tags -> {"none", "open", "merged"}]

\* A job that got so far has published, or carries, the archive of the release.
Pipeline(t) ==
  /\ at[t]["release"] = "create" => dist[t]["release"] \in Archives
  /\ at[t]["release"] = "done" => github[t] \in Archives
  /\ at[t]["mirror"] \in {"download", "fetch", "push", "create", "upload"}
       => github[t] \in Archives
  /\ at[t]["mirror"] \in {"fetch", "push", "create", "upload"}
       => dist[t]["mirror"] = github[t]
  /\ at[t]["mirror"] = "done" => gitcode[t] \in Archives
  /\ gitcode[t] \in Archives => gitcode[t] = github[t]
  /\ at[t]["index"] \in {"download", "branch", "pr"} => gitcode[t] \in Archives
  /\ at[t]["index"] = "branch" => dist[t]["index"] = github[t]

\* Serves, for releases at hub and code, and of tags only.
ServedBy(index, hub, code) ==
  \A t \in DOMAIN index.archive :
    /\ t \in Tags /\ index.archive[t] \in Archives
    /\ hub[t] = index.archive[t] /\ code[t] = index.archive[t]

Offered ==
  /\ ServedBy(upstream, github, gitcode)
  /\ \A t \in Tags :
       pr[t] = "open" \/ at[t]["index"] = "pr" => ServedBy(branch[t].index, github, gitcode)

IInv == Typed /\ (\A t \in Tags : Pipeline(t)) /\ Offered

-----------------------------------------------------------------------------
\* What the lemmas say of an index stays true as long as releases do not change.
LEMMA ServedStays ==
  ASSUME NEW index, NEW hub, NEW code, NEW hub2, NEW code2,
         ServedBy(index, hub, code),
         \A t \in Tags : hub[t] \in Archives => hub2[t] = hub[t],
         \A t \in Tags : code[t] \in Archives => code2[t] = code[t]
  PROVE  ServedBy(index, hub2, code2)
  BY DEF ServedBy

\* Listing an archive that is released under its tag.
LEMMA ServedUpdate ==
  ASSUME NEW index, NEW hub, NEW code, ServedBy(index, hub, code),
         NEW t \in Tags, NEW a \in Archives, hub[t] = a, code[t] = a
  PROVE  ServedBy(Updated(index, t, a), hub, code)
  <1>1. Updated(index, t, a).archive =
          [k \in DOMAIN index.archive \cup {t} |-> IF k = t THEN a ELSE index.archive[k]]
    BY DEF Updated, Listing
  <1> QED
    BY <1>1 DEF ServedBy

\* A step that concerns one tag: what has to be shown of it.
LEMMA OneTag ==
  ASSUME NEW t \in Tags, IInv, Typed', Pipeline(t)',
         \A u \in Tags \ {t} :
           /\ at'[u] = at[u] /\ dist'[u] = dist[u] /\ github'[u] = github[u]
           /\ gitcode'[u] = gitcode[u] /\ branch'[u] = branch[u] /\ pr'[u] = pr[u],
         github[t] \in Archives => github'[t] = github[t],
         gitcode[t] \in Archives => gitcode'[t] = gitcode[t],
         ServedBy(upstream', github, gitcode),
         pr'[t] = "open" \/ at'[t]["index"] = "pr"
           => ServedBy(branch'[t].index, github, gitcode)
  PROVE  IInv'
  <1>1. \A u \in Tags \ {t} : Pipeline(u)'
    BY DEF IInv, Pipeline
  <1>2. Offered'
    <2>1. /\ \A u \in Tags : github[u] \in Archives => github'[u] = github[u]
          /\ \A u \in Tags : gitcode[u] \in Archives => gitcode'[u] = gitcode[u]
      OBVIOUS
    <2>2. ServedBy(upstream', github', gitcode')
      BY <2>1, ServedStays
    <2>3. ASSUME NEW u \in Tags, pr'[u] = "open" \/ at'[u]["index"] = "pr"
          PROVE  ServedBy(branch'[u].index, github, gitcode)
      BY <2>3 DEF IInv, Offered
    <2>4. ASSUME NEW u \in Tags, pr'[u] = "open" \/ at'[u]["index"] = "pr"
          PROVE  ServedBy(branch'[u].index, github', gitcode')
      BY <2>1, <2>3, <2>4, ServedStays
    <2> QED
      BY <2>2, <2>4 DEF Offered
  <1> QED
    BY <1>1, <1>2 DEF IInv

\* What a job's step makes of its position and its runner.
LEMMA Moved ==
  ASSUME Typed, NEW t \in Tags, NEW j \in Jobs,
         NEW step \in Steps, NEW a \in Archives \cup {None},
         at' = [at EXCEPT ![t][j] = step], dist' = [dist EXCEPT ![t][j] = a]
  PROVE  /\ at' \in [Tags -> [Jobs -> Steps]]
         /\ dist' \in [Tags -> [Jobs -> Archives \cup {None}]]
         /\ at'[t][j] = step /\ dist'[t][j] = a
         /\ \A k \in Jobs \ {j} : at'[t][k] = at[t][k] /\ dist'[t][k] = dist[t][k]
         /\ \A u \in Tags \ {t} : at'[u] = at[u] /\ dist'[u] = dist[u]
  BY DEF Typed

\* Done and Then move the job on, or lose it.
LEMMA DoneMoves ==
  ASSUME NEW t \in Tags, NEW j \in Jobs, Done(t, j)
  PROVE  \E step \in {"done", "failed"} :
           at' = [at EXCEPT ![t][j] = step] /\ dist' = [dist EXCEPT ![t][j] = None]
  BY DEF Done, Loses, Ends

LEMMA ThenMoves ==
  ASSUME NEW t \in Tags, NEW j \in Jobs, NEW step, NEW a, NEW tags, Then(t, j, step, a, tags)
  PROVE  \/ at' = [at EXCEPT ![t][j] = step] /\ dist' = [dist EXCEPT ![t][j] = a]
         \/ at' = [at EXCEPT ![t][j] = "failed"] /\ dist' = [dist EXCEPT ![t][j] = None]
  BY DEF Then, Loses, Ends
-----------------------------------------------------------------------------
\* A job that is lost, or fails, with nothing published.
LEMMA LosingKeeps ==
  ASSUME IInv, NEW t \in Tags, NEW j \in Jobs,
         at' = [at EXCEPT ![t][j] = "failed"], dist' = [dist EXCEPT ![t][j] = None],
         UNCHANGED <<github, gitcode, upstream, branch, pr>>
  PROVE  IInv'
  <1>1. Typed'
    BY Moved DEF IInv, Typed, Steps, Ended
  <1>2. /\ at'[t][j] = "failed"
        /\ \A k \in Jobs \ {j} : at'[t][k] = at[t][k] /\ dist'[t][k] = dist[t][k]
        /\ \A u \in Tags \ {t} : at'[u] = at[u] /\ dist'[u] = dist[u]
    BY DEF IInv, Typed
  <1>3. Pipeline(t)'
    BY <1>2 DEF IInv, Pipeline, Jobs
  <1>4. pr'[t] = "open" \/ at'[t]["index"] = "pr" => ServedBy(branch'[t].index, github, gitcode)
    BY <1>2 DEF IInv, Offered, Jobs
  <1> QED
    BY <1>1, <1>2, <1>3, <1>4, OneTag DEF IInv, Offered

\* A job goes on to a step, with an archive, and publishes nothing.
LEMMA GoesOnKeeps ==
  ASSUME IInv, NEW t \in Tags, NEW j \in Jobs,
         NEW step \in Steps, step # "pr", NEW a \in Archives \cup {None},
         at' = [at EXCEPT ![t][j] = step], dist' = [dist EXCEPT ![t][j] = a],
         UNCHANGED <<github, gitcode, upstream, branch, pr>>, Pipeline(t)'
  PROVE  IInv'
  <1>1. Typed'
    BY Moved DEF IInv, Typed
  <1>2. /\ at'[t][j] = step
        /\ \A k \in Jobs \ {j} : at'[t][k] = at[t][k]
        /\ \A u \in Tags \ {t} : at'[u] = at[u] /\ dist'[u] = dist[u]
    BY DEF IInv, Typed
  <1>3. pr'[t] = "open" \/ at'[t]["index"] = "pr" => ServedBy(branch'[t].index, github, gitcode)
    BY <1>2 DEF IInv, Offered, Jobs
  <1> QED
    BY <1>1, <1>2, <1>3, OneTag DEF IInv, Offered

\* Jobs that start, are skipped or run again: no archive moves.
LEMMA JobsKeep ==
  ASSUME IInv, NEW t \in Tags,
         PushTag(t) \/ (\E j \in Jobs : StartJob(t, j) \/ SkipJob(t, j) \/ Rerun(t, j))
  PROVE  IInv'
  <1>0. UNCHANGED <<dist, github, gitcode, upstream, branch, pr>>
    BY DEF PushTag, StartJob, SkipJob, Rerun, published
  <1>1. SUFFICES /\ at' \in [Tags -> [Jobs -> Steps]]
                 /\ Pipeline(t)'
                 /\ \A u \in Tags \ {t} : at'[u] = at[u]
                 /\ at'[t]["index"] = "pr" => at[t]["index"] = "pr"
    <2>1. ASSUME at' \in [Tags -> [Jobs -> Steps]]
          PROVE  Typed'
      BY <1>0, <2>1 DEF IInv, Typed
    <2> QED
      BY <1>0, <2>1, OneTag DEF IInv, Offered
  <1>2. CASE PushTag(t)
    BY <1>0, <1>2 DEF PushTag, IInv, Typed, Pipeline, Jobs, Steps, Ended
  <1>3. ASSUME NEW j \in Jobs, StartJob(t, j)
        PROVE  /\ at' \in [Tags -> [Jobs -> Steps]]
               /\ Pipeline(t)'
               /\ \A u \in Tags \ {t} : at'[u] = at[u]
               /\ at'[t]["index"] = "pr" => at[t]["index"] = "pr"
    <2>1. CASE j = "release"
      BY <1>0, <1>3, <2>1 DEF StartJob, First, IInv, Typed, Pipeline, Jobs, Steps, Ended
    <2>2. CASE j = "mirror"
      <3>1. at[t]["release"] = "done"
        BY <1>3, <2>2 DEF StartJob, Needs
      <3> QED
        BY <1>0, <1>3, <2>2, <3>1 DEF StartJob, First, IInv, Typed, Pipeline, Jobs, Steps, Ended
    <2>3. CASE j = "index"
      <3>1. at[t]["mirror"] = "done"
        BY <1>3, <2>3 DEF StartJob, Needs
      <3> QED
        BY <1>0, <1>3, <2>3, <3>1 DEF StartJob, First, IInv, Typed, Pipeline, Jobs, Steps, Ended
    <2> QED
      BY <2>1, <2>2, <2>3 DEF Jobs
  <1>4. CASE \E j \in Jobs : SkipJob(t, j)
    BY <1>0, <1>4 DEF SkipJob, IInv, Typed, Pipeline, Jobs, Steps, Ended
  <1>5. CASE \E j \in Jobs : Rerun(t, j)
    <2>1. PICK j \in Jobs : Rerun(t, j)
      BY <1>5
    <2>2. \A k \in Jobs : at'[t][k] = "waiting" \/ at'[t][k] = at[t][k]
      BY <2>1 DEF Rerun, IInv, Typed
    <2>3. at' \in [Tags -> [Jobs -> Steps]] /\ \A u \in Tags \ {t} : at'[u] = at[u]
      BY <2>1 DEF Rerun, IInv, Typed, Steps
    <2> QED
      BY <1>0, <2>2, <2>3 DEF IInv, Pipeline, Jobs
  <1> QED
    BY <1>2, <1>3, <1>4, <1>5

LEMMA BreaksKeeps ==
  ASSUME IInv, NEW t \in Tags, \E j \in Jobs : Breaks(t, j)
  PROVE  IInv'
  <1>1. PICK j \in Jobs : /\ at' = [at EXCEPT ![t][j] = "failed"]
                          /\ dist' = [dist EXCEPT ![t][j] = None]
                          /\ UNCHANGED published
    BY DEF Breaks, Loses, Ends
  <1> QED
    BY <1>1, LosingKeeps DEF published

-----------------------------------------------------------------------------
LEMMA PackageKeeps ==
  ASSUME IInv, NEW t \in Tags, Package(t)
  PROVE  IInv'
  <1>1. UNCHANGED <<github, gitcode, upstream, branch, pr>>
    BY DEF Package, published
  <1>2. CASE Fails(t, "release")
    BY <1>1, <1>2, LosingKeeps DEF Fails, Ends, Jobs
  <1>3. ASSUME NEW n \in Described[t], NEW b \in Builds,
               Then(t, "release", "create", [name |-> n, build |-> b], fetched[t])
        PROVE  IInv'
    <2> DEFINE a == [name |-> n, build |-> b]
    <2>1. a \in Archives
      BY ReleaseAssumption DEF Archives
    <2> HIDE DEF a
    <2>2. CASE at' = [at EXCEPT ![t]["release"] = "create"]
               /\ dist' = [dist EXCEPT ![t]["release"] = a]
      <3>1. Pipeline(t)'
        BY <1>1, <2>1, <2>2 DEF IInv, Typed, Pipeline, Jobs
      <3> QED
        BY <1>1, <2>1, <2>2, <3>1, GoesOnKeeps DEF Jobs, Steps
    <2>3. CASE at' = [at EXCEPT ![t]["release"] = "failed"]
               /\ dist' = [dist EXCEPT ![t]["release"] = None]
      BY <1>1, <2>3, LosingKeeps DEF Jobs
    <2> QED
      BY <1>3, <2>2, <2>3, ThenMoves DEF a, Jobs
  <1> QED
    BY <1>2, <1>3 DEF Package

\* gh creates the release once, so that what the index lists stays what it was.
LEMMA CreateReleaseKeeps ==
  ASSUME IInv, NEW t \in Tags, CreateRelease(t)
  PROVE  IInv'
  <1>1. at[t]["release"] = "create" /\ UNCHANGED <<gitcode, mirror, upstream, branch, pr>>
    BY DEF CreateRelease
  <1>2. CASE github[t] # None
    BY <1>1, <1>2, LosingKeeps DEF CreateRelease, Fails, Ends, Jobs
  <1>3. CASE github[t] = None
    <2>1. /\ github' = [github EXCEPT ![t] = dist[t]["release"]]
          /\ dist[t]["release"] \in Archives
      BY <1>1, <1>3 DEF CreateRelease, IInv, Pipeline
    <2>2. PICK step \in {"done", "failed"} :
            /\ at' = [at EXCEPT ![t]["release"] = step]
            /\ dist' = [dist EXCEPT ![t]["release"] = None]
      BY <1>3, DoneMoves DEF CreateRelease, Jobs
    <2>3. None \notin Archives
      BY ReleaseAssumption
    <2>4. Typed' /\ github'[t] \in Archives
      BY <1>1, <2>1, <2>2, Moved DEF IInv, Typed, Jobs, Steps, Ended
    <2>5. Pipeline(t)'
      BY <1>1, <1>3, <2>2, <2>3, <2>4 DEF IInv, Typed, Pipeline, Jobs
    <2>6. /\ at'[t]["index"] = at[t]["index"]
          /\ \A u \in Tags \ {t} : at'[u] = at[u] /\ dist'[u] = dist[u] /\ github'[u] = github[u]
      BY <2>1, <2>2 DEF IInv, Typed, Jobs
    <2> QED
      BY <1>1, <1>3, <2>3, <2>4, <2>5, <2>6, OneTag DEF IInv, Offered
  <1> QED
    BY <1>2, <1>3

\* The steps of the mirror job up to the release on GitCode carry what GitHub has.
LEMMA CarryingKeeps ==
  ASSUME IInv, NEW t \in Tags,
         NEW step \in {"fetch", "push", "create"}, NEW tags,
         Then(t, "mirror", step, github[t], tags), github[t] \in Archives,
         UNCHANGED <<github, gitcode, upstream, branch, pr>>
  PROVE  IInv'
  <1>1. CASE at' = [at EXCEPT ![t]["mirror"] = step]
             /\ dist' = [dist EXCEPT ![t]["mirror"] = github[t]]
    <2>1. Pipeline(t)'
      BY <1>1 DEF IInv, Typed, Pipeline, Jobs
    <2> QED
      BY <1>1, <2>1, GoesOnKeeps DEF Jobs, Steps
  <1>2. CASE at' = [at EXCEPT ![t]["mirror"] = "failed"]
             /\ dist' = [dist EXCEPT ![t]["mirror"] = None]
    BY <1>2, LosingKeeps DEF Jobs
  <1> QED
    BY <1>1, <1>2, ThenMoves DEF Jobs

LEMMA MirrorKeeps ==
  ASSUME IInv, NEW t \in Tags, DownloadAssets(t) \/ FetchRefs(t) \/ PushMirror(t)
  PROVE  IInv'
  <1>1. CASE DownloadAssets(t)
    <2>1. github[t] \in Archives /\ UNCHANGED <<github, gitcode, upstream, branch, pr>>
      BY <1>1 DEF DownloadAssets, published, IInv, Pipeline
    <2>2. CASE Fails(t, "mirror")
      BY <2>1, <2>2, LosingKeeps DEF Fails, Ends, Jobs
    <2> QED
      BY <1>1, <2>1, <2>2, CarryingKeeps DEF DownloadAssets
  <1>2. CASE FetchRefs(t)
    <2>1. /\ github[t] \in Archives /\ dist[t]["mirror"] = github[t]
          /\ UNCHANGED <<github, gitcode, upstream, branch, pr>>
      BY <1>2 DEF FetchRefs, published, IInv, Pipeline
    <2> QED
      BY <1>2, <2>1, CarryingKeeps DEF FetchRefs
  <1>3. CASE PushMirror(t)
    <2>1. /\ github[t] \in Archives /\ dist[t]["mirror"] = github[t]
          /\ UNCHANGED <<github, gitcode, upstream, branch, pr>>
      BY <1>3 DEF PushMirror, IInv, Pipeline
    <2> QED
      BY <1>3, <2>1, CarryingKeeps DEF PushMirror
  <1> QED
    BY <1>1, <1>2, <1>3

\* The release on GitCode goes from nothing to empty to the archive on GitHub.
LEMMA MirrorReleaseKeeps ==
  ASSUME IInv, NEW t \in Tags, CreateMirrorRelease(t) \/ UploadAssets(t)
  PROVE  IInv'
  <1>1. /\ github[t] \in Archives /\ dist[t]["mirror"] = github[t]
        /\ UNCHANGED <<github, mirror, upstream, branch, pr>>
    BY DEF CreateMirrorRelease, UploadAssets, IInv, Pipeline
  <1>2. None \notin Archives /\ Empty \notin Archives
    BY ReleaseAssumption
  <1>3. SUFFICES ASSUME NEW step \in {"upload", "done", "failed"},
                        NEW a \in {None, dist[t]["mirror"]},
                        at' = [at EXCEPT ![t]["mirror"] = step],
                        dist' = [dist EXCEPT ![t]["mirror"] = a],
                        NEW c \in {Empty, github[t]}, gitcode' = [gitcode EXCEPT ![t] = c],
                        gitcode[t] = None \/ c = github[t],
                        step = "upload" => a = github[t],
                        step = "done" => c = github[t]
                 PROVE  IInv'
    <2>1. CASE CreateMirrorRelease(t) /\ gitcode[t] = None
      <3>1. gitcode' = [gitcode EXCEPT ![t] = Empty]
        BY <2>1 DEF CreateMirrorRelease
      <3>2. \/ /\ at' = [at EXCEPT ![t]["mirror"] = "upload"]
               /\ dist' = [dist EXCEPT ![t]["mirror"] = dist[t]["mirror"]]
            \/ /\ at' = [at EXCEPT ![t]["mirror"] = "failed"]
               /\ dist' = [dist EXCEPT ![t]["mirror"] = None]
        BY <2>1, ThenMoves DEF CreateMirrorRelease, Jobs
      <3> QED
        BY <1>1, <1>3, <2>1, <3>1, <3>2
    <2>2. CASE CreateMirrorRelease(t) /\ gitcode[t] # None
      BY <1>1, <2>2, LosingKeeps DEF CreateMirrorRelease, Fails, Ends, Jobs
    <2>3. CASE UploadAssets(t)
      BY <1>1, <1>3, <2>3, DoneMoves DEF UploadAssets, Jobs
    <2> QED
      BY <2>1, <2>2, <2>3
  <1>4. /\ at' \in [Tags -> [Jobs -> Steps]]
        /\ dist' \in [Tags -> [Jobs -> Archives \cup {None}]]
        /\ at'[t]["mirror"] = step /\ dist'[t]["mirror"] = a
        /\ gitcode' \in [Tags -> Archives \cup {None, Empty}] /\ gitcode'[t] = c
        /\ \A k \in Jobs \ {"mirror"} : at'[t][k] = at[t][k] /\ dist'[t][k] = dist[t][k]
        /\ \A u \in Tags \ {t} : at'[u] = at[u] /\ dist'[u] = dist[u] /\ gitcode'[u] = gitcode[u]
    <2>1. step \in Steps /\ "mirror" \in Jobs /\ a \in Archives \cup {None}
      BY <1>1, <1>3 DEF Steps, Ended, Jobs
    <2>2. /\ gitcode' \in [Tags -> Archives \cup {None, Empty}] /\ gitcode'[t] = c
          /\ \A u \in Tags \ {t} : gitcode'[u] = gitcode[u]
      BY <1>1, <1>3 DEF IInv, Typed
    <2> QED
      <3>1. Typed
        BY DEF IInv
      <3>2. /\ at' \in [Tags -> [Jobs -> Steps]]
            /\ dist' \in [Tags -> [Jobs -> Archives \cup {None}]]
            /\ at'[t]["mirror"] = step /\ dist'[t]["mirror"] = a
            /\ \A k \in Jobs \ {"mirror"} : at'[t][k] = at[t][k] /\ dist'[t][k] = dist[t][k]
            /\ \A u \in Tags \ {t} : at'[u] = at[u] /\ dist'[u] = dist[u]
        BY <1>3, <2>1, <3>1, Moved
      <3> QED
        BY <2>2, <3>2
  <1>5. gitcode[t] \in Archives => gitcode'[t] = gitcode[t]
    BY <1>2, <1>3, <1>4 DEF IInv, Pipeline
  <1>6. Pipeline(t)'
    BY <1>1, <1>2, <1>3, <1>4, <1>5 DEF IInv, Pipeline, Jobs
  <1>7. Typed'
    BY <1>1, <1>4 DEF IInv, Typed
  <1> QED
    BY <1>1, <1>4, <1>5, <1>6, <1>7, OneTag DEF IInv, Offered, Jobs
-----------------------------------------------------------------------------
LEMMA DownloadArchiveKeeps ==
  ASSUME IInv, NEW t \in Tags, DownloadArchive(t)
  PROVE  IInv'
  <1>1. /\ at[t]["index"] = "download" /\ gitcode[t] \in Archives /\ github[t] \in Archives
        /\ UNCHANGED <<github, gitcode, upstream, branch, pr>>
    BY DEF DownloadArchive, published, IInv, Pipeline
  <1>2. CASE at' = [at EXCEPT ![t]["index"] = "branch"]
             /\ dist' = [dist EXCEPT ![t]["index"] = github[t]]
    <2>1. Pipeline(t)'
      BY <1>1, <1>2 DEF IInv, Typed, Pipeline, Jobs
    <2> QED
      BY <1>1, <1>2, <2>1, GoesOnKeeps DEF Jobs, Steps
  <1>3. CASE at' = [at EXCEPT ![t]["index"] = "failed"]
             /\ dist' = [dist EXCEPT ![t]["index"] = None]
    BY <1>1, <1>3, LosingKeeps DEF Jobs
  <1> QED
    BY <1>2, <1>3, ThenMoves DEF DownloadArchive, Jobs

\* The branch lists what upstream lists, and the archive both releases have.
LEMMA PushBranchKeeps ==
  ASSUME IInv, NEW t \in Tags, PushBranch(t)
  PROVE  IInv'
  <1>1. /\ at[t]["index"] = "branch"
        /\ gitcode[t] \in Archives /\ github[t] = gitcode[t] /\ dist[t]["index"] = github[t]
        /\ UNCHANGED <<github, gitcode, upstream, pr>>
    BY DEF PushBranch, IInv, Pipeline
  <1>2. CASE Branch(t).index = upstream
    BY <1>1, <1>2, LosingKeeps DEF PushBranch, Fails, Ends, Jobs
  <1>3. CASE Branch(t).index # upstream
    <2>1. branch' = [branch EXCEPT ![t] = Branch(t)]
      BY <1>3 DEF PushBranch
    <2>2. PICK step \in {"pr", "failed"} :
            /\ at' = [at EXCEPT ![t]["index"] = step]
            /\ dist' = [dist EXCEPT ![t]["index"] = None]
      BY <1>3, ThenMoves DEF PushBranch, Jobs
    <2>3. ServedBy(Branch(t).index, github, gitcode)
      BY <1>1, ServedUpdate DEF Branch, IInv, Offered
    <2>4. branch'[t] = Branch(t) /\ \A u \in Tags \ {t} : branch'[u] = branch[u]
      BY <2>1 DEF IInv, Typed
    <2>5. /\ at'[t]["index"] = step
          /\ \A k \in Jobs \ {"index"} : at'[t][k] = at[t][k] /\ dist'[t][k] = dist[t][k]
          /\ \A u \in Tags \ {t} : at'[u] = at[u] /\ dist'[u] = dist[u]
      BY <2>2 DEF IInv, Typed, Jobs
    <2>6. Typed'
      <3>1. branch' = [u \in Tags |-> branch'[u]]
        BY <2>1 DEF IInv, Typed
      <3>2. step \in Steps /\ "index" \in Jobs
        BY DEF Steps, Ended, Jobs
      <3> QED
        BY <1>1, <2>2, <3>1, <3>2, Moved DEF IInv, Typed
    <2>7. Pipeline(t)'
      BY <1>1, <2>5 DEF IInv, Pipeline, Jobs
    <2> QED
      BY <1>1, <2>3, <2>4, <2>5, <2>6, <2>7, OneTag DEF IInv, Offered
  <1> QED
    BY <1>2, <1>3

LEMMA OpenPRKeeps ==
  ASSUME IInv, NEW t \in Tags, OpenPR(t)
  PROVE  IInv'
  <1>1. /\ at[t]["index"] = "pr" /\ gitcode[t] \in Archives
        /\ ServedBy(branch[t].index, github, gitcode)
        /\ UNCHANGED <<github, gitcode, upstream, branch>>
    BY DEF OpenPR, IInv, Pipeline, Offered
  <1>2. CASE pr[t] = "open"
    BY <1>1, <1>2, LosingKeeps DEF OpenPR, Fails, Ends, Jobs
  <1>3. CASE pr[t] # "open"
    <2>1. pr' = [pr EXCEPT ![t] = "open"]
      BY <1>3 DEF OpenPR
    <2>2. PICK step \in {"done", "failed"} :
            /\ at' = [at EXCEPT ![t]["index"] = step]
            /\ dist' = [dist EXCEPT ![t]["index"] = None]
      BY <1>3, DoneMoves DEF OpenPR, Jobs
    <2>3. /\ at'[t]["index"] = step
          /\ \A k \in Jobs \ {"index"} : at'[t][k] = at[t][k] /\ dist'[t][k] = dist[t][k]
          /\ \A u \in Tags \ {t} : at'[u] = at[u] /\ dist'[u] = dist[u] /\ pr'[u] = pr[u]
      BY <2>1, <2>2 DEF IInv, Typed, Jobs
    <2>4. Typed'
      <3>1. step \in Steps /\ "index" \in Jobs
        BY DEF Steps, Ended, Jobs
      <3>2. pr' \in [Tags -> {"none", "open", "merged"}]
        BY <2>1 DEF IInv, Typed
      <3> QED
        BY <1>1, <2>2, <3>1, <3>2, Moved DEF IInv, Typed
    <2>5. Pipeline(t)'
      BY <1>1, <2>3 DEF IInv, Pipeline, Jobs
    <2> QED
      BY <1>1, <2>3, <2>4, <2>5, OneTag DEF IInv, Offered
  <1> QED
    BY <1>2, <1>3

LEMMA MergePRKeeps ==
  ASSUME IInv, NEW t \in Tags, MergePR(t)
  PROVE  IInv'
  <1>1. /\ upstream' = branch[t].index /\ pr' = [pr EXCEPT ![t] = "merged"]
        /\ ServedBy(upstream', github, gitcode)
        /\ UNCHANGED <<at, dist, github, gitcode, branch>>
    BY DEF MergePR, IInv, Offered
  <1>2. Typed' /\ pr'[t] = "merged" /\ \A u \in Tags \ {t} : pr'[u] = pr[u]
    BY <1>1 DEF IInv, Typed
  <1>3. Pipeline(t)'
    BY <1>1 DEF IInv, Pipeline
  <1> QED
    BY <1>1, <1>2, <1>3, OneTag DEF IInv, Offered

-----------------------------------------------------------------------------
LEMMA IInvInit == Init => IInv
  <1> SUFFICES ASSUME Init PROVE IInv
    OBVIOUS
  <1>1. None \notin Archives
    BY ReleaseAssumption
  <1>2. Typed
    BY DEF Init, Typed, Steps, Ended
  <1>3. \A t \in Tags : Pipeline(t)
    BY <1>1 DEF Init, Pipeline, Jobs
  <1>4. ServedBy(upstream, github, gitcode)
    BY DEF Init, ServedBy, Listing
  <1>5. Offered
    BY <1>4 DEF Init, Offered, Jobs
  <1> QED
    BY <1>2, <1>3, <1>5 DEF IInv

\* Every reachable state satisfies the inductive invariant.
THEOREM Inductive == Spec => []IInv
  <1>1. IInv /\ [Next]_vars => IInv'
    <2> SUFFICES ASSUME IInv, [Next]_vars PROVE IInv'
      OBVIOUS
    <2>1. ASSUME NEW t \in Tags, Runner(t)
          PROVE  IInv'
      BY <2>1, JobsKeep, PackageKeeps, CreateReleaseKeeps, MirrorKeeps, MirrorReleaseKeeps,
         DownloadArchiveKeeps, PushBranchKeeps, OpenPRKeeps
      DEF Runner
    <2>2. ASSUME NEW t \in Tags,
                 PushTag(t) \/ MergePR(t) \/ (\E j \in Jobs : Breaks(t, j) \/ Rerun(t, j))
          PROVE  IInv'
      BY <2>2, JobsKeep, MergePRKeeps, BreaksKeeps
    <2>3. CASE UNCHANGED vars
      BY <2>3 DEF vars, IInv, Typed, Pipeline, Offered
    <2> QED
      BY <2>1, <2>2, <2>3 DEF Next
  <1> QED
    BY <1>1, IInvInit, PTL DEF Spec

\* Whatever is pushed, lost, rerun or raced, and however packaging differs from run
\* to run, each version the index or an open pull request lists has the checksum of
\* the archive GitHub and GitCode serve (release.yml, needs: of publish-index).
THEOREM ListedIsServed == Spec => []IndexServesArchive
  <1>1. IInv => IndexServesArchive
    BY DEF IInv, Offered, ServedBy, IndexServesArchive, Serves
  <1> QED
    BY <1>1, Inductive, PTL
=============================================================================
