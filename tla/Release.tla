------------------------------- MODULE Release -------------------------------
(***************************************************************************)
(* .github/workflows/release.yml: what pushing a tag sets off.  Three jobs *)
(* package and release on GitHub, mirror to GitCode, and offer the version *)
(* to the upstream package index.  GitHub reruns a job on demand, on a new *)
(* runner: what an attempt already published is still there.               *)
(***************************************************************************)
EXTENDS Naturals, FiniteSets, VersionIndex

CONSTANTS
  Tags,         \* the tags that get pushed
  Previews,     \* those that end in -preview
  Noted,        \* Noted[j]: the tags with the notes the job j wants
  Described,    \* Described[t]: the tags git describe may name at the commit of t
  Builds,       \* what packaging may give: no two runs need agree
  MaxFaults,    \* how often a runner is lost or a service fails
  None,         \* nothing there
  Empty         \* a release without assets

\* The archives a release consists of, by the tag their name is made of.
Archives == [name : Tags, build : Builds]

ASSUME ReleaseAssumption ==
  /\ IsFiniteSet(Tags) /\ Previews \subseteq Tags
  /\ Noted \in [{"release", "mirror"} -> SUBSET Tags]
  /\ \A t \in Tags : Described[t] \subseteq Tags /\ Described[t] # {}
  /\ Builds # {} /\ None \notin Archives /\ Empty \notin Archives /\ None # Empty
  /\ MaxFaults \in Nat

Jobs == {"release", "mirror", "index"}

VARIABLES
  origin,       \* the tags pushed to GitHub
  at,           \* at[t][j]: the step a job is at, or how it ended
  dist,         \* dist[t][j]: the archive on its runner
  github,       \* github[t]: the archive of the GitHub release, or None
  gitcode,      \* gitcode[t]: None, Empty or the archive of the GitCode release
  fetched,      \* fetched[t]: the tags the mirror job is about to push
  mirror,       \* the tags on GitCode
  upstream,     \* what the package index lists
  branch,       \* branch[t]: the branch on the fork, or None
  pr,           \* pr[t]: "none", "open" or "merged"
  faults        \* ghost: how often something went wrong

vars == <<origin, at, dist, github, gitcode, fetched, mirror, upstream, branch,
          pr, faults>>

published == <<github, gitcode, mirror, upstream, branch, pr>>

\* Deviation: the index does not wait for the mirror.
Needs_NoMirror(j) == IF j = "release" THEN {} ELSE {"release"}

Needs(j) == CASE j = "release" -> {}
              [] j = "mirror" -> {"release"}
              [] j = "index" -> {"release", "mirror"}

First(j) == CASE j = "release" -> "package"
              [] j = "mirror" -> "download"
              [] j = "index" -> "download"

Ended == {"done", "failed", "skipped"}

-----------------------------------------------------------------------------
Init ==
  /\ origin = {}
  /\ at = [t \in Tags |-> [j \in Jobs |-> "off"]]
  /\ dist = [t \in Tags |-> [j \in Jobs |-> None]]
  /\ github = [t \in Tags |-> None]
  /\ gitcode = [t \in Tags |-> None]
  /\ fetched = [t \in Tags |-> {}]
  /\ mirror = {}
  /\ upstream = Listing(None, <<>>)
  /\ branch = [t \in Tags |-> None]
  /\ pr = [t \in Tags |-> "none"]
  /\ faults = 0

PushTag(t) ==
  /\ t \notin origin
  /\ origin' = origin \cup {t}
  /\ at' = [at EXCEPT ![t] = [j \in Jobs |-> "waiting"]]
  /\ UNCHANGED <<dist, fetched, published, faults>>

-----------------------------------------------------------------------------
(***************************************************************************)
(* Jobs and their runners.                                                 *)
(***************************************************************************)
StartJob(t, j) ==
  /\ at[t][j] = "waiting"
  /\ \A n \in Needs(j) : at[t][n] = "done"
  /\ at' = [at EXCEPT ![t][j] = IF j = "index" /\ t \in Previews THEN "skipped" ELSE First(j)]
  /\ UNCHANGED <<origin, dist, fetched, published, faults>>

SkipJob(t, j) ==
  /\ at[t][j] = "waiting"
  /\ \E n \in Needs(j) : at[t][n] \in {"failed", "skipped"}
  /\ at' = [at EXCEPT ![t][j] = "skipped"]
  /\ UNCHANGED <<origin, dist, fetched, published, faults>>

\* A job leaves nothing on its runner.
Ends(t, j, how) ==
  /\ at' = [at EXCEPT ![t][j] = how]
  /\ dist' = [dist EXCEPT ![t][j] = None]
  /\ fetched' = IF j = "mirror" THEN [fetched EXCEPT ![t] = {}] ELSE fetched

Fails(t, j) == Ends(t, j, "failed") /\ UNCHANGED faults

\* A job is done, or goes on with what is on its runner - or its runner is lost once
\* the step took effect.
Loses(t, j) == faults < MaxFaults /\ faults' = faults + 1 /\ Ends(t, j, "failed")

Done(t, j) == (Ends(t, j, "done") /\ UNCHANGED faults) \/ Loses(t, j)

Then(t, j, step, archive, tags) ==
  \/ /\ at' = [at EXCEPT ![t][j] = step]
     /\ dist' = [dist EXCEPT ![t][j] = archive]
     /\ fetched' = [fetched EXCEPT ![t] = tags]
     /\ UNCHANGED faults
  \/ Loses(t, j)

\* A step that fails, or runs into the timeout, before it had an effect.
Breaks(t, j) ==
  /\ at[t][j] \notin Ended \cup {"off", "waiting"}
  /\ Loses(t, j)
  /\ UNCHANGED <<origin, published>>

\* A maintainer reruns a job of a finished run, and with it what needs it.
Rerun(t, j) ==
  /\ \A k \in Jobs : at[t][k] \in Ended
  /\ j # "index" \/ t \notin Previews
  /\ at' = [at EXCEPT ![t] =
              [k \in Jobs |-> IF k = j \/ j \in Needs(k) THEN "waiting" ELSE @[k]]]
  /\ UNCHANGED <<origin, dist, fetched, published, faults>>

-----------------------------------------------------------------------------
(***************************************************************************)
(* release                                                                 *)
(***************************************************************************)
\* The notes of the tag are looked for first.
Package(t) ==
  /\ at[t]["release"] = "package"
  /\ IF t \in Noted["release"]
     THEN \E n \in Described[t], b \in Builds :
            Then(t, "release", "create", [name |-> n, build |-> b], fetched[t])
     ELSE Fails(t, "release")
  /\ UNCHANGED <<origin, published>>

\* gh refuses to create a release that exists.
CreateRelease(t) ==
  /\ at[t]["release"] = "create"
  /\ IF github[t] = None
     THEN github' = [github EXCEPT ![t] = dist[t]["release"]] /\ Done(t, "release")
     ELSE Fails(t, "release") /\ UNCHANGED github
  /\ UNCHANGED <<origin, gitcode, mirror, upstream, branch, pr>>

-----------------------------------------------------------------------------
(***************************************************************************)
(* mirror                                                                  *)
(***************************************************************************)
DownloadAssets(t) ==
  /\ at[t]["mirror"] = "download"
  /\ IF t \in Noted["mirror"]
     THEN Then(t, "mirror", "fetch", github[t], {})
     ELSE Fails(t, "mirror")
  /\ UNCHANGED <<origin, published>>

FetchRefs(t) ==
  /\ at[t]["mirror"] = "fetch"
  /\ Then(t, "mirror", "push", dist[t]["mirror"], origin)
  /\ UNCHANGED <<origin, published>>

\* --force --prune: the mirror then has these tags and no other.
PushMirror(t) ==
  /\ at[t]["mirror"] = "push"
  /\ mirror' = fetched[t]
  /\ Then(t, "mirror", "create", dist[t]["mirror"], {})
  /\ UNCHANGED <<origin, github, gitcode, upstream, branch, pr>>

\* A release that exists is refused here too.
CreateMirrorRelease(t) ==
  /\ at[t]["mirror"] = "create"
  /\ IF gitcode[t] = None
     THEN /\ gitcode' = [gitcode EXCEPT ![t] = Empty]
          /\ Then(t, "mirror", "upload", dist[t]["mirror"], {})
     ELSE Fails(t, "mirror") /\ UNCHANGED gitcode
  /\ UNCHANGED <<origin, github, mirror, upstream, branch, pr>>

UploadAssets(t) ==
  /\ at[t]["mirror"] = "upload"
  /\ gitcode' = [gitcode EXCEPT ![t] = dist[t]["mirror"]]
  /\ Done(t, "mirror")
  /\ UNCHANGED <<origin, github, mirror, upstream, branch, pr>>

-----------------------------------------------------------------------------
(***************************************************************************)
(* publish-index                                                           *)
(***************************************************************************)
DownloadArchive(t) ==
  /\ at[t]["index"] = "download"
  /\ Then(t, "index", "branch", github[t], fetched[t])
  /\ UNCHANGED <<origin, published>>

Branch(t) == [base |-> upstream, index |-> Updated(upstream, t, dist[t]["index"])]

\* Deviation: a branch that is there is not pushed over.
PushBranch_NoForce(t) ==
  /\ at[t]["index"] = "branch"
  /\ IF Branch(t).index = upstream \/ branch[t] # None
     THEN Fails(t, "index") /\ UNCHANGED branch
     ELSE /\ branch' = [branch EXCEPT ![t] = Branch(t)]
          /\ Then(t, "index", "pr", None, fetched[t])
  /\ UNCHANGED <<origin, github, gitcode, mirror, upstream, pr>>

\* A branch on the current upstream main; without a change there is nothing to
\* commit, which is an error.
PushBranch(t) ==
  /\ at[t]["index"] = "branch"
  /\ IF Branch(t).index = upstream
     THEN Fails(t, "index") /\ UNCHANGED branch
     ELSE /\ branch' = [branch EXCEPT ![t] = Branch(t)]
          /\ Then(t, "index", "pr", None, fetched[t])
  /\ UNCHANGED <<origin, github, gitcode, mirror, upstream, pr>>

\* A second pull request for the same branch is refused.
OpenPR(t) ==
  /\ at[t]["index"] = "pr"
  /\ IF pr[t] # "open"
     THEN pr' = [pr EXCEPT ![t] = "open"] /\ Done(t, "index")
     ELSE Fails(t, "index") /\ UNCHANGED pr
  /\ UNCHANGED <<origin, github, gitcode, mirror, upstream, branch>>

\* Upstream (external) merges what applies: two branches that insert a version
\* at the same place conflict.
MergePR(t) ==
  /\ pr[t] = "open"
  /\ branch[t].base = upstream
  /\ upstream' = branch[t].index
  /\ pr' = [pr EXCEPT ![t] = "merged"]
  /\ UNCHANGED <<origin, at, dist, fetched, github, gitcode, mirror, branch, faults>>

-----------------------------------------------------------------------------
Runner(t) ==
  \/ \E j \in Jobs : StartJob(t, j) \/ SkipJob(t, j)
  \/ Package(t) \/ CreateRelease(t)
  \/ DownloadAssets(t) \/ FetchRefs(t) \/ PushMirror(t) \/ CreateMirrorRelease(t)
  \/ UploadAssets(t)
  \/ DownloadArchive(t) \/ PushBranch(t) \/ OpenPR(t)

Next ==
  \E t \in Tags :
    \/ PushTag(t) \/ Runner(t) \/ MergePR(t)
    \/ \E j \in Jobs : Breaks(t, j) \/ Rerun(t, j)

Spec == Init /\ [][Next]_vars /\ \A t \in Tags : WF_vars(Runner(t))

\* Maintainers rerun what failed, and the index job once another version was
\* merged before theirs; upstream merges what applies.
Outrun(t) == pr[t] = "open" /\ branch[t].base # upstream

Tend(t) ==
  \E j \in Jobs :
    /\ at[t][j] = "failed" \/ (j = "index" /\ Outrun(t))
    /\ Rerun(t, j)

Tended ==
  Spec /\ \A t \in Tags : SF_vars(Tend(t)) /\ SF_vars(MergePR(t))

-----------------------------------------------------------------------------
(***************************************************************************)
(* Properties                                                              *)
(***************************************************************************)
\* Every job is at one of its steps, a runner holds archives of releases, a pull
\* request has a branch, and the mirror only tags that were pushed.
TypeOK ==
  /\ origin \subseteq Tags /\ mirror \subseteq origin
  /\ \A t \in Tags :
       /\ at[t] \in [Jobs -> {"off", "waiting", "package", "create", "download",
                              "fetch", "push", "upload", "branch", "pr"} \cup Ended]
       /\ \A j \in Jobs : dist[t][j] \in Archives \cup {None}
       /\ github[t] \in Archives \cup {None}
       /\ gitcode[t] \in Archives \cup {None, Empty}
       /\ fetched[t] \subseteq origin
       /\ pr[t] # "none" => branch[t] # None
       /\ branch[t] # None => t \in DOMAIN branch[t].index.archive
  /\ faults \in 0..MaxFaults

\* What the index and every open pull request list was released: a version has the
\* checksum of the file that GitHub and GitCode serve for it, whatever jobs were
\* lost, rerun or raced (release.yml, needs: of publish-index).
Serves(index) ==
  \A t \in DOMAIN index.archive :
    /\ index.archive[t] \in Archives
    /\ github[t] = index.archive[t] /\ gitcode[t] = index.archive[t]

IndexServesArchive ==
  /\ Serves(upstream)
  /\ \A t \in Tags : pr[t] = "open" => Serves(branch[t].index)

\* A stable version with its notes ends up in the index once its tag is pushed, if
\* maintainers rerun failed jobs - unless a job was lost, or run again, after its
\* release was created: that release is in its way (release.yml, "Force so a re-run
\* can repair a stale branch").
InTheWay(t) ==
  \/ github[t] # None /\ at[t]["release"] # "done"
  \/ gitcode[t] # None /\ at[t]["mirror"] \notin {"upload", "done"}

EndsInIndex ==
  \A t \in (Tags \ Previews) \cap Noted["release"] \cap Noted["mirror"] :
    t \in origin ~> (t \in DOMAIN upstream.archive \/ InTheWay(t))

\* Once all is done, what is released on GitCode has its tag there (release.yml:54,
\* "mirror every branch/tag to GitCode and publish the matching Release there").
ReleasedIsMirrored ==
  (\A t \in origin, j \in Jobs : at[t][j] \in Ended)
    => \A t \in Tags : at[t]["mirror"] = "done" => t \in mirror

\* A version the index lists can be downloaded: the file its URL is made of the tag
\* for is among the assets (release.yml, GLOBAL_URL).
UrlsExist == \A t \in DOMAIN upstream.archive : upstream.archive[t].name = t
=============================================================================
