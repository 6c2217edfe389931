---------------------------- MODULE Regeneration ----------------------------
(***************************************************************************)
(* What the generator promises, whatever it skips: a generated file is     *)
(* only ever written with what a full run on the present headers would     *)
(* write, and the files count as settled only when all of them are.        *)
(***************************************************************************)
CONSTANTS
  Libs,         \* the libraries that have a generated file
  Versions,     \* the revisions of the headers
  Opts,         \* the command lines of the generator
  Covers,       \* Covers[o]: the libraries a run with o generates
  Full,         \* Full[v][o][l]: the file of l after a full run on revision v
  None          \* an absent file, or no command line

VARIABLES
  rev,          \* the revision of the headers on disk
  files,        \* files[l]: the generated file of l
  opts,         \* the command line of the present or last run
  settled       \* the files it generates may be committed

vars == <<rev, files, opts, settled>>

UpToDate(v) ==
  /\ opts # None
  /\ \A l \in Covers[opts] : files[l] = Full[v][opts][l]

Init ==
  /\ rev \in Versions
  /\ files = [l \in Libs |-> None]
  /\ opts = None
  /\ settled = FALSE

\* The files may turn out to be settled for the headers as they are now.
Edit(v) ==
  /\ rev' = v
  /\ settled' \in {FALSE, UpToDate(v)}
  /\ UNCHANGED <<files, opts>>

\* While a run is under way nothing counts as settled.
Begin(o) ==
  /\ opts' = o
  /\ settled' = FALSE
  /\ UNCHANGED <<rev, files>>

Write(l) ==
  /\ opts # None /\ l \in Covers[opts]
  /\ files' = [files EXCEPT ![l] = Full[rev][opts][l]]
  /\ UNCHANGED <<rev, opts, settled>>

Lose(l) ==
  /\ files' = [files EXCEPT ![l] = None]
  /\ settled' \in {FALSE, settled}
  /\ UNCHANGED <<rev, opts>>

Settle ==
  /\ UpToDate(rev)
  /\ settled' = TRUE
  /\ UNCHANGED <<rev, files, opts>>

Next ==
  \/ \E v \in Versions : Edit(v)
  \/ \E o \in Opts : Begin(o)
  \/ \E l \in Libs : Write(l) \/ Lose(l)
  \/ Settle

Spec == Init /\ [][Next]_vars
=============================================================================
