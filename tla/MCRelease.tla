------------------------------ MODULE MCRelease ------------------------------
(***************************************************************************)
(* Two stable tags; for the names, a stable tag and a preview of the same  *)
(* commit.                                                                 *)
(***************************************************************************)
EXTENDS Release

CONSTANTS stable, later, preview

MCNoted == [j \in {"release", "mirror"} |-> Tags]
MCOwnName == [t \in Tags |-> {t}]
MCSharedCommit == [t \in Tags |-> {stable, preview}]
=============================================================================
