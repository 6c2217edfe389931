--------------------------- MODULE MCFetchSysroot ---------------------------
(***************************************************************************)
(* Two connections, and an archive of four members: the two the tree is    *)
(* recognised by, one the probe needs besides, and one it does not look at.*)
(***************************************************************************)
EXTENDS FetchSysroot

MCMembers == {"windows_h", "include_dir", "libstdcxx", "winsock2_h"}
MCAnchors == {"windows_h", "include_dir"}
MCProbed  == {"windows_h", "libstdcxx"}

Fetch(fmt, parallel) ==
  [mode |-> "fetch", fmt |-> fmt, force |-> FALSE, parallel |-> parallel,
   probe |-> TRUE]

Any ==
  {Fetch("7z", TRUE), Fetch("zip", FALSE), [Fetch("7z", TRUE) EXCEPT !.force = TRUE],
   [Fetch("7z", TRUE) EXCEPT !.probe = FALSE],
   [Fetch("7z", TRUE) EXCEPT !.mode = "check"],
   [Fetch("7z", TRUE) EXCEPT !.mode = "print_path"]}

Forced == {[Fetch("7z", TRUE) EXCEPT !.force = TRUE]}
=============================================================================
