------------------------------ MODULE Toolchain ------------------------------
(***************************************************************************)
(* boost_common.py: what of the host a generation uses - the sysroot, the  *)
(* libclang that parses and the builtin headers it parses with.            *)
(***************************************************************************)
EXTENDS Naturals, Sequences, FiniteSetsExt, SequencesExt

CONSTANTS DefaultTarget,  \* the mingw triple
          None            \* nothing found, or not set

-----------------------------------------------------------------------------
(***************************************************************************)
(* The sysroot.  dirs: the directories under scripts/_deps in the order of *)
(* a scan, the base first, each with its depth and what it has in it;      *)
(* marker: the one mingw-sysroot.json names, or None.                      *)
(***************************************************************************)
First(dirs, good(_)) ==
  LET found == {i \in 1 .. Len(dirs) : good(dirs[i])}
  IN  IF found = {} THEN None ELSE Min(found)

LooksLikeSysroot(dir) == dir.windows_h
IsSysroot(dir) == dir.windows_h /\ dir.include

\* Deviation: the scan is one level short.
BundledSysroot_Shallow(dirs, marker) ==
  IF marker # None /\ LooksLikeSysroot(dirs[marker]) THEN marker
  ELSE First(dirs, LAMBDA d : d.depth \in 1 .. 2 /\ LooksLikeSysroot(d))

BundledSysroot(dirs, marker) ==
  IF marker # None /\ LooksLikeSysroot(dirs[marker]) THEN marker
  ELSE First(dirs, LAMBDA d : d.depth \in 1 .. 3 /\ LooksLikeSysroot(d))

\* The answer of fetch_mingw_sysroot.py to the same question.
CurrentRoot(dirs, marker) ==
  IF marker # None /\ IsSysroot(dirs[marker]) THEN marker
  ELSE First(dirs, LAMBDA d : d.depth \in 0 .. 3 /\ IsSysroot(d))

\* The bundled sysroot is for the default triple only.
GenSysroot(env, target, dirs, marker) ==
  IF env # None THEN env
  ELSE IF target = DefaultTarget THEN BundledSysroot(dirs, marker)
  ELSE None

-----------------------------------------------------------------------------
(***************************************************************************)
(* libclang.  An installation has the directories it keeps a libclang in   *)
(* and, in directory order, the versions lib/clang has headers of; its own *)
(* is `release`.                                                           *)
(***************************************************************************)
Places == <<"", "bin", "lib", "lib64">>

\* _libclang_in_installation: where the library is found.
LibclangIn(installation) ==
  LET found == {i \in 1 .. Len(Places) : Places[i] \in installation.libclang}
  IN  IF found = {} THEN None ELSE Places[Min(found)]

\* load_libclang: the installation the library is taken from.  A path that is set
\* must have one; else clang++'s installation is preferred to the bundled wheel.
LoadLibclang(path, cxx, wheel) ==
  IF path # None THEN IF LibclangIn(path) # None THEN path ELSE None
  ELSE IF cxx # None /\ LibclangIn(cxx) # None THEN cxx
  ELSE wheel

\* _append_resource_dir: the version of the builtin headers, or None for the error.
\* All candidates are called "include": the sort by name leaves their order alone.
ResourceDir(installation, explicit) ==
  IF explicit # None THEN explicit
  ELSE IF installation.headers = << >> THEN None
  ELSE Head(installation.headers)

\* get_ci of a fresh process: the parser and its headers, or None for an exception.
GetCi(path, cxx, wheel, explicit) ==
  LET from == LoadLibclang(path, cxx, wheel)
  IN  IF from = None THEN None
      ELSE IF ResourceDir(from, explicit) = None THEN None
      ELSE [release |-> from.release, headers |-> ResourceDir(from, explicit)]
=============================================================================
