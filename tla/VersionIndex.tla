---------------------------- MODULE VersionIndex ----------------------------
(***************************************************************************)
(* scripts/ci/update_mcpp_index.py: what the package index lists for a     *)
(* platform - an archive for every version, and the version that comes     *)
(* first.  DescriptorLines has the same update on the lines of the file.   *)
(***************************************************************************)
Listing(first, archive) == [first |-> first, archive |-> archive]

\* The version is put first, in place of an entry it had.
Updated(index, key, new) ==
  Listing(key, [k \in DOMAIN index.archive \cup {key} |->
                  IF k = key THEN new ELSE index.archive[k]])
=============================================================================
