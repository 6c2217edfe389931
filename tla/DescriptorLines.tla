--------------------------- MODULE DescriptorLines ---------------------------
(***************************************************************************)
(* scripts/ci/update_mcpp_index.py: the edit of the index descriptor, line *)
(* by line.  Of a line the script sees whether it opens a platform, opens  *)
(* the entry of a version, or is a closing brace, and how far it is        *)
(* indented; the url and sha256 lines of an entry carry the archive.       *)
(***************************************************************************)
EXTENDS Naturals, Sequences, FiniteSetsExt

CONSTANTS Platforms   \* linux, macosx and windows, in the order of PLATFORMS

Opens(platform)        == [is |-> "platform", name |-> platform, indent |-> 8]
Header(key, indent)    == [is |-> "version", name |-> key, indent |-> indent]
Url(archive, indent)   == [is |-> "url", name |-> archive, indent |-> indent]
Sha256(archive, indent) == [is |-> "sha256", name |-> archive, indent |-> indent]
Close(indent)          == [is |-> "close", name |-> "", indent |-> indent]

VersionBlock(key, archive, indent) ==
  <<Header(key, indent), Url(archive, indent + 4), Close(indent + 4),
    Sha256(archive, indent + 4), Close(indent)>>

\* Deviation: the first closing brace ends the block.
BlockEnd_AnyClose(lines, i) ==
  Min({j \in i + 1 .. Len(lines) : lines[j].is = "close"} \cup {Len(lines)})

\* The line of the closing brace below line i with the same indentation, or the
\* last line of the file.
BlockEnd(lines, i) ==
  Min({j \in i + 1 .. Len(lines) : lines[j] = Close(lines[i].indent)} \cup {Len(lines)})

\* Every block of the key is dropped; what a block swallowed is not looked at again.
RemoveEntry(lines, key) ==
  LET kept[i \in 1 .. Len(lines) + 1] ==
        IF i > Len(lines) THEN << >>
        ELSE IF lines[i].is = "version" /\ lines[i].name = key
             THEN kept[BlockEnd(lines, i) + 1]
             ELSE <<lines[i]>> \o kept[i + 1]
  IN  kept[1]

Places(lines, platform) ==
  {i \in 1 .. Len(lines) : lines[i].is = "platform" /\ lines[i].name = platform}

InsertAfterPlatform(lines, platform, block) ==
  LET i == Min(Places(lines, platform))
  IN  SubSeq(lines, 1, i) \o block \o SubSeq(lines, i + 1, Len(lines))

\* What main leaves in the file: nothing is written unless every platform is there.
Patched(lines, key, archive) ==
  LET block == VersionBlock(key, archive, 12)
      rest  == RemoveEntry(lines, key)
      after[n \in 0 .. Len(Platforms)] ==
        IF n = 0 THEN rest ELSE InsertAfterPlatform(after[n - 1], Platforms[n], block)
  IN  IF \A i \in 1 .. Len(Platforms) : Places(rest, Platforms[i]) # {}
      THEN after[Len(Platforms)]
      ELSE lines
=============================================================================
