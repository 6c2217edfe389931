------------------------------ MODULE IncLines ------------------------------
(***************************************************************************)
(* scripts/reapply_hand_edits.py: how the replay edits the lines of an     *)
(* export list.  HandEdits counts whether an edit is in a file; here are   *)
(* the lines.  A line exports an entity (the names its qualified name is   *)
(* made of), opens or closes a preprocessor conditional, or is a comment.  *)
(***************************************************************************)
EXTENDS Naturals, Sequences, FiniteSets, SequencesExt

Using(names) == [is |-> "using", names |-> names]
If(cond)     == [is |-> "if", cond |-> cond]
Endif        == [is |-> "endif"]
Comment      == [is |-> "comment"]

Lines ==
  [is : {"using"}, names : SUBSET STRING] \cup [is : {"if"}, cond : STRING]
    \cup {Endif, Comment}

-----------------------------------------------------------------------------
(***************************************************************************)
(* guard_entity_lines.  A line is taken to be guarded already when the     *)
(* line before or the line after it is one of a conditional.               *)
(***************************************************************************)
\* Deviation: no line is taken to be guarded.
LeftAlone_Never(lines, i) == FALSE

LeftAlone(lines, i) ==
  \/ i > 1 /\ lines[i - 1].is = "if"
  \/ i < Len(lines) /\ lines[i + 1].is = "endif"

ToGuard(lines, names) ==
  {i \in 1 .. Len(lines) : /\ ~LeftAlone(lines, i)
                           /\ lines[i].is = "using"
                           /\ lines[i].names \cap names # {}}

GuardEntityLines(lines, cond, names) ==
  LET here == ToGuard(lines, names)
  IN  FlattenSeq([i \in 1 .. Len(lines) |->
        IF i \in here THEN <<If(cond), lines[i], Endif>> ELSE <<lines[i]>>])

-----------------------------------------------------------------------------
(***************************************************************************)
(* patch: the one edit that is a text replacement, because the line it     *)
(* looks for may be missing.                                               *)
(***************************************************************************)
Occurrences(lines, part) ==
  {i \in 1 .. Len(lines) + 1 - Len(part) : SubSeq(lines, i, i + Len(part) - 1) = part}

\* In place of a file: the script exits.
Failed == <<[is |-> "SystemExit"]>>

PatchText(lines, old, new) ==
  LET at == Occurrences(lines, <<old>>)
  IN  IF Occurrences(lines, new) # {} \/ at = {} THEN lines
      ELSE IF Cardinality(at) > 1 THEN Failed
      ELSE LET i == CHOOSE i \in at : TRUE
           IN  SubSeq(lines, 1, i - 1) \o new \o SubSeq(lines, i + 1, Len(lines))
=============================================================================
