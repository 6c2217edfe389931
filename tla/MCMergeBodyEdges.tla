-------------------------- MODULE MCMergeBodyEdges --------------------------
(***************************************************************************)
(* Three libraries, every graph pass 1 could leave, and every set of body  *)
(* candidates, taken in any processing order and, per library, sorted.     *)
(***************************************************************************)
EXTENDS MergeBodyEdges, SequencesExt

MCLibs == {1, 2, 3}

InOrder(order, body) ==
  FlattenSeq([i \in DOMAIN order |->
    LET homes == SetToSortSeq(body[order[i]], <)
    IN  [j \in DOMAIN homes |-> <<order[i], homes[j]>>]])

\* A body never needs its own library.
Bodies == {b \in [MCLibs -> SUBSET MCLibs] : \A l \in MCLibs : l \notin b[l]}

MCCandidateLists ==
  {InOrder(order, body) : order \in SetToSeqs(MCLibs), body \in Bodies}
=============================================================================
