------------------------------ MODULE UsingNames ------------------------------
(***************************************************************************)
(* gen_exports.py: the names that using-declarations and using-directives  *)
(* give to entities (collect_injections).  libclang has no target for      *)
(* them, so both are put together from the tokens and the namespace.       *)
(*                                                                         *)
(* A name is the sequence of its segments.  An entity is the name of its   *)
(* namespace, its own, and whether its linkage is external.                *)
(***************************************************************************)
EXTENDS Naturals, Sequences, SequencesExt

Unusable == << >>
InBoost(name) == Len(name) > 0 /\ name[1] = "boost"

QName(e) == Append(e.chain, e.name)
Declared(entities, name) == {e \in entities : QName(e) = name}

\* A using-declaration in namespace `scope`, for the name `segs`, which is written
\* with a leading :: when it is rooted.
UsingDeclaration(scope, rooted, segs) == [scope |-> scope, rooted |-> rooted, segs |-> segs]

\* Where _using_target_name takes the entity to be, and its name for importers.
FullyQualified(u) == ~u.rooted /\ InBoost(u.segs)

Target(u) ==
  IF FullyQualified(u) THEN u.segs
  ELSE IF ~InBoost(u.scope) THEN Unusable
  ELSE IF u.rooted \/ u.segs[1] = "std" THEN u.segs
  ELSE u.scope \o u.segs

Injected(u) ==
  IF FullyQualified(u) THEN u.segs
  ELSE IF ~InBoost(u.scope) THEN Unusable
  ELSE Append(u.scope, Last(u.segs))

\* Deviation: one entity of the name will do.
Injectable_Some(entities, u) ==
  \/ ~InBoost(Target(u))
  \/ \E name \in {Target(u), Injected(u)} :
       \E e \in Declared(entities, name) : e.external

\* What a using of a boost name must denote: declarations with external linkage only,
\* under its target or else under the name itself.
Injectable(entities, u) ==
  LET here == Declared(entities, Target(u))
      found == IF here # {} THEN here ELSE Declared(entities, Injected(u))
  IN  ~InBoost(Target(u)) \/ (found # {} /\ \A e \in found : e.external)

\* The export block and the name in it.
Record(block, name, rooted) == [block |-> block, name |-> name, rooted |-> rooted]

UsingRecords(entities, claimed, u) ==
  IF Injected(u) = Unusable \/ Injected(u) \in claimed \/ ~Injectable(entities, u)
  THEN {}
  ELSE {Record(Front(Injected(u)),
               IF InBoost(Target(u)) THEN Injected(u) ELSE Target(u),
               ~InBoost(Target(u)) /\ Target(u)[1] # "std")}

-----------------------------------------------------------------------------
\* _using_namespace_target: rooted and std namespaces are left out.
NamespaceTarget(u) ==
  IF u.rooted \/ u.segs[1] = "std" THEN Unusable
  ELSE IF InBoost(u.segs) THEN u.segs
  ELSE IF InBoost(u.scope) THEN u.scope \o u.segs
  ELSE Unusable

\* What a directive in `scope` republishes: the external members of its target.
DirectiveRecords(entities, claimed, u) ==
  {Record(u.scope, Append(u.scope, e.name), FALSE) :
     e \in {x \in entities : /\ InBoost(u.scope) /\ NamespaceTarget(u) # Unusable
                             /\ x.chain = NamespaceTarget(u) /\ x.external
                             /\ Append(u.scope, x.name) \notin claimed}}
=============================================================================
