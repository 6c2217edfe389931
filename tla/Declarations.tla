----------------------------- MODULE Declarations -----------------------------
(***************************************************************************)
(* What gen_exports.py takes for an exportable entity of a translation     *)
(* unit, and what gen_audit.py lists of the rest.                          *)
(*                                                                         *)
(* A translation unit is the sequence of its declarations in the order of  *)
(* a depth-first walk.  A declaration is a record:                         *)
(*   entity      what it declares (its USR)                                *)
(*   kind        its cursor kind                                           *)
(*   scopes      the scopes it is written in, outermost first              *)
(*   friend      it is the declaration of a friend                         *)
(*   lib         the library whose file it is in, or Shared                *)
(*   definition  it is the definition                                      *)
(*   external    it has external linkage                                   *)
(*   special     "no", "explicit" (template <>) or "instance"              *)
(***************************************************************************)
EXTENDS Naturals, Sequences, FiniteSetsExt

CONSTANTS Libraries,  \* the target libraries
          Shared      \* no target library

Scope(is, name) == [is |-> is, name |-> name]
Anonymous == Scope("namespace", "")
Boost == Scope("namespace", "boost")

Classes == {"class", "class_template"}
Functions == {"function", "function_template"}
Aliases == {"typedef"}
ExportKinds == Classes \cup Functions \cup Aliases \cup {"enum", "enum_constant", "variable"}

Cursors ==
  [entity: STRING, kind: ExportKinds,
   scopes: Seq([is: {"namespace", "function", "enum", "scoped_enum"} \cup Classes, name: STRING]),
   friend: BOOLEAN, lib: Libraries \cup {Shared}, definition: BOOLEAN, external: BOOLEAN,
   special: {"no", "explicit", "instance"}]

-----------------------------------------------------------------------------
(***************************************************************************)
(* boost_common.py: the library of boost/<top>/... or boost/<top>.<ext>.   *)
(***************************************************************************)
Owned(lib) == IF lib \in Libraries THEN lib ELSE Shared

\* build_file_to_lib, home_lib_of_file: by the files found on disk.
HomeLibOfFile(file) == IF file.ext = "hpp" THEN Owned(file.top) ELSE Shared

\* _lib_of_include: by the text of the #include.
LibOfInclude(file) ==
  IF file.dir /\ file.top = "detail" THEN Shared ELSE Owned(file.top)

-----------------------------------------------------------------------------
(***************************************************************************)
(* boost_common.py: names and linkage of a cursor.                         *)
(***************************************************************************)
Names(scopes) == [i \in 1 .. Len(scopes) |-> scopes[i].name]

Namespaces(scopes) == SelectSeq(scopes, LAMBDA s : s.is = "namespace")

\* A friend is a member of the enclosing namespace.
SemanticScopes(d) == IF d.friend THEN Namespaces(d.scopes) ELSE d.scopes

LexicalParent(d) == IF d.scopes = << >> THEN "file" ELSE d.scopes[Len(d.scopes)].is

NamespaceChain(scopes) ==
  IF \A i \in 1 .. Len(scopes) : scopes[i].is = "namespace" /\ scopes[i] # Anonymous
  THEN Names(scopes) ELSE << >>

\* Not a name to reach it by: a declaration in a function or an anonymous namespace.
QualifiedName(d) ==
  LET scopes == SemanticScopes(d)
  IN  IF \A i \in 1 .. Len(scopes) :
           scopes[i].is \in {"namespace", "enum", "scoped_enum"} \cup Classes
           /\ scopes[i] # Anonymous
      THEN Append(Names(scopes), d.entity) ELSE << >>

InBoost(d) == Len(QualifiedName(d)) > 1 /\ QualifiedName(d)[1] = "boost"

\* A typedef name has no linkage and passes.
LinkageOk(d) == d.kind \in Aliases \/ d.external

-----------------------------------------------------------------------------
(***************************************************************************)
(* gen_exports.py: build_usr_index and collect_candidates.                 *)
(***************************************************************************)
\* The first declaration of an entity, friends not counted.
Index(tu) ==
  {i \in 1 .. Len(tu) : /\ ~tu[i].friend
                        /\ \A j \in 1 .. i - 1 : tu[j].friend \/ tu[j].entity # tu[i].entity}

\* Deviation: the first declaration decides.
Home_First(tu, i) == tu[i].lib

\* The library that has the definition, if there is one.
Home(tu, i) ==
  LET definitions == {j \in 1 .. Len(tu) : tu[j].entity = tu[i].entity /\ tu[j].definition}
  IN  IF tu[i].definition \/ definitions = {} THEN tu[i].lib ELSE tu[Min(definitions)].lib

\* Members come with their class, the enumerators of its enums too, and those of a
\* scoped enum with the enum.
AtNamespaceScope(tu, i) ==
  LET scopes == SemanticScopes(tu[i])
  IN  /\ NamespaceChain(IF tu[i].kind = "enum_constant"
                        THEN SubSeq(scopes, 1, Len(scopes) - 1) ELSE scopes) # << >>
      /\ LexicalParent(tu[i]) # "scoped_enum"

OwnOrShared(tu, lib, i) == Home(tu, i) \in {lib, Shared}

Visible(tu, i) ==
  /\ LexicalParent(tu[i]) \notin {"function"} \cup Classes
  /\ InBoost(tu[i])
  /\ AtNamespaceScope(tu, i)

Candidates(tu, lib) ==
  {i \in Index(tu) : /\ tu[i].kind \in ExportKinds
                     /\ OwnOrShared(tu, lib, i)
                     /\ LinkageOk(tu[i])
                     /\ tu[i].special = "no"
                     /\ Visible(tu, i)}

-----------------------------------------------------------------------------
(***************************************************************************)
(* gen_audit.py: audit_lib.  The kinds it knows have no class templates:   *)
(* their members are walked through without a look for friends.            *)
(***************************************************************************)
Walked == Functions \cup Aliases \cup {"class", "enum", "variable"}

Friends(tu, lib) ==
  {i \in 1 .. Len(tu) : tu[i].friend /\ tu[i].lib = lib /\ LexicalParent(tu[i]) = "class"}

Listed(tu, lib) ==
  {i \in 1 .. Len(tu) \ Friends(tu, lib) : tu[i].lib = lib /\ tu[i].kind \in Walked}

\* Deviation: whatever the exporter would drop first is what counts.
Statics_Indexed(tu, lib) ==
  {i \in Listed(tu, lib) \cap Index(tu) :
     tu[i].kind \in Functions /\ ~LinkageOk(tu[i]) /\ NamespaceChain(SemanticScopes(tu[i])) # << >>}

Statics(tu, lib) ==
  {i \in Listed(tu, lib) : /\ tu[i].kind \in Functions
                           /\ NamespaceChain(SemanticScopes(tu[i])) # << >>
                           /\ ~LinkageOk(tu[i])}

InAnonymous(d) == \E k \in 1 .. Len(d.scopes) : d.scopes[k] = Anonymous

AnonymousEntities(tu, lib) ==
  {i \in Listed(tu, lib) : InAnonymous(tu[i]) /\ InBoost(tu[i])}

Specializations(tu, lib) ==
  {i \in Listed(tu, lib) : /\ tu[i].kind \in Functions \cup {"class"}
                           /\ tu[i].special # "no"
                           /\ InBoost(tu[i])}
=============================================================================
