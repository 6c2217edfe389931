----------------------------- MODULE Algorithms -----------------------------
(***************************************************************************)
(* The algorithms on lines, names, declarations and tokens: every state is *)
(* one of their inputs, and the invariants compare what they compute with  *)
(* what it has to be.                                                      *)
(***************************************************************************)
EXTENDS Naturals, Sequences, FiniteSets, FiniteSetsExt, SequencesExt

CONSTANTS
  Inputs,         \* the inputs a run asks about, each with its subject
  Platforms,      \* as in DescriptorLines
  Libraries,      \* as in Declarations
  Punctuation,    \* as in VarTemplates
  Similar,        \* as in VarTemplates
  DefaultTarget,  \* as in Toolchain
  None

Index  == INSTANCE VersionIndex
File   == INSTANCE DescriptorLines
Inc    == INSTANCE IncLines
Decl   == INSTANCE Declarations WITH Shared <- "shared"
Names  == INSTANCE UsingNames
Token  == INSTANCE VarTemplates
Host   == INSTANCE Toolchain

Prefix(name, k) == SubSeq(name, 1, k)

-----------------------------------------------------------------------------
(***************************************************************************)
(* What is known of the inputs.                                            *)
(***************************************************************************)
\* The declarations of one entity differ in where they are, and in little else.
EntitiesAgree(tu) ==
  \A i, j \in 1 .. Len(tu) : tu[i].entity = tu[j].entity =>
    /\ tu[i].kind = tu[j].kind
    /\ tu[i].external = tu[j].external
    /\ tu[i].special = tu[j].special
    /\ Decl!SemanticScopes(tu[i]) = Decl!SemanticScopes(tu[j])

\* The namespaces of what is declared are declared; a chain as a whole names none.
NamespacesDeclared(index, ref) ==
  /\ \A name \in DOMAIN index : \A k \in 2 .. Len(name) : Prefix(name, k) \in DOMAIN index
  /\ \A k \in 2 .. Len(ref.scope) :
       Prefix(ref.scope, k) \in DOMAIN index => index[Prefix(ref.scope, k)].namespace
  /\ \A k \in 0 .. Len(ref.scope) :
       Prefix(ref.scope, k) \o ref.chain \in DOMAIN index =>
         ~index[Prefix(ref.scope, k) \o ref.chain].namespace

\* The tokens of a variable template v up to the semicolon; its initializer is names,
\* each with the punctuation behind it.
Qualified(name) == [k \in 1 .. 2 * Len(name) - 1 |-> IF k % 2 = 1 THEN name[(k + 1) \div 2] ELSE "::"]

Written(parts) ==
  FlattenSeq([k \in 1 .. Len(parts) |-> Qualified(parts[k].name) \o parts[k].behind])

Declared(i) ==
  (i.header \o <<"bool", "v">>) \o (i.arguments \o (<<"=">> \o (i.lead \o Written(i.parts))))

\* Between two names there is more than ::, or they were one name.
NamesApart(parts) ==
  \A k \in 1 .. Len(parts) :
    /\ parts[k].name \in Seq(STRING) \ {<< >>} /\ parts[k].behind \in Seq(Punctuation)
    /\ \A j \in 1 .. Len(parts[k].name) : Token!Identifier(parts[k].name[j])
    /\ k < Len(parts) => parts[k].behind \notin {<< >>, <<"::">>}

\* The header is template < ... >, and its last token closes what its second opens,
\* unless it has a >>, for which no angle bracket closes to the end.
AnglesPair(header, toks) ==
  /\ Len(header) > 2 /\ header[1] = "template" /\ header[2] = "<"
  /\ IF ">>" \in ToSet(header) THEN \A j \in 2 .. Len(toks) : Token!Depth(toks, j) > 0
     ELSE /\ \A j \in 2 .. Len(header) - 1 : Token!Depth(header, j) > 0
          /\ Token!Depth(header, Len(header)) = 0

\* Parentheses, brackets and braces pair, with every semicolon in some of them.
Bracketed(toks) ==
  LET opened(j) == Cardinality({k \in 1 .. j : toks[k] \in Token!Opening})
      ended(j)  == Cardinality({k \in 1 .. j : toks[k] \in Token!Ending})
  IN  /\ \A j \in 1 .. Len(toks) : opened(j) >= ended(j)
      /\ opened(Len(toks)) = ended(Len(toks))
      /\ \A j \in 1 .. Len(toks) : toks[j] = Token!Semicolon => opened(j) > ended(j)

\* No = between the first v and the one that is declared, nor in what it is declared for.
AssignedOnce(header, arguments) ==
  /\ \A j, k \in 1 .. Len(header) : j < k /\ header[j] = "v" => header[k] # "="
  /\ "=" \notin ToSet(arguments)

\* An installation has the headers of its own release, if it has any.
OwnHeaders(installation) ==
  \/ installation = None
  \/ /\ installation.headers \in Seq(ToSet(installation.headers))
     /\ installation.headers # << >> => \E i \in DOMAIN installation.headers :
                                          installation.headers[i] = installation.release

\* How many conditionals are open behind line i.
Open(lines, i) ==
  Cardinality({j \in 1 .. i : lines[j].is = "if"})
    - Cardinality({j \in 1 .. i : lines[j].is = "endif"})

WellNested(lines) ==
  Open(lines, Len(lines)) = 0 /\ \A i \in 1 .. Len(lines) : Open(lines, i) >= 0

UsingsOf(lines) ==
  FlattenSeq([i \in 1 .. Len(lines) |-> IF lines[i].is = "using" THEN <<lines[i]>> ELSE << >>])

\* A version of a platform: of which archive, and how far its entry is indented.
Entries == [key : STRING, archive : STRING, indent : Nat]

Keys(versions) == [i \in 1 .. Len(versions) |-> versions[i].key]

ASSUME InputsAssumption ==
  /\ "detail" \notin Libraries /\ "shared" \notin Libraries
  /\ Punctuation \subseteq STRING /\ "::" \in Punctuation
  /\ Platforms \in Seq(ToSet(Platforms)) /\ IsInjective(Platforms)
  /\ \A i \in Inputs :
       /\ i.subject = "descriptor" =>
            /\ i.order \in Seq(ToSet(Platforms)) /\ IsInjective(i.order)
            /\ i.versions \in [ToSet(Platforms) -> Seq(Entries)]
            /\ \A p \in ToSet(Platforms) : IsInjective(Keys(i.versions[p]))
            /\ i.key \in STRING
       /\ i.subject = "guards" => i.lines \in Seq(Inc!Lines) /\ WellNested(i.lines)
       /\ i.subject = "anchor" =>
            /\ i.lines \in Seq(Inc!Lines) /\ i.block \in Seq(Inc!Lines)
            /\ i.anchor \in Inc!Lines /\ i.anchor.is = "using"
            /\ UsingsOf(i.block) = <<i.anchor>>
       /\ i.subject = "unit" => i.tu \in Seq(Decl!Cursors) /\ EntitiesAgree(i.tu)
       /\ i.subject = "using" =>
            /\ i.entities \subseteq [chain: Seq(STRING), name: STRING, external: BOOLEAN]
            /\ \A e \in i.entities : Names!InBoost(e.chain)
            /\ i.using.scope \in Seq(STRING)
            /\ i.using.segs \in Seq(STRING) \ {<< >>}
            /\ i.using.rooted \in BOOLEAN
       /\ i.subject = "reference" =>
            /\ DOMAIN i.index \subseteq Seq(STRING)
            /\ i.ref.scope \in Seq(STRING) /\ i.ref.chain \in Seq(STRING) \ {<< >>}
            /\ NamespacesDeclared(i.index, i.ref)
       /\ i.subject = "template" =>
            /\ i.header \in Seq(STRING) /\ i.arguments \in Seq(STRING)
            /\ i.arguments # << >> => i.arguments[1] = "<"
            /\ i.lead \in Seq(Punctuation) /\ i.parts \in Seq(ToSet(i.parts))
            /\ NamesApart(i.parts)
            /\ AnglesPair(i.header, Declared(i))
            /\ Bracketed(Declared(i))
            /\ AssignedOnce(i.header, i.arguments)
       /\ i.subject = "sysroot" =>
            /\ i.dirs \in Seq([depth: Nat, windows_h: BOOLEAN, include: BOOLEAN])
            /\ i.marker \in {None} \cup DOMAIN i.dirs
       /\ i.subject = "host" =>
            OwnHeaders(i.path) /\ OwnHeaders(i.cxx) /\ OwnHeaders(i.wheel)

VARIABLE input

Init == input \in Inputs
Next == UNCHANGED input
Spec == Init /\ [][Next]_input

Asks(subject) == input.subject = subject

-----------------------------------------------------------------------------
(***************************************************************************)
(* The descriptor: in order, the platforms it lists, each with versions    *)
(* written by hand or by the script; a release adds one or replaces one.   *)
(***************************************************************************)
Block(v) == File!VersionBlock(v.key, v.archive, v.indent)

Blocks(versions) == FlattenSeq([i \in 1 .. Len(versions) |-> Block(versions[i])])

Rendered(order, versions) ==
  FlattenSeq([i \in 1 .. Len(order) |->
    <<File!Opens(order[i])>> \o (Blocks(versions[order[i]]) \o <<File!Close(8)>>)])

Listed(versions) ==
  Index!Listing(IF versions = << >> THEN None ELSE versions[1].key,
                [k \in {versions[i].key : i \in 1 .. Len(versions)} |->
                   versions[CHOOSE i \in 1 .. Len(versions) : versions[i].key = k].archive])

Others(versions, key) ==
  FlattenSeq([i \in 1 .. Len(versions) |->
    IF versions[i].key = key THEN << >> ELSE <<versions[i]>>])

Added(versions, key) ==
  <<[key |-> key, archive |-> "new", indent |-> 12]>> \o Others(versions, key)

\* Patching the lines of a descriptor puts the version first on every platform, once,
\* and leaves every other entry and all other text untouched, which makes it what
\* Release takes it for; without one of the platforms nothing changes
\* (update_mcpp_index.py:1-9).
PatchAddsVersion ==
  Asks("descriptor") =>
    LET added == [p \in ToSet(Platforms) |-> Added(input.versions[p], input.key)]
    IN  /\ File!Patched(Rendered(input.order, input.versions), input.key, "new")
             = Rendered(input.order,
                        IF ToSet(Platforms) \subseteq ToSet(input.order) THEN added
                        ELSE input.versions)
        /\ \A p \in ToSet(Platforms) :
             Listed(added[p]) = Index!Updated(Listed(input.versions[p]), input.key, "new")

-----------------------------------------------------------------------------
(***************************************************************************)
(* The export list: runs of lines, some of them in a conditional already.  *)
(* main guards some files twice, under two conditions.                     *)
(***************************************************************************)
Guarded(lines) ==
  Inc!GuardEntityLines(Inc!GuardEntityLines(lines, "win", {"a"}), "file", {"b", "z"})

GuardsSettle ==
  Asks("guards") =>
    LET replayed == Guarded(input.lines)
    IN  /\ Guarded(replayed) = replayed
        /\ UsingsOf(replayed) = UsingsOf(input.lines)
        /\ WellNested(replayed)
        /\ \A i \in 1 .. Len(replayed) :
             replayed[i].is = "using" /\ replayed[i].names \cap {"a", "b"} # {}
               => Open(replayed, i) > 0

\* A line between #if and #endif is left alone (reapply_hand_edits.py:120-121).
GuardedAreLeft ==
  Asks("guards") =>
    \A i \in Inc!ToGuard(input.lines, {"a"}) : Open(input.lines, i) = 0

AnchorSettles ==
  Asks("anchor") =>
    LET anchor == input.anchor
        patched == Inc!PatchText(input.lines, anchor, input.block)
        anchors == Cardinality(Inc!Occurrences(input.lines, <<anchor>>))
    IN  IF patched = Inc!Failed THEN anchors > 1
        ELSE /\ Inc!PatchText(patched, anchor, input.block) = patched
             /\ anchors > 0 => Inc!Occurrences(patched, input.block) # {}
             /\ UsingsOf(patched) = UsingsOf(input.lines)

\* After the replay every line that exports a named entity is in a conditional, the
\* conditionals are well nested, no export is lost, and another replay changes
\* nothing (reapply_hand_edits.py:120, "Idempotent"); so does the one line that is
\* patched by its text, which is refused only where it is there twice (patch).
EditsSettle == GuardsSettle /\ AnchorSettles

-----------------------------------------------------------------------------
(***************************************************************************)
(* Files of the vendored tree.                                             *)
(***************************************************************************)
\* By its text an #include counts for the library that owns the file it brings in.
OwnersAgree ==
  Asks("file") /\ input.file.ext = "hpp" =>
    Decl!LibOfInclude(input.file) = Decl!HomeLibOfFile(input.file)

\* Every file under boost/<lib>/ belongs to the library (boost_common.py:608-610).
EveryFileIsOwned ==
  Asks("file") /\ input.file.dir =>
    Decl!LibOfInclude(input.file) = Decl!HomeLibOfFile(input.file)

-----------------------------------------------------------------------------
(***************************************************************************)
(* The declarations of a translation unit.                                 *)
(***************************************************************************)
Exports(tu, lib) == {tu[i].entity : i \in Decl!Candidates(tu, lib)}

DefinitionsOf(tu, entity) ==
  {i \in 1 .. Len(tu) : tu[i].entity = entity /\ tu[i].definition}

\* The entities that one library defines, and no other.
DefinedInOne(tu) ==
  {e \in {tu[i].entity : i \in 1 .. Len(tu)} :
     /\ DefinitionsOf(tu, e) # {}
     /\ \A i, j \in DefinitionsOf(tu, e) : tu[i].lib = tu[j].lib}

\* The ways to put n declarations in order.
Orders(n) == {p \in [1 .. n -> 1 .. n] : \A i \in 1 .. n : \E j \in 1 .. n : p[j] = i}

\* The order in which the headers declare an entity with a definition is no matter.
ClaimsIgnoreOrder ==
  Asks("unit") =>
    \A p \in Orders(Len(input.tu)), lib \in Libraries :
      LET reordered == [i \in 1 .. Len(input.tu) |-> input.tu[p[i]]]
      IN  Exports(reordered, lib) \cap DefinedInOne(input.tu)
            = Exports(input.tu, lib) \cap DefinedInOne(input.tu)

\* Who exports an entity is well defined: a forward declaration elsewhere gives no
\* library the entity (gen_exports.py:497-502), and the library an #include counts
\* for is the one that owns what it brings in, or an entity would be exported without
\* the import its users need (boost_common.py, build_file_to_lib and _lib_of_include,
\* for headers named .hpp).
OwnerIsDefined == OwnersAgree /\ ClaimsIgnoreOrder

Dropped(tu, lib) ==
  {i \in Decl!Index(tu) : /\ Decl!Home(tu, i) = lib
                          /\ Decl!Visible(tu, i)
                          /\ i \notin Decl!Candidates(tu, lib)
                          /\ tu[i].kind \in {"class", "function"}
                          /\ tu[i].kind = "class" => tu[i].special # "no"}

Audited(tu, lib) ==
  Decl!Statics(tu, lib) \cup Decl!Specializations(tu, lib) \cup Decl!Friends(tu, lib)

\* A function the exporter passes over because of its linkage, and a function or class
\* it passes over as a specialization, is in the audit of its library
\* (gen_audit.py:4-10).
DroppedIsAudited ==
  Asks("unit") =>
    \A lib \in Libraries : \A i \in Dropped(input.tu, lib) :
      \E a \in Audited(input.tu, lib) : input.tu[a].entity = input.tu[i].entity

\* Entities of an anonymous namespace are audited (gen_audit.py:7).
AnonymousIsAudited ==
  Asks("unit") =>
    \A lib \in Libraries : \A i \in Decl!Listed(input.tu, lib) :
      Decl!InAnonymous(input.tu[i]) => i \in Decl!AnonymousEntities(input.tu, lib)

\* Friends are audited (gen_audit.py:10).
FriendsAreAudited ==
  Asks("unit") =>
    \A lib \in Libraries : \A i \in 1 .. Len(input.tu) :
      input.tu[i].friend /\ input.tu[i].lib = lib => i \in Decl!Friends(input.tu, lib)

-----------------------------------------------------------------------------
(***************************************************************************)
(* A using-declaration and the overloads of one name in the namespaces     *)
(* around it.                                                              *)
(***************************************************************************)
\* The namespace a relative name is found in: the innermost one around the
\* declaration that has its first segment.
Namespaces(entities) == UNION {{Prefix(e.chain, k) : k \in 1 .. Len(e.chain)} : e \in entities}

Denoted(entities, u) ==
  LET around == {k \in 0 .. Len(u.scope) :
                   Append(Prefix(u.scope, k), u.segs[1]) \in Namespaces(entities)}
  IN  IF u.rooted \/ around = {} THEN Names!Declared(entities, u.segs)
      ELSE Names!Declared(entities, Prefix(u.scope, Max(around)) \o u.segs)

AllExternal(entities) == \A e \in entities : e.external

Emitted == Names!UsingRecords(input.entities, {}, input.using)

Public(u) == Append(u.scope, Last(u.segs))

\* A record for a using-declaration whose target is in its own namespace or is
\* written out gives importers what C++ finds for it, under its public name, and is
\* there exactly when nothing of that has internal linkage (gen_exports.py:695-700).
RecordsDenote ==
  Asks("using") =>
    LET u == input.using
        found == Denoted(input.entities, u)
    IN  found # {} /\ found = Names!Declared(input.entities, Names!Target(u)) =>
          /\ (Emitted # {}) = AllExternal(found)
          /\ \A r \in Emitted :
               r.name = IF Names!FullyQualified(u) THEN u.segs ELSE Public(u)

\* Consumers keep the public spelling (gen_exports.py:687-690).
PublicSpellingKept ==
  Asks("using") =>
    LET u == input.using
        found == Denoted(input.entities, u)
    IN  Names!InBoost(u.scope) /\ found # {}
          /\ AllExternal(found \cup Names!Declared(input.entities, Public(u)))
        => \E r \in Emitted : r.name = Public(u)

\* A single internal overload keeps a name from being exported (gen_exports.py:699-700).
NoInternalOverload ==
  Asks("using") =>
    \A r \in Emitted : AllExternal(Names!Declared(input.entities, r.name))

-----------------------------------------------------------------------------
(***************************************************************************)
(* A variable template v: its header, and its initializer.                 *)
(***************************************************************************)
Tokens == Declared(input) \o <<Token!Semicolon, "b", "::", "z", Token!Semicolon>>

\* By its header and its arguments, unless the header has a >>.
ClassifiedRight ==
  Asks("template") =>
    LET class == Token!Classify(Tokens, "v")
    IN  IF Len(input.header) = 3 THEN class = "explicit"
        ELSE IF input.arguments = << >> THEN class = "primary"
        ELSE class = IF ">>" \in ToSet(input.header) THEN "primary" ELSE "partial"

\* The names written with ::, in reading order.
QualifiedNames(parts) ==
  FlattenSeq([k \in 1 .. Len(parts) |->
    IF Len(parts[k].name) > 1 \/ (parts[k].behind # << >> /\ parts[k].behind[1] = "::")
    THEN <<parts[k].name>> ELSE << >>])

InitializerNamesFound ==
  Asks("template") =>
    Token!Chains(Token!Initializer(Tokens, "v")) = QualifiedNames(input.parts)

\* A variable template is read right off its tokens: primary templates, explicit and
\* partial specializations are told apart, but for headers with a >>
\* (gen_exports.py:322-324), and every qualified name of the initializer is found,
\* and nothing behind it (_var_template_initializer_names).
TemplatesRead == ClassifiedRight /\ InitializerNamesFound

-----------------------------------------------------------------------------
(***************************************************************************)
(* A chain in the initializer of a variable template of a library, and     *)
(* what the translation unit declares of the names around it.              *)
(***************************************************************************)
\* What the chain names in C++: in the innermost namespace around the template that
\* has its first segment.
MeantIn(index, ref) ==
  LET around == {k \in 1 .. Len(ref.scope) :
                   Append(Prefix(ref.scope, k), ref.chain[1]) \in DOMAIN index}
  IN  IF ref.chain[1] = "boost" THEN ref.chain
      ELSE Prefix(ref.scope, Max(around \cup {0})) \o ref.chain

Meant == MeantIn(input.index, input.ref)

Leads(refs) == Token!EdgesOf(input.index, input.face, input.lib, refs)

\* The template is in a namespace that bears the name of its library.
AtHome ==
  LET scope == input.ref.scope
  IN  /\ Len(scope) > 1 /\ scope[1] = "boost"
      /\ \A home \in {input.index[name].home : name \in DOMAIN input.index} :
           <<scope[2], home>> \in Similar => home = input.lib

Foreign(name) ==
  /\ name \in DOMAIN input.index \ input.face
  /\ Token!InBoost(name)
  /\ input.index[name].home \notin {input.lib, "shared"}

\* In a template that is in a namespace of its own library the chain leads to the
\* library of what it names, and to that library only.
EdgeForReferenced ==
  Asks("reference") /\ AtHome /\ Foreign(Meant) =>
    Leads(<<input.ref>>) = {input.index[Meant].home}

\* False matches of an enclosing namespace are skipped (gen_exports.py:1386-1387).
FalseMatchesSkipped ==
  Asks("reference") /\ Foreign(Meant) => input.index[Meant].home \in Leads(<<input.ref>>)

\* The first useful lookup wins (gen_exports.py:1386): what is named once more leads
\* nowhere else.
SecondMentionAddsNothing ==
  Asks("reference") /\ AtHome /\ Foreign(Meant) =>
    Leads(<<input.ref, input.ref>>) = Leads(<<input.ref>>)

\* What is on the face of the module gives no edge (gen_exports.py:1323-1327).
FaceAddsNoEdge ==
  Asks("reference") /\ AtHome /\ Meant \in input.face => Leads(<<input.ref>>) = {}

-----------------------------------------------------------------------------
(***************************************************************************)
(* The directories of scripts/_deps and the installations of a host.       *)
(***************************************************************************)
\* When no extraction was cut short and nothing is in the base itself.
SameSysroot ==
  Asks("sysroot")
    /\ (\A i \in DOMAIN input.dirs :
          input.dirs[i].windows_h => input.dirs[i].include /\ input.dirs[i].depth > 0)
  => Host!BundledSysroot(input.dirs, input.marker) = Host!CurrentRoot(input.dirs, input.marker)

Parser == Host!GetCi(input.path, input.cxx, input.wheel, None)

Ambiguous(installation) == installation # None /\ Len(installation.headers) > 1

\* Where an installation has the builtin headers of one release only.
HeadersOfTheParser ==
  Asks("host") /\ Parser # None
    /\ (\A i \in {input.path, input.cxx, input.wheel} : ~Ambiguous(i))
  => Parser.headers = Parser.release

\* What a process parses with fits together: it uses the sysroot that the fetch script
\* would leave in place (_bundled_sysroot, find_sysroot), and libclang, wherever it was
\* found, parses with builtin headers of its own release and never without any
\* (boost_common.py:287-288).
ToolchainFits == SameSysroot /\ HeadersOfTheParser

\* The builtin headers match the library (docs/architecture.md:238).
HeadersMatch == Asks("host") /\ Parser # None => Parser.headers = Parser.release
=============================================================================
