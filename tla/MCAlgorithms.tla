---------------------------- MODULE MCAlgorithms ----------------------------
(***************************************************************************)
(* Small inputs of every kind that Algorithms asks about.                  *)
(***************************************************************************)
EXTENDS Algorithms

MCPlatforms   == <<"linux", "windows">>
MCLibraries   == {"own", "other"}
MCPunctuation == {"=", "::", ";", "<", ">", ">>", "(", ")", "[", "]", "{", "}", "*"}
MCSimilar     == {<<"l", "l">>, <<"a", "a">>, <<"b", "b">>}

-----------------------------------------------------------------------------
\* Two platforms with up to two versions each.
VersionLists ==
  {<< >>} \cup {<<[key |-> k, archive |-> "old", indent |-> n]>> : k \in {"k1", "k2"}, n \in {10, 12}}
    \cup {<<[key |-> k, archive |-> "old", indent |-> 12],
            [key |-> IF k = "k1" THEN "k2" ELSE "k1", archive |-> "older", indent |-> n]>> :
            k \in {"k1", "k2"}, n \in {10, 12}}

Descriptors ==
  {[subject |-> "descriptor", order |-> o, versions |-> [linux |-> v, windows |-> w], key |-> k] :
     o \in {<<"linux", "windows">>, <<"windows", "linux">>, <<"windows">>},
     v \in VersionLists, w \in VersionLists, k \in {"k1", "k2", "k3"}}

-----------------------------------------------------------------------------
ExportLines == {<<Inc!Using({n})>> : n \in {"a", "b", "c"}} \cup {<<Inc!Using({"a", "b"})>>}

Groups ==
  ExportLines
    \cup {<<Inc!If("own")>> \o x \o <<Inc!Endif>> : x \in ExportLines}
    \cup {<<Inc!If("own")>> \o x \o y \o z \o <<Inc!Endif>> :
            x \in ExportLines, y \in ExportLines, z \in ExportLines}

ExportLists ==
  {[subject |-> "guards", lines |-> x \o y] : x \in Groups, y \in Groups}

Anchor == Inc!Using({"a"})
AnchorBlock == <<Inc!If("gcc"), Inc!Comment, Anchor, Inc!Endif>>

AnchorLists ==
  {[subject |-> "anchor", anchor |-> Anchor, block |-> AnchorBlock, lines |-> x \o y \o z] :
     x \in {<< >>, <<Anchor>>, AnchorBlock}, y \in ExportLines, z \in {<< >>, <<Anchor>>, AnchorBlock}}

-----------------------------------------------------------------------------
Files ==
  {[subject |-> "file", file |-> f] :
     f \in [top: {"own", "other", "config", "detail"}, dir: BOOLEAN, ext: {"hpp", "h", "ipp"}]}

-----------------------------------------------------------------------------
\* One entity, declared once or twice, somewhere in namespace boost.
Homes == {<<Decl!Boost>>, <<Decl!Boost, Decl!Scope("namespace", "detail")>>,
          <<Decl!Boost, Decl!Anonymous>>}

Entities ==
  [kind: {"class", "class_template", "function"}, external: BOOLEAN, special: {"no", "explicit"}]
    \cup [kind: {"typedef"}, external: {FALSE}, special: {"no"}]

\* Functions and class templates are befriended, by classes and by class templates.
InClass(kind) == {<<Decl!Scope(kind, "c")>>}

Placements(entity) ==
  [friend: {FALSE}, in: {<< >>}]
    \cup [friend: IF entity.kind \in {"function", "class_template"} /\ entity.special = "no"
                  THEN {TRUE} ELSE {},
          in: InClass("class") \cup InClass("class_template")]

Declaration(entity, home, placed, lib, definition) ==
  [entity |-> "e", kind |-> entity.kind, scopes |-> home \o placed.in,
   friend |-> placed.friend, lib |-> lib, definition |-> definition \/ entity.kind = "typedef",
   external |-> entity.external /\ home[Len(home)] # Decl!Anonymous,
   special |-> entity.special]

InLibs == MCLibraries \cup {"shared"}

\* d: which of the declarations is the definition, if one is.
Units ==
  UNION {
    {[subject |-> "unit", tu |-> <<Declaration(e, h, p, l, d = 1)>>] :
       h \in Homes, p \in Placements(e), l \in InLibs, d \in {0, 1}}
    \cup
    {[subject |-> "unit",
      tu |-> <<Declaration(e, h, p, l, d = 1), Declaration(e, h, q, m, d = 2)>>] :
       h \in Homes, p \in Placements(e), q \in Placements(e), l \in InLibs, m \in InLibs,
       d \in {0, 1, 2}} : e \in Entities}

-----------------------------------------------------------------------------
Overloads ==
  [chain: {<<"boost">>, <<"boost", "a">>, <<"boost", "b">>, <<"boost", "b", "a">>},
   name: {"f"}, external: BOOLEAN]

Usings ==
  {u \in {Names!UsingDeclaration(scope, rooted, segs) :
             scope \in {<<"boost">>, <<"boost", "b">>, <<"app">>}, rooted \in BOOLEAN,
             segs \in {<<"a", "f">>, <<"boost", "a", "f">>, <<"std", "f">>, <<"f">>}} :
     /\ u.rooted => u.segs # <<"a", "f">>
     /\ ~u.rooted => u.segs # <<"f">>}

UsingInputs ==
  {[subject |-> "using", entities |-> e, using |-> u] :
     e \in UNION {kSubset(k, Overloads) : k \in 0 .. 3}, u \in Usings}

-----------------------------------------------------------------------------
Defaults == {<< >>, <<"=", "d", "::", "v", "<", "T", ">">>, <<"=", "d", "<", "v", ">">>}

Headers ==
  {<<"template", "<", ">">>}
    \cup {<<"template", "<", "class", "T">> \o d \o <<">">> : d \in Defaults}
    \cup {<<"template", "<", "class", "T", "=", "d", "::", "v", "<", "T", ">>">>}

Arguments == {<< >>, <<"<", "T", ">">>}

Part(name, behind) == [name |-> name, behind |-> behind]
AX(behind) == Part(<<"a", "x">>, behind)

\* { c; a::x; }  and  a::x(b::y;)  among them, and  boost::a::x<T>::v.
Initializers ==
  {[lead |-> << >>, parts |-> <<AX(<< >>)>>],
   [lead |-> << >>, parts |-> <<Part(<<"boost", "a", "x">>, <<"<">>),
                                Part(<<"T">>, <<">", "::">>), Part(<<"v">>, << >>)>>],
   [lead |-> <<"{">>, parts |-> <<Part(<<"c">>, <<";">>), AX(<<";", "}">>)>>],
   [lead |-> <<"[", "]", "(">>, parts |-> <<Part(<<"c">>, <<"::", "*">>), AX(<<";", ")">>)>>],
   [lead |-> << >>, parts |-> <<AX(<<"(">>), Part(<<"b", "y">>, <<";", ")">>)>>],
   [lead |-> << >>, parts |-> <<Part(<<"c">>, << >>)>>]}

Templates ==
  {[subject |-> "template", header |-> h, arguments |-> g, lead |-> n.lead, parts |-> n.parts] :
     h \in Headers, g \in Arguments, n \in Initializers}

-----------------------------------------------------------------------------
\* The chain a::x, relative or not, in a variable template of library l.
InnerNames == {<<"boost", "l", "a">>, <<"boost", "l", "a", "x">>}
Outer == {<<"boost", "l">>, <<"boost", "a">>, <<"boost", "a", "x">>}

HomesOf(name) ==
  CASE Len(name) = 2 -> {name[2], "b", "shared"}
    [] name \in InnerNames -> {"l", "b"}
    [] OTHER -> {"a", "b", "l", "shared"}

Indexes ==
  UNION {{index \in [names -> [home: {"a", "b", "l", "shared"}, namespace: BOOLEAN]] :
            \A n \in names : /\ index[n].namespace = (Last(n) # "x")
                              /\ index[n].home \in HomesOf(n)} :
         names \in {Outer, Outer \cup InnerNames, Outer \ {<<"boost", "a", "x">>}}}

References ==
  UNION {{[subject |-> "reference", lib |-> "l", index |-> index, face |-> face,
           ref |-> [scope |-> scope, chain |-> chain]] :
            face \in SUBSET ({<<"boost", "a", "x">>} \cap DOMAIN index),
            scope \in {<<"boost", "l">>, <<"boost", "a">>},
            chain \in {<<"a", "x">>, <<"boost", "a", "x">>}} : index \in Indexes}

-----------------------------------------------------------------------------
\* The directories of scripts/_deps, one in the other.
Nested(contents) ==
  [i \in 1 .. 5 |-> [depth |-> i - 1, windows_h |-> "windows.h" \in contents[i],
                     include |-> "include" \in contents[i]]]

Sysroots ==
  {[subject |-> "sysroot", dirs |-> Nested(c), marker |-> m] :
     c \in [1 .. 5 -> {{}, {"windows.h"}, {"include"}, {"windows.h", "include"}}],
     m \in {None} \cup 1 .. 5}

Installation(release, libclang, headers) ==
  [release |-> release, libclang |-> libclang, headers |-> headers]

Installations(release) ==
  {Installation(release, l, h) :
     l \in SUBSET {"bin", "lib"}, h \in {<< >>, <<release>>, <<"other", release>>}}

Hosts ==
  {[subject |-> "host", path |-> p, cxx |-> c, wheel |-> w] :
     p \in {None} \cup Installations("r1"), c \in {None} \cup Installations("r2"),
     w \in {Installation("r3", {"lib"}, << >>)}}

-----------------------------------------------------------------------------
MCInputs ==
  UNION {Descriptors, ExportLists, AnchorLists, Files, Units, UsingInputs, Templates,
         References, Sysroots, Hosts}
=============================================================================
