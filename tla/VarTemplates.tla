----------------------------- MODULE VarTemplates -----------------------------
(***************************************************************************)
(* gen_exports.py: variable templates, which libclang shows as a string of *)
(* tokens only.  Which of them are primary templates, which names their    *)
(* initializers mention, and the libraries those names lead to (the        *)
(* textual half of collect_body_edges).                                    *)
(***************************************************************************)
EXTENDS Naturals, Sequences, FiniteSetsExt

CONSTANTS
  Punctuation,  \* the tokens that are no identifiers
  Similar       \* the pairs <<namespace, library>> _namespace_matches_home accepts

Shared == "shared"

InBoost(name) == Len(name) > 1 /\ name[1] = "boost"

At(toks, i) == IF i \in 1 .. Len(toks) THEN toks[i] ELSE ""

-----------------------------------------------------------------------------
(***************************************************************************)
(* _classify_var_template                                                  *)
(***************************************************************************)
Closing(tok) == tok \in {">", ">>"}

\* How deep in angle brackets the header is after token i.
Depth(toks, i) ==
  Cardinality({j \in 1 .. i : toks[j] = "<"}) - Cardinality({j \in 1 .. i : Closing(toks[j])})

HeaderEnd(toks) ==
  Min({i \in 2 .. Len(toks) : Depth(toks, i) = 0} \cup {Len(toks) + 1})

Classify(toks, name) ==
  LET here == Min({i \in HeaderEnd(toks) + 1 .. Len(toks) : toks[i] = name}
                    \cup {Len(toks) + 1})
  IN  IF At(toks, 1) # "template" \/ At(toks, 2) # "<" THEN "none"
      ELSE IF Closing(At(toks, 3)) THEN "explicit"
      ELSE IF At(toks, here + 1) = "<" THEN "partial"
      ELSE "primary"

-----------------------------------------------------------------------------
(***************************************************************************)
(* _var_template_initializer_names                                         *)
(***************************************************************************)
Identifier(tok) == tok \notin Punctuation \cup {""}

\* Deviation: the first semicolon ends the declaration.
Nesting_Flat(toks) == [i \in 1 .. Len(toks) |-> 0]

Semicolon == ";"
Opening == {"(", "[", "{"}
Ending  == {")", "]", "}"}

\* How deep in parentheses, brackets and braces the declaration is after token i.
Nesting(toks) ==
  LET depth[i \in 0 .. Len(toks)] ==
        IF i = 0 THEN 0
        ELSE IF toks[i] \in Opening THEN depth[i - 1] + 1
        ELSE IF toks[i] \in Ending /\ depth[i - 1] > 0 THEN depth[i - 1] - 1
        ELSE depth[i - 1]
  IN  depth

\* The tokens between the = behind the declared name and the semicolon.
Initializer(toks, name) ==
  LET ends == {i \in 1 .. Len(toks) : toks[i] = Semicolon /\ Nesting(toks)[i] = 0}
      end == Min(ends)
      names == {i \in 1 .. end - 1 : toks[i] = name}
      assigns == {i \in Min(names) + 1 .. end - 1 : toks[i] = "="}
  IN  IF ends = {} THEN << >>
      ELSE IF names = {} THEN << >>
      ELSE IF assigns = {} THEN << >>
      ELSE SubSeq(toks, Min(assigns) + 1, end - 1)

\* How many times :: and a name follow the name at i.
Joins(toks, i) ==
  Max({n \in 0 .. Len(toks) :
         \A m \in 1 .. n : At(toks, i + 2 * m - 1) = "::" /\ Identifier(At(toks, i + 2 * m))})

\* The chains ident (:: ident)* :: in reading order; `from` is where the scan goes on.
Chains(toks) ==
  LET from[i \in 1 .. Len(toks) + 1] ==
        IF i > Len(toks) THEN << >>
        ELSE IF Identifier(toks[i]) /\ At(toks, i + 1) = "::"
        THEN <<[k \in 1 .. Joins(toks, i) + 1 |-> toks[i + 2 * k - 2]]>>
               \o from[i + 2 * Joins(toks, i) + 1]
        ELSE from[i + 1]
  IN  from[1]

-----------------------------------------------------------------------------
(***************************************************************************)
(* _initializer_lookup_qnames and the loop of collect_body_edges over it.  *)
(* index: [qname -> [home, namespace]], what the translation unit declares *)
(* by its first declaration; face: the names the module itself exports;    *)
(* seen: the pairs of a name and its home that gave an edge already.       *)
(***************************************************************************)
\* Deviation: only the innermost namespace is tried.
Bases_Innermost(chain, scope) == <<scope \o chain>>

\* A relative chain is tried in the enclosing namespaces, innermost first.
Bases(chain, scope) ==
  IF chain[1] = "boost" THEN <<chain>>
  ELSE [i \in 1 .. Len(scope) + 1 |-> SubSeq(scope, 1, Len(scope) + 1 - i) \o chain]

\* A name of boost adds an edge to the library it is declared in, if that is another
\* one; a namespace only to a library of like name.
AddsEdge(index, face, lib, seen, name) ==
  /\ name \in DOMAIN index \ face
  /\ InBoost(name)
  /\ index[name].home \notin {lib, Shared}
  /\ index[name].namespace => <<name[2], index[name].home>> \in Similar
  /\ <<name, index[name].home>> \notin seen

\* The first name that is of use gives the edge of a chain, if there is one: of each
\* base the name itself, then what is left when segments are cut off its end.
Referred(index, face, lib, seen, ref) ==
  LET bases == Bases(ref.chain, ref.scope)
      useful(i) == {k \in 1 .. Len(bases[i]) :
                      AddsEdge(index, face, lib, seen, SubSeq(bases[i], 1, k))}
      hits == {i \in 1 .. Len(bases) : useful(i) # {}}
      name == SubSeq(bases[Min(hits)], 1, Max(useful(Min(hits))))
  IN  IF hits = {} THEN seen ELSE seen \cup {<<name, index[name].home>>}

\* The libraries that the chains of a library's variable templates lead to.
EdgesOf(index, face, lib, refs) ==
  LET seen[n \in 0 .. Len(refs)] ==
        IF n = 0 THEN {} ELSE Referred(index, face, lib, seen[n - 1], refs[n])
  IN  {pair[2] : pair \in seen[Len(refs)]}
=============================================================================
