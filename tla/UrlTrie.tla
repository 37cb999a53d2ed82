------------------------------ MODULE UrlTrie ------------------------------
(***************************************************************************)
(* UrlTrie (src/var_pattern.{h,cpp}): the URL templates of the HTTP        *)
(* handlers as a tree of sections.  A node is named by the edges that lead *)
(* to it, so the tree is the set of its nodes, the variable name each node *)
(* keeps for its {} edge and the handler name of each node with end set.   *)
(***************************************************************************)
EXTENDS Naturals, Sequences, SequencesExt, FiniteSetsExt

CONSTANTS Texts     \* what may stand between two slashes or in two braces

ASSUME TextsAssumption == "" \in Texts

\* What stands between two slashes: a literal, or "{name}".  The path "/a/"
\* is <<Lit("a"), Lit("")>>.
Lit(text) == [isVar |-> FALSE, text |-> text]
Var(name) == [isVar |-> TRUE,  text |-> name]
EmptySection == Lit("")

Section == [isVar : BOOLEAN, text : Texts]

\* Empty sections, of doubled and trailing slashes, are left out.
split(path) ==
    LET Kept[i \in 0..Len(path)] ==
            IF i = 0 THEN <<>>
            ELSE IF path[i] = EmptySection THEN Kept[i - 1] ELSE Append(Kept[i - 1], path[i])
    IN  Kept[Len(path)]

\* The edge of a {variable} section, whatever the name, and of a literal.
AnyText == Var("")
Edge(s) == IF s.isVar THEN AnyText ELSE s
Shape(sections) == [i \in DOMAIN sections |-> Edge(sections[i])]

\* std::map: both maps' entries, f's where they share a key; one more entry,
\* unless there is one; an entry set.
Merged(f, g) == [x \in DOMAIN f \cup DOMAIN g |-> IF x \in DOMAIN f THEN f[x] ELSE g[x]]
Emplaced(f, key, val) == Merged(f, [x \in {key} |-> val])
Put(f, key, val) == Merged([x \in {key} |-> val], f)

Above(node, i) == SubSeq(node, 1, i - 1)

EmptyTrie == [nodes |-> {<<>>}, var |-> <<>>, name |-> <<>>]

VarNames(sections) ==
    LET node == Shape(sections)
    IN  [p \in {Above(node, i) : i \in {j \in DOMAIN node : sections[j].isVar}} |->
            sections[Len(p) + 1].text]

\* Mutants: a later template renames the variable; the first template keeps
\* the node; every node on the way is marked.
putRenames(t, path, name) ==
    LET sections == split(path)  node == Shape(sections)
    IN  [nodes |-> t.nodes \cup {Above(node, i) : i \in 1..Len(node) + 1},
         var   |-> Merged(VarNames(sections), t.var),
         name  |-> Put(t.name, node, name)]

putFirstNamed(t, path, name) ==
    LET sections == split(path)  node == Shape(sections)
    IN  [nodes |-> t.nodes \cup {Above(node, i) : i \in 1..Len(node) + 1},
         var   |-> Merged(t.var, VarNames(sections)),
         name  |-> Emplaced(t.name, node, name)]

putNamesAlong(t, path, name) ==
    LET sections == split(path)  node == Shape(sections)
        passed == {Above(node, i) : i \in 1..Len(node) + 1}
    IN  [nodes |-> t.nodes \cup passed,
         var   |-> Merged(t.var, VarNames(sections)),
         name  |-> Merged([n \in passed |-> name], t.name)]

\* A node keeps the name of the first variable put below it, and the handler
\* of the last template that ends in it.
put(t, path, name) ==
    LET sections == split(path)  node == Shape(sections)
    IN  [nodes |-> t.nodes \cup {Above(node, i) : i \in 1..Len(node) + 1},
         var   |-> Merged(t.var, VarNames(sections)),
         name  |-> Put(t.name, node, name)]

\* No node, and nothing is below it.
Lost == <<Var("lost")>>

\* Mutant: the variable edge is tried first.
DownVarFirst(t, node, s) ==
    IF Append(node, AnyText) \in t.nodes THEN Append(node, AnyText)
    ELSE IF Append(node, s) \in t.nodes THEN Append(node, s)
    ELSE Lost

\* A literal edge if there is one for the section, else the variable one; the
\* walk never comes back to try the other.
Down(t, node, s) ==
    IF Append(node, s) \in t.nodes THEN Append(node, s)
    ELSE IF Append(node, AnyText) \in t.nodes THEN Append(node, AnyText)
    ELSE Lost

\* vals.emplace at each variable edge: of two variables of one name, the first.
Vals(t, node, sections) ==
    LET at(x) == {i \in DOMAIN node : node[i] = AnyText /\ t.var[Above(node, i)] = x}
    IN  [x \in {t.var[Above(node, i)] : i \in {j \in DOMAIN node : node[j] = AnyText}} |->
            sections[Min(at(x))]]

\* The node that so many sections lead to.
Walk(t, sections) ==
    LET At[i \in 0..Len(sections)] ==
            IF i = 0 THEN <<>> ELSE Down(t, At[i - 1], sections[i])
    IN  At

NoName == <<>>
NotFound == [name |-> NoName, vals |-> <<>>]

fetch_vars(t, path) ==
    LET sections == split(path)
        node == Walk(t, sections)[Len(sections)]
    IN  IF node \in DOMAIN t.name
        THEN [name |-> t.name[node], vals |-> Vals(t, node, sections)]
        ELSE NotFound
=============================================================================
