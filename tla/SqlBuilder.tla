----------------------------- MODULE SqlBuilder -----------------------------
(***************************************************************************)
(* SqlBuilder::prepare_statement (include/sql_builder.h,                   *)
(* src/sql_builder.cpp): a scanned template is filled with the values that *)
(* the paths of its placeholders find in the arguments, one piece a step.  *)
(*                                                                         *)
(* A statement is a sequence of characters of the template and of values.  *)
(***************************************************************************)
EXTENDS Naturals, Sequences, SequencesExt, ModelTree

CONSTANTS
    Templates,  \* methods' patterns, as sequences of pieces
    Calls,      \* arguments: sequences of [tag, model]
    Trees,      \* the models of arguments, and what those are made of
    Long        \* values whose escaping allocates memory, which may fail

VARIABLES
    template, args,
    done,       \* how many pieces have been appended
    sql,
    ret         \* "running", "true", "false", or "undefined"

builderVars == <<template, args, done, sql, ret>>

Text(char) == <<"text", char>>
Value(v, quoted) == <<IF quoted THEN "quoted" ELSE "bare", v>>
Comma == Text(",")

\* The elements of s at the places K, in order.
Kept(s, K) ==
    LET kept[n \in 0..Len(s)] ==
            IF n = 0 THEN <<>> ELSE IF n \in K THEN Append(kept[n - 1], s[n]) ELSE kept[n - 1]
    IN  kept[Len(s)]

split_section(value) == Kept(value, {i \in DOMAIN value : value[i] # Blank})

\* SqlPattern has cut the templates, and left no piece empty.
TemplatesAreCut ==
    \A pattern \in Templates :
        /\ pattern \in Seq(ToSet(pattern))
        /\ \A piece \in ToSet(pattern) :
             /\ piece.type \in {"LITERAL", "FIELD", "LIST"}
             /\ piece.value \in Seq(ToSet(piece.value))
             /\ IF piece.type = "LITERAL" THEN piece.value # <<>>
                ELSE \A s \in ToSet(piece.value) : s.type = "index" => s.n \in Nat

\* Members and items are models.
TreesAreWhole ==
    /\ \A m \in Trees :
         \/ m = NullPtr
         \/ m.kind = "plain"
         \/ m.kind = "object" /\ \A k \in DOMAIN m.members : m.members[k] \in Trees
         \/ m.kind = "list" /\ m.items \in Seq(Trees)
    /\ \A call \in Calls : call \in Seq(ToSet(call)) /\ \A arg \in ToSet(call) : arg.model \in Trees

-----------------------------------------------------------------------------
(* One step of a path.                                                      *)

Fail == [kind |-> "fail"]
Undefined == [kind |-> "undefined"]

Member(m, s) == IF s.type = "key" /\ s.key \in DOMAIN m.members THEN m.members[s.key] ELSE Fail

\* at() gives null beyond the end.
Item(m, s) ==
    IF s.type # "index" THEN Fail
    ELSE IF s.n < Len(m.items) THEN m.items[s.n + 1] ELSE NullPtr

\* get_plain_val goes by the kind of the model it has come to; a plain stays.
\* Mutant: an unknown key is looked up all the same.
FieldStepUnchecked(m, s) ==
    CASE m.kind = "object" -> IF Member(m, s) = Fail THEN NullPtr ELSE Member(m, s)
      [] m.kind = "list"   -> Item(m, s)
      [] OTHER             -> m

FieldStep(m, s) ==
    CASE m.kind = "object" -> Member(m, s)
      [] m.kind = "list"   -> Item(m, s)
      [] OTHER             -> m

\* What a placeholder comes to: values to append, or how the call ends.
Found(vals) == [ends |-> "no", vals |-> vals]
Ends(how) == [ends |-> how, vals |-> <<>>]

\* Where all steps lead.
FieldEnd(root, sections) ==
    LET at[n \in 0..Len(sections)] == IF n = 0 THEN root ELSE FieldStep(at[n - 1], sections[n])
    IN  at[Len(sections)]

\* Stepping on from a null, or asking its kind, reads what is not there.
get_plain_val(root, sections) ==
    LET m == FieldEnd(root, sections) IN
    IF root.kind = "plain" THEN Found(<<Value(root.val, root.quoted)>>)
    ELSE IF sections = <<>> \/ root.kind # "object" THEN Ends("false")
    ELSE IF m.kind = "plain" THEN Found(<<Value(m.val, m.quoted)>>)
    ELSE Ends(IF m.kind = "null" THEN "undefined" ELSE "false")

\* get_list_val goes by the kind of the model it started from.  An unknown key
\* is an assertion, which a release build leaves out.
ListStep(root, m, s) ==
    CASE m.kind \in {"fail", "undefined"} -> {m}
      [] root.kind = m.kind /\ m.kind = "object" ->
            IF Member(m, s) = Fail THEN {Undefined, m} ELSE {Member(m, s)}
      [] root.kind = "list" /\ s.type # "index" -> {Fail}
      [] root.kind = m.kind /\ m.kind = "list" -> {Item(m, s)}
      [] root.kind = "plain" -> {m}
      [] OTHER -> {Undefined}

ListEnds(root, sections) ==
    LET at[n \in 0..Len(sections)] ==
            IF n = 0 THEN {root} ELSE UNION {ListStep(root, m, sections[n]) : m \in at[n - 1]}
    IN  at[Len(sections)]

\* Items that are not plain are left out; a null one is dereferenced.
ItemValues(items) ==
    LET plains == Kept(items, {i \in DOMAIN items : items[i].kind = "plain"})
    IN  IF NullPtr \in ToSet(items) THEN Ends("undefined")
        ELSE Found([i \in DOMAIN plains |-> Value(plains[i].val, TRUE)])

get_list_val(root, sections) ==
    LET Outcome(m) == CASE m.kind = "list" -> ItemValues(m.items)
                        [] m.kind \in {"null", "undefined"} -> Ends("undefined")
                        [] OTHER -> Ends("false")
    IN  IF sections = <<>> THEN {Ends("false")}
        ELSE {Outcome(m) : m \in ListEnds(root, sections)}

-----------------------------------------------------------------------------
(* prepare_statement *)

\* The map of models keeps the first of each tag.
Tagged(tag) == {i \in DOMAIN args : args[i].tag = tag /\ \A j \in 1..i - 1 : args[j].tag # tag}

\* One argument is the model whatever its tag; of several the path's first
\* section names one.
Values(piece) ==
    LET sections == split_section(piece.value)
        Find(root, path) == IF piece.type = "FIELD" THEN {get_plain_val(root, path)}
                            ELSE get_list_val(root, path)
    IN  IF sections = <<>> \/ args = <<>> THEN {Ends("false")}
        ELSE IF Len(args) = 1 THEN Find(args[1].model, sections)
        ELSE IF Tagged(Head(sections)) = {} THEN {Ends("false")}
        ELSE UNION {Find(args[i].model, Tail(sections)) : i \in Tagged(Head(sections))}

\* Each value of a list is followed by a comma, and a last comma is taken back,
\* whose ever it is: of an empty list, the template's.
WithCommas(vals) ==
    [k \in 1..2 * Len(vals) |-> IF k % 2 = 0 THEN Comma ELSE vals[(k + 1) \div 2]]

\* Mutant: the last comma stays.
ListAppendedLast(s, vals) == s \o WithCommas(vals)

ListAppended(s, vals) ==
    LET t == s \o WithCommas(vals) IN IF Last(t) = Comma THEN Front(t) ELSE t

MayNotEscape(vals) == \E i \in DOMAIN vals : vals[i][1] = "quoted" /\ vals[i][2] \in Long

prepare_statement(pattern, call) ==
    /\ ret = "idle"
    /\ template' = pattern /\ args' = call
    /\ done' = 0 /\ sql' = <<>> /\ ret' = "running"

EndWith(outcome) == ret' = outcome /\ UNCHANGED <<template, args, done, sql>>

Appended(s) == sql' = s /\ done' = done + 1 /\ UNCHANGED <<template, args, ret>>

AppendLiteral(piece) ==
    /\ piece.type = "LITERAL"
    /\ Appended(sql \o [i \in DOMAIN piece.value |-> Text(piece.value[i])])

\* back() of an empty statement reads what is not there.
AppendValues(piece) ==
    \E found \in Values(piece) :
        \/ found.ends # "no" /\ EndWith(found.ends)
        \/ MayNotEscape(found.vals) /\ EndWith("false")
        \/ /\ piece.type = "FIELD" /\ found.ends = "no"
           /\ Appended(sql \o found.vals)
        \/ /\ piece.type = "LIST" /\ found.ends = "no"
           /\ IF sql \o found.vals = <<>> THEN EndWith("undefined")
              ELSE Appended(ListAppended(sql, found.vals))

AppendPiece ==
    /\ ret = "running" /\ done < Len(template)
    /\ LET piece == template[done + 1] IN
       \/ AppendLiteral(piece)
       \/ piece.type # "LITERAL" /\ AppendValues(piece)

Return == ret = "running" /\ done = Len(template) /\ EndWith("true")

Idle == template = <<>> /\ args = <<>> /\ done = 0 /\ sql = <<>> /\ ret = "idle"

Next ==
    \/ ret = "idle" /\ \E pattern \in Templates, call \in Calls : prepare_statement(pattern, call)
    \/ AppendPiece \/ Return

Spec == Idle /\ [][Next]_builderVars

-----------------------------------------------------------------------------
(* What docs/reference.md:496-514 promises of a placeholder, read from its  *)
(* table: where a path leads, and which ends are allowed.                    *)

\* One section leads from a model to another, or nowhere.
Lead(m, s) ==
    CASE m.kind = "object" -> Member(m, s)
      [] m.kind = "list"   -> Item(m, s)
      [] OTHER             -> Fail

\* The models the sections of a path lead to.
Leads(m, path) ==
    LET led[n \in 0..Len(path)] == IF n = 0 THEN m ELSE Lead(led[n - 1], path[n])
    IN  led

End(m, path) == Leads(m, path)[Len(path)]

\* Its model and the rest of its path.
Root(path) == IF Len(args) = 1 THEN args[1].model
              ELSE args[CHOOSE i \in Tagged(Head(path)) : TRUE].model
Rest(path) == IF Len(args) = 1 THEN path ELSE Tail(path)
HasRoot(path) == path # <<>> /\ args # <<>> /\ (Len(args) = 1 \/ Tagged(Head(path)) # {})

AllPlain(list) == \A i \in DOMAIN list.items : list.items[i].kind = "plain"

\* The columns of the table: a plain takes any path, a list only the empty one.
Documented(piece) ==
    LET path == split_section(piece.value) IN
    \/ piece.type = "LITERAL"
    \/ /\ HasRoot(path)
       /\ LET root == Root(path)
              end  == End(root, Rest(path))
          IN  \/ piece.type = "FIELD" /\ root.kind = "plain" /\ Len(Rest(path)) <= 1
              \/ piece.type = "FIELD" /\ root.kind = "object" /\ end.kind = "plain"
              \/ /\ piece.type = "LIST" /\ end.kind = "list" /\ AllPlain(end)
                 /\ root.kind = "object" \/ Rest(path) = <<>>

\* The values the table says, as :443-484 writes them: numbers bare, in lists too.
Promised(piece) ==
    LET root == Root(split_section(piece.value))
        end  == End(root, Rest(split_section(piece.value)))
        n    == Len(end.items)
        Plain(p) == Value(p.val, p.quoted)
    IN
    CASE piece.type = "LITERAL" -> [i \in DOMAIN piece.value |-> Text(piece.value[i])]
      [] piece.type = "FIELD"   -> <<Plain(IF root.kind = "plain" THEN root ELSE end)>>
      [] piece.type = "LIST" /\ n = 0 -> <<>>
      [] piece.type = "LIST" /\ n > 0 -> [k \in 1..2 * n - 1 |->
            IF k % 2 = 0 THEN Comma ELSE Plain(end.items[(k + 1) \div 2])]

EmptyList(piece) == piece.type = "LIST" /\ Promised(piece) = <<>>
EndsInComma(piece) == piece.type = "LITERAL" /\ Last(piece.value) = ","

\* Where the code differs from the documentation.  Every value of a list is put
\* in quotes, numbers too (sql_builder.h:152; reference.md:465 and :484 have IN (1, 2)).
Quoted(c) == IF c[1] = "bare" THEN <<"quoted", c[2]>> ELSE c

Written(piece) ==
    IF piece.type = "LIST"
    THEN [k \in DOMAIN Promised(piece) |-> Quoted(Promised(piece)[k])]
    ELSE Promised(piece)

\* #[] of a whole argument (reference.md:507, 508), and an index on the way to a
\* list (:510, :511), which get_list_val reads as the name of a member.
WholeList(piece) == piece.type = "LIST" /\ Rest(split_section(piece.value)) = <<>>

Indexed(piece) ==
    LET rest == Rest(split_section(piece.value)) IN
    piece.type = "LIST" /\ \E i \in DOMAIN rest : rest[i].type = "index"

Misread(piece) == WholeList(piece) \/ Indexed(piece)

\* A statement whose placeholders the table allows is the template with their
\* values in their places: none is lost, doubled or given to another placeholder,
\* whatever stands around it.  Lists differ from the documentation in four ways,
\* and in no other: their values are quoted; a whole argument is refused; an index
\* on the way is undefined, and neither is ever passed over; and an empty list
\* takes a comma of the template with it or, opening the statement, reads before
\* it, so that nothing is said of those.
ValuesInPlace ==
    (/\ ret # "idle"
     /\ \A i \in DOMAIN template : Documented(template[i])
     /\ \A i \in DOMAIN template : EmptyList(template[i]) => i > 1 /\ ~EndsInComma(template[i - 1]))
    => /\ ret = "undefined" => Indexed(template[done + 1])
       /\ ret = "false" => Long # {} \/ WholeList(template[done + 1])
       /\ \A i \in 1..done : ~Misread(template[i])
       /\ sql = FlattenSeq([i \in 1..done |-> Written(template[i])])

\* A field that the table does not allow is refused, never undefined, unless its
\* path meets a null: an object member not set, a null item, or an index beyond
\* the end of its list (sql_builder.cpp:83-116).
FieldsFailSafely ==
    ret = "undefined" /\ template[done + 1].type = "FIELD" =>
        LET path == split_section(template[done + 1].value)
        IN  \E i \in 1..Len(Rest(path)) : Leads(Root(path), Rest(path))[i] = NullPtr
=============================================================================
