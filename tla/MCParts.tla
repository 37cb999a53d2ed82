------------------------------- MODULE MCParts -------------------------------
(* The parts on small inputs of every kind.                                   *)
EXTENDS Parts, Integers, SequencesExt, ModelTree

\* A list has four nodes: two inner ones, so that detach meets the head, the
\* tail, the middle and the last node left.

\* Every SQL template of up to MaxTemplate characters: a literal and a field,
\* or two tokens in every wrong order.
MCChars == {"a"}

\* Every short path, well formed or not, and longer ones of whole variables: two
\* of them, the same one twice, doubled and trailing slashes.
MCUrlChars == {"a", "b"}
MCApis == SeqOf({"a", "/", "{", "}"}, 5) \cup
    {FlattenSeq(ws) : ws \in SeqOf({<<"/">>, <<"a">>, <<"{", "a", "}">>, <<"{", "b", "}">>}, 5)}
MCRequests == SeqOf({"a", "b", "/"}, 5)

-----------------------------------------------------------------------------
(* A statement's arguments: objects with a string p, a list l, an object o     *)
(* and a list lo, or a plain or a list alone; with nulls and empty lists in    *)
(* every place.                                                                *)

Num == PlainOf("1", FALSE)
Str == PlainOf("s", TRUE)
Inner(l) == ObjectOf([p |-> Num, l |-> ListOf(l)])
Outer(l, o, lo) == ObjectOf([p |-> Str, l |-> ListOf(l), o |-> o, lo |-> ListOf(lo)])

Args == {
    Outer(<<>>, NullPtr, <<Inner(<<Str>>), NullPtr>>),
    Outer(<<Num, Str>>, Inner(<<Num>>), <<ListOf(<<Str>>)>>),
    Outer(<<Num, NullPtr>>, Inner(<<>>), <<>>),
    Num, ListOf(<<Num, Str>>)}

Arg(tag, m) == [tag |-> Key(tag), model |-> m]
MCCalls == {<<>>} \cup {<<Arg("", m)>> : m \in Args}
    \cup {<<Arg("p", Str), Arg(t, m)>> : t \in {"p", "l"}, m \in Args}

\* Members and items, as deep as they go.
Inside(ms) == ms \cup UNION {
    CASE m.kind = "object" -> {m.members[k] : k \in DOMAIN m.members}
      [] m.kind = "list"   -> ToSet(m.items)
      [] OTHER -> {} : m \in ms}
MCTrees == Inside(Inside(Inside(Args)))

Paths == {
    <<Blank>>, <<Key("p")>>, <<Key("x")>>, <<Key("l")>>, <<Index(1)>>,
    <<Key("l"), Index(1)>>, <<Key("l"), Key("p")>>, <<Key("l"), Key("l")>>,
    <<Key("o"), Key("p")>>, <<Key("o"), Blank, Key("l")>>, <<Key("p"), Key("l")>>,
    <<Key("lo"), Index(0)>>, <<Key("lo"), Index(0), Key("l")>>, <<Key("lo"), Index(1), Key("p")>>,
    <<Key("l"), Key("o"), Key("p")>>}

Literals == {[type |-> "LITERAL", value |-> v] : v \in {<<"x">>, <<"x", ",">>}}
Fields == {[type |-> "FIELD", value |-> p] : p \in Paths}
Lists == {[type |-> "LIST", value |-> p] : p \in Paths}

\* A placeholder alone, after a literal, between two, and two in a row.
MCTemplates ==
    {<<f>> : f \in Fields \cup Lists}
    \cup {<<a, f, b>> : a, b \in Literals, f \in Lists}
    \cup {<<f, a, g>> : f \in Fields, a \in Literals, g \in {l \in Lists : Len(l.value) = 1}}
    \cup {<<f, g>> : f, g \in {l \in Lists : Len(l.value) < 3 /\ l.value # <<Blank>>}}

\* Strings are escaped.
MCLong == {"s"}

-----------------------------------------------------------------------------
(* Answers without a set, without rows, with two rows, a NULL, a column no     *)
(* member is named after, and one column twice.                                *)

Data(names, rows) == [null |-> FALSE, data |-> [names |-> names, rows |-> rows]]
MCAnswers == {
    [null |-> TRUE], [null |-> FALSE, data |-> Null],
    Data(<<"c">>, <<>>),
    Data(<<"c", "d">>, <<<<1, 2>>, <<3, 4>>>>),
    Data(<<"c", "x", "d">>, <<<<1, 2, 3>>>>),
    Data(<<"d", "d">>, <<<<1, 2>>>>),
    Data(<<"c">>, <<<<5>>, <<Null>>>>)}

MCMembers == {"c", "d"}
MCNames == {"c", "d", "x"}
MCCells == 1..5 \cup {Null}
=============================================================================
