----------------------------- MODULE SqlPattern -----------------------------
(***************************************************************************)
(* SqlPattern::explode (src/var_pattern.cpp): the scanner that cuts a SQL  *)
(* template into literals, #{fields} and #[lists], one character a step.   *)
(* The first character it cannot place ends the scan with an error code.   *)
(* Characters are the five tokens and the members of Plain, for all the    *)
(* others in 0..127 (the tables that say what is a token have 128 entries).*)
(***************************************************************************)
EXTENDS Naturals, Sequences, SequencesExt

CONSTANTS
    Plain,      \* characters that are no token
    MaxLen      \* bound: the length of a template

Hash == "#"
Begins == {"{", "["}
Ends   == {"}", "]"}
Tokens == {Hash} \cup Begins \cup Ends

\* token_pairs
End(token) == IF token = "{" THEN "}" ELSE "]"
KindOf(token) == IF token = "[" THEN "LIST" ELSE "FIELD"

\* Every token is one and nothing else is.
PlainIsNoToken == Plain # {} /\ Plain \cap Tokens = {}

VARIABLES
    pattern,    \* the template
    read,       \* how many characters the loop has taken
    state,      \* "INIT", "MATCH_TOKEN" or "FETCH"
    token,      \* the begin token of the field being fetched
    section,    \* the characters of the piece being read
    pieces,     \* the pieces so far
    err         \* "scanning" until the scan returns

vars == <<pattern, read, state, token, section, pieces, err>>

Init ==
    /\ pattern \in SeqOf(Plain \cup Tokens, MaxLen)
    /\ read = 0 /\ state = "INIT" /\ token = "none"
    /\ section = <<>> /\ pieces = <<>> /\ err = "scanning"

\* The loop takes the next character, which is one of cs.
Take(cs) ==
    /\ err = "scanning"
    /\ read < Len(pattern)
    /\ pattern[read + 1] \in cs
    /\ read' = read + 1
    /\ UNCHANGED pattern

c == pattern[read + 1]

Piece(kind) == [type |-> kind, value |-> section]

\* A literal is a piece unless there is nothing of it.
Flushed == IF section = <<>> THEN pieces ELSE Append(pieces, Piece("LITERAL"))

Collect ==
    /\ state \in {"INIT", "FETCH"}
    /\ Take(Plain)
    /\ section' = Append(section, c)
    /\ UNCHANGED <<state, token, pieces, err>>

\* Mutant: the literal before a field is dropped.
StartTokenDropping ==
    /\ state = "INIT"
    /\ Take({Hash})
    /\ section' = <<>>
    /\ state' = "MATCH_TOKEN"
    /\ UNCHANGED <<token, pieces, err>>

StartToken ==
    /\ state = "INIT"
    /\ Take({Hash})
    /\ pieces' = Flushed
    /\ section' = <<>>
    /\ state' = "MATCH_TOKEN"
    /\ UNCHANGED <<token, err>>

OpenField ==
    /\ state = "MATCH_TOKEN"
    /\ Take(Begins)
    /\ token' = c
    /\ state' = "FETCH"
    /\ UNCHANGED <<section, pieces, err>>

\* Mutant: any end token closes a field.
CloseFieldAnyhow ==
    /\ state = "FETCH"
    /\ section # <<>>
    /\ Take(Ends)
    /\ pieces' = Append(pieces, Piece(KindOf(token)))
    /\ section' = <<>>
    /\ state' = "INIT"
    /\ UNCHANGED <<token, err>>

CloseField ==
    /\ state = "FETCH"
    /\ section # <<>>
    /\ Take({End(token)})
    /\ pieces' = Append(pieces, Piece(KindOf(token)))
    /\ section' = <<>>
    /\ state' = "INIT"
    /\ UNCHANGED <<token, err>>

Fails(code) == err' = code /\ UNCHANGED <<state, token, section, pieces>>

IllegalToken == state = "INIT"        /\ Take(Begins \cup Ends)           /\ Fails("ILL_TOKEN")
IllegalBegin == state = "MATCH_TOKEN" /\ Take((Plain \cup Tokens) \ Begins) /\ Fails("ILL_BEGIN")
IllegalEnd   == state = "FETCH"       /\ Take(Begins \cup {Hash})         /\ Fails("ILL_END")
Unmatched    == state = "FETCH"       /\ Take(Ends \ {End(token)})        /\ Fails("UNMATCH")

NoneField ==
    /\ state = "FETCH"
    /\ section = <<>>
    /\ Take({End(token)})
    /\ Fails("NONE_FIELD")

\* Mutant: a template may end inside a field.
FinishAnywhere ==
    /\ err = "scanning" /\ read = Len(pattern)
    /\ pieces' = Flushed
    /\ err' = IF state = "MATCH_TOKEN" THEN "ILL_BEGIN" ELSE "OK"
    /\ UNCHANGED <<pattern, read, state, token, section>>

Finish ==
    /\ err = "scanning" /\ read = Len(pattern)
    /\ \/ state = "INIT"        /\ err' = "OK"        /\ pieces' = Flushed
       \/ state = "MATCH_TOKEN" /\ err' = "ILL_BEGIN" /\ UNCHANGED pieces
       \/ state = "FETCH"       /\ err' = "ILL_END"   /\ UNCHANGED pieces
    /\ UNCHANGED <<pattern, read, state, token, section>>

Next ==
    \/ Collect \/ StartToken \/ OpenField \/ CloseField \/ Finish
    \/ IllegalToken \/ IllegalBegin \/ IllegalEnd \/ Unmatched \/ NoneField

Spec == Init /\ [][Next]_vars

-----------------------------------------------------------------------------
(* The language of templates, stated without the scanner.                   *)

AllIn(s, i, j, S) == \A k \in i..j : s[k] \in S

\* The characters from i to j are one whole field.
FieldAt(s, i, j) ==
    /\ i + 3 <= j
    /\ s[i] = Hash /\ s[i + 1] \in Begins /\ s[j] = End(s[i + 1])
    /\ AllIn(s, i + 2, j - 1, Plain)

\* Every token of a template is part of a whole field.
WellFormed(s) ==
    \A k \in DOMAIN s : s[k] \in Plain \/
        \E i \in 1..k : \E j \in k..Len(s) : FieldAt(s, i, j)

\* What can still be read: any one of these, after a prefix of a template.
Completions == {<<>>} \cup {<<b, p, End(b)>> : b \in Begins, p \in Plain}
    \cup {<<p, e>> : p \in Plain, e \in Ends} \cup {<<e>> : e \in Ends}

Viable(s) == \E t \in Completions : WellFormed(s \o t)

\* The text of a piece, and of pieces.
Written(piece) ==
    CASE piece.type = "LITERAL" -> piece.value
      [] piece.type = "FIELD"   -> <<Hash, "{">> \o piece.value \o <<"}">>
      [] piece.type = "LIST"    -> <<Hash, "[">> \o piece.value \o <<"]">>

Text(ps) ==
    LET Upto[i \in 0..Len(ps)] == IF i = 0 THEN <<>> ELSE Upto[i - 1] \o Written(ps[i])
    IN  Upto[Len(ps)]

\* What the scanner has read and not yet made a piece of.
Unfinished ==
    CASE state = "INIT"        -> section
      [] state = "MATCH_TOKEN" -> <<Hash>>
      [] state = "FETCH"       -> <<Hash, token>> \o section

\* No character is lost, doubled or moved: at every step the pieces and what
\* is being read spell what was read, and in the end the pieces spell the
\* template SqlBuilder was given (var_pattern.cpp:59-164).  They are its coarsest
\* cut: none is empty and two literals never meet.
PiecesSpellPattern ==
    /\ err = "scanning" => Text(pieces) \o Unfinished = SubSeq(pattern, 1, read)
    /\ err = "OK" => Text(pieces) = pattern
    /\ \A i \in DOMAIN pieces :
         /\ pieces[i].value # <<>>
         /\ pieces[i].type = "LITERAL" /\ i > 1 => pieces[i - 1].type # "LITERAL"

\* explode accepts the templates and nothing else.
AcceptsTemplates == err # "scanning" => (err = "OK" <=> WellFormed(pattern))

\* An error is reported at the first character after which no template can
\* follow, never one later; only a template that breaks off inside a field is
\* refused at its end.
EarliestError ==
    /\ err = "scanning" => Viable(SubSeq(pattern, 1, read))
    /\ err \notin {"scanning", "OK"} =>
           /\ read > 0 => Viable(SubSeq(pattern, 1, read - 1))
           /\ Viable(SubSeq(pattern, 1, read)) =>
                  read = Len(pattern) /\ err \in {"ILL_BEGIN", "ILL_END"}
=============================================================================
