------------------------------ MODULE MCModels ------------------------------
(* A double is its two halves of four bytes: the second, with sign and        *)
(* exponent, tells doubles apart, and the first is zero, or a float's bits.    *)
(* Documents have each member right, null or of the wrong type, and arrays     *)
(* shorter than, as long as and longer than a list can be.                     *)
EXTENDS Models, TLC

CONSTANTS Strings, s0, s1, \* values that are no doubles
          Other            \* JSON of a type no member has

\* Of doubles that nobody tells apart, one is enough.
OneDouble == {<<"float", 1>>}
TwoDoubles == {"zero", "float"} \X {1, 2}

MCVals == Strings \cup Doubles
MCOverlaid == [p \in Doubles \X Doubles |-> <<"float", p[1][2]>>]

Doc(plain, isArray, list, sub) == [plain |-> plain, isArray |-> isArray, list |-> list, sub |-> sub]
ADouble == <<"float", 1>>
ZeroDouble == <<"zero", 1>>

MCDocs == {
    Doc(Null, FALSE, <<>>, Null),
    Doc(Other, TRUE, <<s1, Other, s0>>, s1),
    Doc(ADouble, TRUE, <<Null, ADouble>>, Other)
}

Symmetry == Permutations(Addr) \cup Permutations(Objs)
=============================================================================
