------------------------------ MODULE MCRouter ------------------------------
(* Two services whose endpoints overlap in every way: one API twice, two      *)
(* variable names in one place, a literal beside a variable, one name twice,  *)
(* a trailing slash, a variable repeated.                                     *)
EXTENDS Router

Object(members) == [isPlain |-> FALSE, members |-> members]
OnePlain == [isPlain |-> TRUE, members |-> {}]

E(service, sign, method, api, path_vars, body) ==
    [service |-> service, sign |-> sign, method |-> method, func |-> sign, api |-> api,
     params |-> {"x"}, vars |-> path_vars, body |-> body]

MCServices == {"s1", "s2"}
MCTexts == {"", "a", "b", "x", "y", "z"}

MCEndpoints == {
    E("s1", "all",  "GET",  <<Lit("a")>>,                     Object({"x"}),      "void"),
    E("s1", "one",  "GET",  <<Lit("a"), Var("x")>>,           Object({"x", "y"}), "void"),
    E("s1", "del",  "POST", <<Lit("a"), Var("y")>>,           Object({"y"}),      "object"),
    E("s1", "sub",  "GET",  <<Lit("a"), Var("x"), Lit("b")>>, OnePlain,           "void"),
    E("s1", "deep", "GET",  <<Lit("a"), Lit("b"), Var("z")>>, Object({"z"}),      "void"),
    E("s2", "sum",  "GET",  <<Lit("a"), Lit("b")>>,           OnePlain,           "plain"),
    E("s2", "one",  "POST", <<Lit("a"), Var("y"), Var("x")>>, OnePlain,           "plain")
}

MCVarOrder == <<"x", "y", "z">>

MCEdges == {Lit("a"), Lit("b"), Lit(""), Var("x")}
MCPaths == {p \in SeqOf(MCEdges, 3) : p # <<>> /\ p[1] = Lit("a")}

R(path, method, query, body) == [path |-> path, method |-> method, query |-> query, body |-> body]
Query == [x |-> Lit("q"), z |-> Lit("q")]

\* Every path, and the longer ones with bodies that some handlers refuse.
MCRequests ==
    {R(p, "GET", <<>>, "empty") : p \in MCPaths}
    \cup {R(p, "POST", Query, "text") : p \in {q \in MCPaths : Len(q) = 2}}
    \cup {R(<<Lit("a"), Lit("b")>>, "POST", Query, "json")}

\* One API with a handler for each method.
BothMethods == {
    E("s1", "list", "GET",  <<Lit("a")>>, Object({}), "void"),
    E("s1", "make", "POST", <<Lit("a")>>, Object({}), "void")
}
BothRequests == {R(p, m, <<>>, "empty") : p \in MCPaths, m \in {"GET", "POST"}}
OneService == {"s1"}
=============================================================================
