----------------------------- MODULE ModelTree -----------------------------
(* Arguments of a statement and paths into them, as SqlBuilder and whoever      *)
(* calls it see them.                                                           *)

\* A model by its kind: plain (quoted when it is a string or a char), object,
\* list, or null for a pointer to nothing.
NullPtr == [kind |-> "null"]
PlainOf(v, quoted) == [kind |-> "plain", val |-> v, quoted |-> quoted]
ObjectOf(members) == [kind |-> "object", members |-> members]
ListOf(items) == [kind |-> "list", items |-> items]

\* A section of a path: a key, an index, or nothing between two dots.
Key(k) == [type |-> "key", key |-> k]
Index(n) == [type |-> "index", n |-> n]
Blank == [type |-> "blank"]
=============================================================================
