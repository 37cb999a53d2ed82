---------------------------- MODULE MCSimplePool ----------------------------
(***************************************************************************)
(* Two callers, and two workers: a caller that returns meets the other's   *)
(* task in the next queue, and connect can fail between the workers.       *)
(***************************************************************************)
EXTENDS SimplePool, TLC

CONSTANTS a, b, w1, w2

MCCallers == {a, b}
MCWorkers == {w1, w2}

\* Sound for the safety properties: no definition tells one caller, or one
\* worker, from another.
Interchangeable == Permutations(MCCallers) \cup Permutations(MCWorkers)

\* Bound: no further than the step that adds a second misuse to a first.  The
\* theorems about this module say the same of every mixture of them.
OneMisuse == Cardinality(misuse) <= 1
=============================================================================
