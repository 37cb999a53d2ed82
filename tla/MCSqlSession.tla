---------------------------- MODULE MCSqlSession ----------------------------
(* Two statements on a connection that was established.                     *)
EXTENDS SqlSession

CONSTANTS s1, s2

MCStmts == {s1, s2}

ConnectedInit == Init /\ up = TRUE

ConnectedSpec == ConnectedInit /\ [][Next]_vars
=============================================================================
