----------------------------- MODULE CallService -----------------------------
(***************************************************************************)
(* What the pool promises the caller of insert, update, del or execute:    *)
(* between the call and its return the statement is handed to MySQL at     *)
(* most Tries times, never again after an attempt that succeeded, and the  *)
(* reply tells the truth about the last attempt.  "rows" stands for a row  *)
(* count, which only a success earns; "-1" follows Tries failures, or no   *)
(* attempt at all.  A failed attempt may have been executed: how often     *)
(* a statement takes effect is not promised here (SqlSession counts it).   *)
(***************************************************************************)
EXTENDS Naturals

CONSTANTS Callers, Null, Tries

VARIABLES
    phase,      \* of each caller: "idle", "pending" before the first attempt,
                \* "ok" or "failed" as its latest attempt went
    left,       \* the attempts its call has left
    reply

callVars == <<phase, left, reply>>

CallInit ==
    /\ phase = [c \in Callers |-> "idle"]
    /\ left = [c \in Callers |-> 0]
    /\ reply = [by |-> Null, what |-> "none"]

CallBegins(c) ==
    /\ phase[c] = "idle"
    /\ phase' = [phase EXCEPT ![c] = "pending"]
    /\ left' = [left EXCEPT ![c] = Tries]
    /\ UNCHANGED reply

HandedOver(c) ==
    /\ phase[c] \in {"pending", "failed"}
    /\ left[c] > 0
    /\ left' = [left EXCEPT ![c] = @ - 1]
    /\ \E outcome \in {"ok", "failed"} : phase' = [phase EXCEPT ![c] = outcome]
    /\ UNCHANGED reply

CallReturns(c) ==
    /\ phase[c] # "idle"
    /\ phase[c] = "failed" => left[c] = 0
    /\ phase' = [phase EXCEPT ![c] = "idle"]
    /\ left' = [left EXCEPT ![c] = 0]
    /\ reply' = [by |-> c, what |-> IF phase[c] = "ok" THEN "rows" ELSE "-1"]

CallNext == \E c \in Callers : CallBegins(c) \/ HandedOver(c) \/ CallReturns(c)

CallSpec == CallInit /\ [][CallNext]_callVars
=============================================================================
