--------------------------- MODULE MCRecoveryBudget ---------------------------
(* Two threads, a budget of two attempts in a window of three ticks.         *)
EXTENDS RecoveryBudget

CONSTANTS c1, c2

MCCallers == {c1, c2}

Stepped == {0, Window + 1}
AnyPolicy == {"ComponentRestart", "FailSession"}
=============================================================================
