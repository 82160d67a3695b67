------------------------------ MODULE MCProcess ------------------------------
(* Two threads share the object and call any of its methods.                *)
EXTENDS Process

CONSTANTS t1, t2

MCThreads == {t1, t2}
=============================================================================
