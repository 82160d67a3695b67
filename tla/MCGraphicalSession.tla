-------------------------- MODULE MCGraphicalSession --------------------------
(* Every setting of the switches of RecoveryConfig, the ones main() leaves at *)
(* their defaults among them.                                                *)
EXTENDS GraphicalSession

EveryConfig == [enabled : BOOLEAN, component : BOOLEAN, session : BOOLEAN]
=============================================================================
