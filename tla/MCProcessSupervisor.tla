------------------------- MODULE MCProcessSupervisor -------------------------
(* Two threads that stop processes, of which one or both start some, and a   *)
(* reaper, over a kernel with few pids.                                      *)
EXTENDS ProcessSupervisor

CONSTANTS c1, c2, r1

One == {c1}
Two == {c1, c2}
Reaper == {r1}
=============================================================================
