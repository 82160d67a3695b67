------------------------- MODULE MCComponentManagers -------------------------
(* Two threads call the managers and a third one reaps.                     *)
EXTENDS ComponentManagers

CONSTANTS d1, d2, r

MCDrivers == {d1, d2}
MCReapers == {r}
=============================================================================
