---------------------------- MODULE SessionContract ----------------------------
(***************************************************************************)
(* What a graphical session promises to whoever starts and watches it,     *)
(* with no mention of managers, supervisor or recovery manager.  A client  *)
(* sees a phase and the set of components that have a process.             *)
(*                                                                         *)
(*   starting    the stack is being brought up for the first time          *)
(*   gui         both components were seen ready and are supervised        *)
(*   recovering  a component was lost and a replacement is being brought up*)
(*   failed      given up: processes go away and none comes back           *)
(*   ended       the daemon has finished and has left no process behind    *)
(***************************************************************************)
CONSTANT Parts

VARIABLES phase, running

cvars == <<phase, running>>

Phases == {"starting", "gui", "recovering", "failed", "ended"}

ContractTypeOK == phase \in Phases /\ running \subseteq Parts

ContractInit == phase = "starting" /\ running = {}

\* A process is only ever started on behalf of a session coming up, one at
\* a time, and after it went away; a lost or stopped one goes in any phase.
StartPart ==
  /\ phase \in {"starting", "recovering"}
  /\ \E c \in Parts \ running : running' = running \cup {c}
  /\ UNCHANGED phase

LosePart == running' \subseteq running /\ UNCHANGED phase

\* The stack is announced once every part of it has been started.
ComeUp ==
  /\ phase \in {"starting", "recovering"} /\ running = Parts
  /\ phase' = "gui" /\ UNCHANGED running

\* Parts of a lost session may already be gone when recovery takes over.
Degrade ==
  /\ phase = "gui" /\ phase' = "recovering" /\ UNCHANGED running

GiveUp ==
  /\ phase \in {"starting", "gui", "recovering"}
  /\ phase' = "failed" /\ running' \subseteq running

End ==
  /\ phase # "ended"
  /\ phase' = "ended" /\ running' = {}

ContractNext == StartPart \/ LosePart \/ ComeUp \/ Degrade \/ GiveUp \/ End

ContractSpec == ContractInit /\ [][ContractNext]_cvars
=============================================================================
