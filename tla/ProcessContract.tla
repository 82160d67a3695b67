---------------------------- MODULE ProcessContract ----------------------------
(***************************************************************************)
(* What a Process object is to those who share it, and what the supervisor *)
(* and the managers are built on: every method takes effect at once, when  *)
(* it returns, however long it took and whatever ran beside it.            *)
(***************************************************************************)
CONSTANT Users

VARIABLES
  life,  \* the process: created, failed to start, alive, a zombie, or exited
  doing  \* the method each user is in

pvars == <<life, doing>>

Lives == {"created", "failed", "alive", "zombie", "exited"}
SharedMethods == {"start", "stop", "wait", "poll"}

ContractInit == life = "created" /\ doing = [u \in Users |-> "nothing"]

\* Nobody has the object once it is being dropped.
Ask(u) ==
  /\ doing[u] = "nothing" /\ \A v \in Users : doing[v] \notin {"drop", "gone"}
  /\ \E m \in SharedMethods : doing' = [doing EXCEPT ![u] = m]
  /\ UNCHANGED life

AskDrop(u) ==
  /\ \A v \in Users : doing[v] = "nothing"
  /\ doing' = [doing EXCEPT ![u] = "drop"]
  /\ UNCHANGED life

Answer(u, m) == doing[u] = m /\ doing' = [doing EXCEPT ![u] = "nothing"]

\* A process is started once.
StartAnswers(u) ==
  /\ Answer(u, "start")
  /\ life' \in IF life = "created" THEN {"alive", "failed"} ELSE {life}

\* stop and kill leave nothing that runs, has to be reaped or could be started.
StopAnswers(u) ==
  /\ Answer(u, "stop")
  /\ life' = IF life = "failed" THEN "failed" ELSE "exited"

\* wait returns when the process has ended or was never started.
WaitAnswers(u) ==
  /\ Answer(u, "wait") /\ life # "alive"
  /\ life' = IF life = "zombie" THEN "exited" ELSE life

PollAnswers(u) ==
  /\ Answer(u, "poll")
  /\ life' = IF life = "zombie" THEN "exited" ELSE life

\* The destructor leaves neither a child nor a zombie.
DropAnswers(u) ==
  /\ doing[u] = "drop" /\ doing' = [doing EXCEPT ![u] = "gone"]
  /\ life' = IF life \in {"alive", "zombie"} THEN "exited" ELSE life

Dies == life = "alive" /\ life' = "zombie" /\ UNCHANGED doing

ContractNext ==
  \/ \E u \in Users :
       \/ Ask(u) \/ AskDrop(u) \/ StartAnswers(u) \/ StopAnswers(u)
       \/ WaitAnswers(u) \/ PollAnswers(u) \/ DropAnswers(u)
  \/ Dies

ContractSpec == ContractInit /\ [][ContractNext]_pvars
=============================================================================
