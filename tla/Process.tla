------------------------------- MODULE Process -------------------------------
(***************************************************************************)
(* One Process object, used by several threads, over the kernel's view of  *)
(* the child it spawned.  Every method runs under the object's mutex_ from *)
(* its first line to its last, sleeps and blocking waits included, so what *)
(* happens between two system calls of one method is seen by the kernel    *)
(* and the child only.                                                     *)
(*                                                                         *)
(* The child leads a process group of its own (setpgid), in which it may   *)
(* leave a helper; signals go to the group.  Whether stop() and kill() run *)
(* into their timeout is open.  waitpid is restarted after a signal        *)
(* (SA_RESTART) and only this object waits for the child, so the fallback  *)
(* of kill_locked for a failing waitpid is unreachable and left out.       *)
(***************************************************************************)
EXTENDS Naturals, FiniteSets

CONSTANTS
  Threads,   \* threads that hold the shared_ptr
  Methods,   \* methods they may call, a subset of AllMethods
  MaxCalls   \* bound on the number of calls

AllMethods == {"start", "stop", "kill", "wait", "poll"}

NoThread == "nobody"

ASSUME ProcessAssumption ==
  /\ Methods \subseteq AllMethods /\ MaxCalls \in Nat
  /\ NoThread \notin Threads

VARIABLES
  state,     \* state_
  recorded,  \* exit_info_ has a value
  mutex,     \* the thread that holds mutex_
  at,        \* what each thread is doing
  calls,     \* calls made so far
  child,     \* the kernel's process: "none", "alive", "zombie", "reaped"
  helper,    \* a member of the child's group: "none", "alive", "dead"
  deaf,      \* which of them ignore SIGTERM
  term,      \* which of them were sent SIGTERM
  doomed,    \* which of them were sent SIGKILL
  stray      \* history: a call named a pid that had been given back

object == <<state, recorded, mutex, at>>
kernel == <<child, helper, deaf, term, doomed>>
vars == <<object, calls, kernel, stray>>

Group == {"child", "helper"}

\* A thread between two system calls of a method.
Inside(t) == at[t] \in {"spawning", "grace", "killing", "waiting", "destroying"}
-----------------------------------------------------------------------------
(* Plausible bugs, each a mutated form of the definition its comment names. *)

\* Ended: stop() and kill() do not look at what wait() or poll() found.
EndedNever == FALSE

\* ForceKill: after the grace period SIGTERM is sent once more.
ForceKillTerm == term' = term \cup {"child"} /\ UNCHANGED doomed

\* Record: the state is changed, the exit information forgotten.
RecordNothing == state' = "EXITED" /\ UNCHANGED recorded

\* Goes: the mutex is given up for a sleep or a blocking wait.
GoesUnlocked(t, place) == at' = [at EXCEPT ![t] = place] /\ mutex' = NoThread

\* Running: the destructor kills nothing.
RunningNever == FALSE
-----------------------------------------------------------------------------
\* pid_ > 0.  A spawn that fails reaps its child itself and sets no pid.
HasPid == child # "none"

Ended == state \in {"EXITED", "FAILED"}
Running == state \in {"RUNNING", "STARTING"}
Unwaited == ~recorded
StartRefused == state # "CREATED"

Enter(t, method) == at[t] = method /\ mutex = NoThread

Goes(t, place) == at' = [at EXCEPT ![t] = place] /\ mutex' = t

Returns(t) ==
  at' = [at EXCEPT ![t] = IF @ = "destroy" THEN "gone" ELSE "idle"] /\ mutex' = NoThread

\* kill(-pid) and waitpid(pid) are meant for a child that was not waited for.
Names == stray' = (stray \/ child = "reaped")

Record == state' = "EXITED" /\ recorded' = TRUE

\* waitpid finds the zombie.
Reap == child = "zombie" /\ child' = "reaped" /\ UNCHANGED <<helper, deaf, term, doomed>>

\* kill(-pid) reaches who is in the group by then.
Members == {p \in Group : p = "child" \/ helper = "alive"}

GracefulStop == term' = term \cup Members /\ UNCHANGED doomed
ForceKill == doomed' = doomed \cup Members /\ UNCHANGED term

-----------------------------------------------------------------------------
\* A thread calls a method; nobody does once the destructor runs.
Call(t) ==
  /\ at[t] = "idle" /\ calls < MaxCalls
  /\ \A u \in Threads : at[u] \notin {"destroy", "destroying", "gone"}
  /\ \E method \in Methods : at' = [at EXCEPT ![t] = method]
  /\ calls' = calls + 1
  /\ UNCHANGED <<state, recorded, mutex, kernel, stray>>

\* The last shared_ptr is dropped: no other thread is in a method.
Drop(t) ==
  /\ \A u \in Threads : at[u] = "idle"
  /\ at' = [at EXCEPT ![t] = "destroy"]
  /\ UNCHANGED <<state, recorded, mutex, calls, kernel, stray>>

StartEnter(t) ==
  /\ Enter(t, "start")
  /\ IF StartRefused
       THEN Returns(t) /\ UNCHANGED state
       ELSE \/ Goes(t, "spawning") /\ state' = "STARTING"
            \/ Returns(t) /\ state' = "FAILED"            \* spec_.validate()
  /\ UNCHANGED <<recorded, calls, kernel, stray>>

\* platform::spawn_process returns after the child's execve.
Spawned(t) ==
  /\ at[t] = "spawning"
  /\ state' = "RUNNING" /\ child' = "alive" /\ deaf' \in SUBSET Group
  /\ Returns(t)
  /\ UNCHANGED <<recorded, calls, helper, term, doomed, stray>>

SpawnFails(t) ==
  /\ at[t] = "spawning"
  /\ state' = "FAILED"
  /\ Returns(t)
  /\ UNCHANGED <<recorded, calls, kernel, stray>>

\* stop() and kill() of a process that has ended, or was never started.
NothingToStop(t) ==
  /\ \E method \in {"stop", "kill"} : Enter(t, method)
  /\ \/ Ended /\ UNCHANGED state
     \/ ~Ended /\ ~HasPid /\ state' = "EXITED"
  /\ Returns(t)
  /\ UNCHANGED <<recorded, calls, kernel, stray>>

StopEnter(t) ==
  /\ Enter(t, "stop") /\ ~Ended /\ HasPid
  /\ state' = "STOPPING" /\ GracefulStop /\ Names
  /\ Goes(t, "grace")
  /\ UNCHANGED <<recorded, calls, child, helper, deaf>>

\* kill_locked up to its SIGKILL, by kill(), by the destructor of a running
\* process, and by stop_locked when the grace period is over.
KillEnter(t) ==
  /\ \/ Enter(t, "kill") /\ ~Ended /\ HasPid
     \/ Enter(t, "destroy") /\ Running
     \/ at[t] = "grace"
  /\ state' = "STOPPING" /\ ForceKill /\ Names
  /\ Goes(t, IF at[t] = "destroy" THEN "destroying" ELSE "killing")
  /\ UNCHANGED <<recorded, calls, child, helper, deaf>>

\* The destructor of a process that does not run.
NothingToDestroy(t) ==
  /\ Enter(t, "destroy") /\ ~Running
  /\ Returns(t)
  /\ UNCHANGED <<state, recorded, calls, kernel, stray>>

\* The polling loops of stop and kill and the blocking waits of kill and wait
\* end alike when waitpid answers.
Collect(t) ==
  /\ at[t] \in {"grace", "killing", "destroying", "waiting"}
  /\ Reap /\ Record
  /\ at' = [at EXCEPT ![t] = IF @ = "destroying" THEN "gone" ELSE "idle"]
  /\ mutex' = NoThread
  /\ UNCHANGED <<calls, stray>>

\* wait() with an answer at hand, or nothing to wait for.
WaitAnswered(t) ==
  /\ Enter(t, "wait") /\ (~Unwaited \/ ~HasPid)
  /\ Returns(t)
  /\ UNCHANGED <<state, recorded, calls, kernel, stray>>

WaitEnter(t) ==
  /\ Enter(t, "wait") /\ Unwaited /\ HasPid
  /\ Names
  /\ Goes(t, "waiting")
  /\ UNCHANGED <<state, recorded, calls, kernel>>

PollAnswered(t) ==
  /\ Enter(t, "poll") /\ (~Unwaited \/ ~HasPid)
  /\ Returns(t)
  /\ UNCHANGED <<state, recorded, calls, kernel, stray>>

Poll(t) ==
  /\ Enter(t, "poll") /\ Unwaited /\ HasPid
  /\ Names
  /\ \/ Reap /\ Record
     \/ child # "zombie" /\ UNCHANGED <<state, recorded, kernel>>
  /\ Returns(t)
  /\ UNCHANGED calls

-----------------------------------------------------------------------------
(* The kernel and the program that was started.                            *)

\* The child forks a process that stays in its group.  With a SIGKILL pending
\* fork(2) makes none.
Fork ==
  /\ child = "alive" /\ helper = "none" /\ "child" \notin doomed
  /\ helper' = "alive"
  /\ UNCHANGED <<object, calls, child, deaf, term, doomed, stray>>

\* The child exits, crashes, or dies of a signal.
ChildDies ==
  /\ child = "alive" /\ child' = "zombie"
  /\ UNCHANGED <<object, calls, helper, deaf, term, doomed, stray>>

HelperDies ==
  /\ helper = "alive" /\ helper' = "dead"
  /\ UNCHANGED <<object, calls, child, deaf, term, doomed, stray>>

\* SIGKILL kills; SIGTERM kills whoever does not ignore it.
Dying(p) == p \in doomed \/ (p \in term /\ p \notin deaf)

-----------------------------------------------------------------------------
Init ==
  /\ state = "CREATED" /\ recorded = FALSE /\ mutex = NoThread
  /\ at = [t \in Threads |-> "idle"] /\ calls = 0
  /\ child = "none" /\ helper = "none"
  /\ deaf = {} /\ term = {} /\ doomed = {} /\ stray = FALSE

\* What a thread does inside a method goes on by itself.
Step(t) ==
  \/ StartEnter(t) \/ Spawned(t) \/ SpawnFails(t)
  \/ NothingToStop(t) \/ StopEnter(t) \/ KillEnter(t)
  \/ NothingToDestroy(t) \/ Collect(t)
  \/ WaitAnswered(t) \/ WaitEnter(t) \/ PollAnswered(t) \/ Poll(t)

Next ==
  \/ \E t \in Threads : Call(t) \/ Drop(t) \/ Step(t)
  \/ Fork \/ ChildDies \/ HelperDies

Spec == Init /\ [][Next]_vars

\* Threads are scheduled, and signals that kill do.  A child left alone need
\* never end.
FairSpec ==
  /\ Spec
  /\ \A t \in Threads : WF_vars(Step(t))
  /\ WF_vars(Dying("child") /\ ChildDies)
-----------------------------------------------------------------------------
\* Types, and the one holder of the mutex: the thread inside a method.
TypeOK ==
  /\ state \in {"CREATED", "STARTING", "RUNNING", "STOPPING", "EXITED", "FAILED"}
  /\ recorded \in BOOLEAN /\ stray \in BOOLEAN /\ calls \in Nat
  /\ at \in [Threads -> AllMethods \cup
             {"idle", "spawning", "grace", "killing", "waiting",
              "destroy", "destroying", "gone"}]
  /\ mutex \in Threads \cup {NoThread}
  /\ \A t \in Threads : Inside(t) <=> mutex = t
  /\ child \in {"none", "alive", "zombie", "reaped"}
  /\ helper \in {"none", "alive", "dead"}
  /\ deaf \subseteq Group /\ term \subseteq Group /\ doomed \subseteq Group

\* Whatever the order in which threads stop, kill, wait and poll, no signal
\* and no waitpid ever names a pid the kernel may have given to another
\* process: the child is unwaited-for whenever its pid is used.
OnlyOwnChild == ~stray

\* The child is waited for exactly when its exit is recorded, and then the
\* state is EXITED for good: no exit is lost and none is made up.
ExitRecorded ==
  /\ recorded <=> child = "reaped"
  /\ recorded => state = "EXITED"

\* STOPPING and STARTING are seen by nobody: between two calls a child that
\* is not reaped is RUNNING, so that stop_all and the destructor, which ask
\* is_running(), do not pass over it.
UnreapedIsRunning ==
  mutex = NoThread => (child \in {"alive", "zombie"} <=> state = "RUNNING")

\* The destructor leaves neither a child nor a zombie behind.
NothingOutlivesObject ==
  (\E t \in Threads : at[t] = "gone") => child \in {"none", "reaped"}

\* docs/process.md 6: a process asked to stop is forcefully killed and reaped
\* in the end, whether or not it obeys SIGTERM, unless another thread is in
\* the blocking wait(), which holds the mutex as long as the child pleases.
StopTerminates ==
  \A t \in Threads : at[t] \in {"stop", "kill"} ~>
    child \in {"none", "reaped"} \/ \E u \in Threads : at[u] = "waiting"

\* README.md, process groups: once stop() has returned, no member of the
\* group of the process is left that nothing is going to end.
NoRogueHelper ==
  [][\A t \in Threads :
       /\ at[t] \in {"stop", "grace"} /\ at'[t] = "idle" /\ HasPid
       => (helper' = "alive" => Dying("helper")')]_vars
-----------------------------------------------------------------------------
(* The abstract process.                                                   *)

lifeOf ==
  CASE child \in {"alive", "zombie"}           -> child
    [] child = "reaped" \/ state = "EXITED"    -> "exited"
    [] child = "none" /\ state = "FAILED"      -> "failed"
    [] OTHER                                   -> "created"

MethodAt(place) ==
  CASE place = "idle"                                 -> "nothing"
    [] place \in {"start", "spawning"}                -> "start"
    [] place \in {"stop", "kill", "grace", "killing"} -> "stop"
    [] place \in {"wait", "waiting"}                  -> "wait"
    [] place \in {"destroy", "destroying"}            -> "drop"
    [] OTHER                                          -> place

doingOf == [t \in Threads |-> MethodAt(at[t])]

Contract == INSTANCE ProcessContract WITH Users <- Threads, life <- lifeOf, doing <- doingOf

\* To the threads that share it every method of a Process is atomic: a stop
\* that returns has left nothing to stop or to reap, whoever else stopped,
\* waited, polled or started meanwhile; a process is started at most once;
\* and the destructor leaves nothing.  ProcessSupervisor and ComponentManagers
\* rest on it.
ProcessKeepsContract == Contract!ContractSpec
=============================================================================
