-------------------------- MODULE ComponentManagers --------------------------
(***************************************************************************)
(* WestonManager and LddeManager as shared objects over one supervisor:    *)
(* threads prepare, start, stop and reset them while another one reaps.    *)
(* Each manager has a recursive mutex.  start() gives it up twice, around  *)
(* prepare() and for the readiness wait; stop(), reset() and the rest of   *)
(* start() keep it while the supervisor emits events, whose listeners take *)
(* the mutex of every manager in turn.                                     *)
(*                                                                         *)
(* A Process object is abstracted to module ProcessContract and the        *)
(* supervisor to its events; it is not closed or reset here (see           *)
(* ProcessSupervisor, and GraphicalSession for one thread and the sockets). *)
(***************************************************************************)
EXTENDS Naturals, FiniteSets, StateTables

CONSTANTS
  Drivers,    \* threads that call the managers
  Reapers,    \* threads that call reap_exited_processes
  Processes,  \* bound on the processes ever spawned
  MaxCalls    \* bound on the calls of Drivers

Managers == {"weston", "ldde"}
Threads == Drivers \cup Reapers
Handles == 1..Processes
NoProcess == 0
NoThread == "nobody"

ASSUME ManagersAssumption ==
  /\ Drivers \cap Reapers = {} /\ NoThread \notin Threads
  /\ Processes \in Nat /\ MaxCalls \in Nat

VARIABLES
  state,    \* state_ of each manager
  process,  \* process_ of each manager, and process_handle_
  mutex,    \* the thread that holds mutex_ of each manager between two actions
  life,     \* what became of each process: "unused", "alive", "zombie", "exited"
  told,     \* emitted_exit_pids_
  call,     \* what each thread is doing, see Calls
  calls,    \* calls made so far
  crashed   \* process_->pid() was called on a null process_

object == <<state, process, mutex>>
vars == <<object, life, told, call, calls, crashed>>

\* Where a thread inside a call does not hold the manager's mutex.
Unlocked == {"start", "prepare", "locking", "waiting", "ready", "unready",
             "stop", "reset"}
Places == Unlocked \cup {"idle", "spawn", "announce", "refused", "terminate",
                         "conclude", "deliver"}

(* of is the manager a call is about, for what its first line, on the       *)
(* process it has or the event it carries, and to the managers whose       *)
(* listener has not had the event.                                         *)
Calls == [at : Places, of : Managers, for : {"start", "stop", "reset", "prepare"},
          on : Handles \cup {NoProcess}, to : SUBSET Managers]

Idle == [at |-> "idle", of |-> "weston", for |-> "start", on |-> NoProcess, to |-> {}]

-----------------------------------------------------------------------------
(* Plausible bugs, each a mutated form of the definition its comment names. *)

\* Startable: a stopped manager may be started too.
StartableStopped(m) == state[m] \in {"Preparing", "Stopped"}

\* Fragile: a process that exits before it was ready is not noticed.
FragileRunning == {"Running"}

\* Reusable: reset() forgets the process and stops nothing.
ReusableAlways(m) == TRUE

\* Inside: start() keeps the mutex for the readiness wait.
InsideWaiting(t) == t

\* Free: the mutex is not recursive.
FreeStrictly(t, m) == mutex[m] = NoThread

-----------------------------------------------------------------------------
Startable(m) == state[m] = "Preparing"
Stoppable == ManagerStates \ {"Stopping", "Stopped"}

\* The states in which on_process_event takes an exit for a failure.
Fragile == {"Starting", "WaitingReady", "Running"}

\* Process::stop: the child is gone when it returns.
Ended(p) == IF life[p] \in {"alive", "zombie"} THEN "exited" ELSE life[p]

\* Nothing is left for stop() or reset() to stop.
Reusable(m) == process[m] = NoProcess

Moved(m, to) == [state EXCEPT ![m] = ManagerMove(m, @, to)]

\* A recursive mutex can be taken.
Free(t, m) == mutex[m] \in {NoThread, t}

\* emit_event calls the listeners of all managers; none of them minds an event
\* other than an exit.
Heard(t) == \A m \in Managers : Free(t, m)

At(t, place) == ~crashed /\ call[t].at = place
Goes(t, place) == call' = [call EXCEPT ![t].at = place]
Holds(t, place) == Goes(t, place) /\ mutex' = [mutex EXCEPT ![call[t].of] = t]
\* Who has the mutex of the manager while start() waits for readiness.
Inside(t) == NoThread

Returns(t) ==
  /\ call' = [call EXCEPT ![t] = Idle]
  /\ mutex' = [m \in Managers |-> IF mutex[m] = t THEN NoThread ELSE mutex[m]]

-----------------------------------------------------------------------------
Call(t, m, op) ==
  /\ At(t, "idle") /\ t \in Drivers /\ calls < MaxCalls
  /\ op \in {"start", "stop", "reset", "prepare"}
  /\ call' = [call EXCEPT ![t] = [Idle EXCEPT !.at = op, !.of = m, !.for = op]]
  /\ calls' = calls + 1
  /\ UNCHANGED <<object, life, told, crashed>>

\* prepare(), called by itself or by start(): it may fail, and is refused
\* unless the manager is fresh or prepared.
Prepare(t) ==
  LET m == call[t].of IN
  /\ At(t, "prepare") /\ Free(t, m)
  /\ \/ state[m] \in {"Created", "Preparing"} /\ state' = [state EXCEPT ![m] = "Preparing"]
        /\ IF call[t].for = "start" THEN Goes(t, "locking") ELSE call' = [call EXCEPT ![t] = Idle]
     \/ state[m] \in {"Created", "Preparing"} /\ state' = [state EXCEPT ![m] = "Failed"]
        /\ call' = [call EXCEPT ![t] = Idle]
     \/ state[m] \notin {"Created", "Preparing"} /\ UNCHANGED state
        /\ call' = [call EXCEPT ![t] = Idle]
  /\ UNCHANGED <<process, mutex, life, told, calls, crashed>>

\* start() of a manager that is not prepared unlocks and calls prepare().
StartFresh(t) ==
  /\ At(t, "start") /\ Free(t, call[t].of) /\ state[call[t].of] = "Created"
  /\ Goes(t, "prepare")
  /\ UNCHANGED <<object, life, told, calls, crashed>>

StartRefused(t) ==
  LET m == call[t].of IN
  /\ At(t, "start") \/ At(t, "locking")
  /\ Free(t, m) /\ ~Startable(m) /\ (At(t, "start") => state[m] # "Created")
  /\ Returns(t)
  /\ UNCHANGED <<state, process, life, told, calls, crashed>>

StartLocked(t) ==
  /\ At(t, "start") \/ At(t, "locking")
  /\ Free(t, call[t].of) /\ Startable(call[t].of)
  /\ state' = Moved(call[t].of, "Starting")
  /\ Holds(t, "spawn")
  /\ UNCHANGED <<process, life, told, calls, crashed>>

\* start_process up to its event, and start() from there to the wait.
Spawn(t) ==
  /\ At(t, "spawn")
  /\ \E p \in Handles :
       /\ life[p] = "unused" /\ \A q \in 1..(p - 1) : life[q] # "unused"
       /\ life' = [life EXCEPT ![p] = "alive"]
       /\ call' = [call EXCEPT ![t].at = "announce", ![t].on = p]
  /\ UNCHANGED <<object, told, calls, crashed>>

SpawnFails(t) ==
  /\ At(t, "spawn")
  /\ Goes(t, "refused")
  /\ UNCHANGED <<object, life, told, calls, crashed>>

StartupFailed(t) ==
  /\ At(t, "refused") /\ Heard(t)
  /\ state' = Moved(call[t].of, "Failed")
  /\ Returns(t)
  /\ UNCHANGED <<process, life, told, calls, crashed>>

Started(t) ==
  LET m == call[t].of IN
  /\ At(t, "announce") /\ Heard(t)
  /\ process' = [process EXCEPT ![m] = call[t].on]
  /\ state' = Moved(m, "WaitingReady")
  /\ Goes(t, "waiting") /\ mutex' = [mutex EXCEPT ![m] = Inside(t)]
  /\ UNCHANGED <<life, told, calls, crashed>>

\* wait_for_readiness, without the mutex: it answers for the process it was
\* given, for which it looks before the socket or the file.
ReadinessAnswers(t) ==
  /\ At(t, "waiting")
  /\ \/ life[call[t].on] = "alive" /\ Goes(t, "ready")
     \/ Goes(t, "unready")
  /\ UNCHANGED <<object, life, told, calls, crashed>>

\* The end of start(): whatever state_ is by now, and whoever process_ is.
StartSucceeds(t) ==
  LET m == call[t].of IN
  /\ At(t, "ready") /\ Free(t, m)
  /\ state' = Moved(m, "Running")
  /\ crashed' = (process[m] = NoProcess)
  /\ Returns(t)
  /\ UNCHANGED <<process, life, told, calls>>

StartUnready(t) ==
  LET m == call[t].of IN
  /\ At(t, "unready") /\ Free(t, m)
  /\ state' = Moved(m, "Failed")
  /\ IF process[m] = NoProcess THEN Returns(t) ELSE Holds(t, "terminate")
  /\ UNCHANGED <<process, life, told, calls, crashed>>

\* stop() and reset() up to stop_process.
StopRefused(t) ==
  LET m == call[t].of IN
  /\ At(t, "stop") /\ Free(t, m) /\ state[m] \notin Stoppable
  /\ Returns(t)
  /\ UNCHANGED <<state, process, life, told, calls, crashed>>

StopNothing(t) ==
  LET m == call[t].of IN
  /\ \/ At(t, "stop") /\ state[m] \in Stoppable
        /\ state' = [state EXCEPT ![m] = "Stopped"]
     \/ At(t, "reset") /\ state' = [state EXCEPT ![m] = "Created"]
  /\ Free(t, m) /\ Reusable(m)
  /\ process' = [process EXCEPT ![m] = NoProcess]
  /\ Returns(t)
  /\ UNCHANGED <<life, told, calls, crashed>>

StopBegins(t) ==
  LET m == call[t].of IN
  /\ \/ At(t, "stop") /\ state[m] \in Stoppable /\ state' = Moved(m, "Stopping")
     \/ At(t, "reset") /\ UNCHANGED state
  /\ Free(t, m) /\ ~Reusable(m)
  /\ Holds(t, "terminate")
  /\ UNCHANGED <<process, life, told, calls, crashed>>

\* stop_process between its two events.
Terminate(t) ==
  LET p == process[call[t].of] IN
  /\ At(t, "terminate") /\ Heard(t)
  /\ life' = [life EXCEPT ![p] = Ended(p)]
  /\ Goes(t, "conclude")
  /\ UNCHANGED <<object, told, calls, crashed>>

\* A failed start() keeps the process it stopped; reset() forgets the state.
Conclude(t) ==
  LET m == call[t].of IN
  /\ At(t, "conclude") /\ Heard(t)
  /\ told' = told \cup {process[m]}
  /\ process' = IF call[t].for = "start" THEN process ELSE [process EXCEPT ![m] = NoProcess]
  /\ state' = CASE call[t].for = "start" -> state
                [] call[t].for = "stop"  -> Moved(m, "Stopped")
                [] OTHER                 -> [state EXCEPT ![m] = "Created"]
  /\ Returns(t)
  /\ UNCHANGED <<life, calls, crashed>>

-----------------------------------------------------------------------------
\* reap_exited_processes finds an exit that was not reported.
Notice(t) ==
  /\ At(t, "idle") /\ t \in Reapers
  /\ \E p \in Handles \ told :
       /\ life[p] \in {"zombie", "exited"}
       /\ life' = [life EXCEPT ![p] = "exited"] /\ told' = told \cup {p}
       /\ call' = [call EXCEPT ![t].at = "deliver", ![t].on = p, ![t].to = Managers]
  /\ UNCHANGED <<object, calls, crashed>>

\* on_process_event; the compositor was attached first.
Deliver(t, m) ==
  /\ At(t, "deliver") /\ m \in call[t].to /\ ("weston" \in call[t].to => m = "weston")
  /\ Free(t, m)
  /\ state' = IF process[m] = call[t].on /\ state[m] \in Fragile
                THEN Moved(m, "Failed") ELSE state
  /\ LET left == call[t].to \ {m}
     IN  call' = [call EXCEPT ![t] = IF left = {} THEN Idle ELSE [@ EXCEPT !.to = left]]
  /\ UNCHANGED <<process, mutex, life, told, calls, crashed>>

\* A process exits by itself.
Exit(p) ==
  /\ ~crashed /\ life[p] = "alive" /\ life' = [life EXCEPT ![p] = "zombie"]
  /\ UNCHANGED <<object, told, call, calls, crashed>>

-----------------------------------------------------------------------------
Init ==
  /\ state = [m \in Managers |-> "Created"]
  /\ process = [m \in Managers |-> NoProcess]
  /\ mutex = [m \in Managers |-> NoThread]
  /\ life = [p \in Handles |-> "unused"] /\ told = {}
  /\ call = [t \in Threads |-> Idle] /\ calls = 0
  /\ crashed = FALSE

Step(t) ==
  \/ Prepare(t)
  \/ StartFresh(t) \/ StartRefused(t) \/ StartLocked(t)
  \/ Spawn(t) \/ SpawnFails(t) \/ StartupFailed(t) \/ Started(t)
  \/ ReadinessAnswers(t) \/ StartSucceeds(t) \/ StartUnready(t)
  \/ StopRefused(t) \/ StopNothing(t) \/ StopBegins(t)
  \/ Terminate(t) \/ Conclude(t)
  \/ \E m \in Managers : Deliver(t, m)

Next ==
  \/ \E t \in Threads :
       \/ Step(t) \/ Notice(t)
       \/ \E m \in Managers, op \in {"start", "stop", "reset", "prepare"} : Call(t, m, op)
  \/ \E p \in Handles : Exit(p)

Spec == Init /\ [][Next]_vars

\* A thread inside a call runs.
FairSpec == Spec /\ \A t \in Threads : WF_vars(Step(t))
-----------------------------------------------------------------------------
Holder(t, m) == mutex[m] = t

\* Types, and which places of a call are inside its manager's mutex.
TypeOK ==
  /\ state \in [Managers -> ManagerStates]
  /\ process \in [Managers -> Handles \cup {NoProcess}]
  /\ mutex \in [Managers -> Threads \cup {NoThread}]
  /\ life \in [Handles -> {"unused", "alive", "zombie", "exited"}]
  /\ told \subseteq Handles
  /\ call \in [Threads -> Calls] /\ calls \in Nat
  /\ crashed \in BOOLEAN
  /\ \A t \in Threads, m \in Managers :
       Holder(t, m) <=> call[t].of = m /\ call[t].at \notin Unlocked \cup {"idle", "deliver"}

\* Whatever the calls and their order, a child that runs is the process_ of a
\* manager, or about to become it in the hands of the thread that holds the
\* mutex; so no manager ever has two, and none escapes stop() and reset().
ChildIsHeld ==
  \A p \in Handles : life[p] \in {"alive", "zombie"} =>
    \/ \E m \in Managers : process[m] = p
    \/ \E t \in Threads :
         call[t].at = "announce" /\ call[t].on = p /\ process[call[t].of] = NoProcess

\* A manager that reports Created, Preparing or Stopped, with nobody inside,
\* has no child: a start() that was overtaken by stop() or reset() and comes
\* back from the readiness wait does not bring it back to life.
RestingIsEmpty ==
  \A m \in Managers :
    mutex[m] = NoThread /\ state[m] \in {"Created", "Preparing", "Stopped"} =>
      process[m] = NoProcess

\* Once all listeners had the exit of a manager's process, the manager does
\* not claim to run or to be starting, also when the exit was delivered
\* between the readiness of the process and the end of start().
ExitIsNoticed ==
  \A m \in Managers :
    /\ process[m] \in told /\ mutex[m] = NoThread
    /\ \A t \in Threads : call[t].at # "deliver"
    => state[m] \notin {"Starting", "WaitingReady", "Running"}

\* Two threads that hold one mutex each and emit an event.
Embraced ==
  \E t, u \in Threads :
    /\ Holder(t, "weston") /\ Holder(u, "ldde")
    /\ call[t].at # "spawn" /\ call[u].at # "spawn"

\* A call returns, unless it dies of a null process_ or waits in a cycle of the
\* two mutexes for a thread that waits for it.
CallsReturn ==
  \A t \in Threads : call[t].at # "idle" ~> call[t].at = "idle" \/ crashed \/ Embraced

\* docs/development.md: public shared facilities must be thread-safe.  Calls of
\* the two managers, each made by a thread of its own, return.
NeverEmbraced == ~Embraced
=============================================================================
