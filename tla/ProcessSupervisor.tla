-------------------------- MODULE ProcessSupervisor --------------------------
(***************************************************************************)
(* ProcessSupervisor and its ProcessRegistry, used by several threads, over *)
(* a kernel that gives a pid to a new child as soon as the child that had  *)
(* it has been waited for.  Neither class holds a mutex across two of its  *)
(* steps, so a call is as many actions as it takes locks or enters a       *)
(* Process.                                                                *)
(*                                                                         *)
(* A Process object is abstracted to module ProcessContract, which module   *)
(* Process implements: each method is atomic, stop and kill end with the   *)
(* child reaped, and so does the destructor.                               *)
(***************************************************************************)
EXTENDS Naturals, FiniteSets

CONSTANTS
  Starters,   \* threads that start processes
  Stoppers,   \* threads that stop them, or all of them, or reset
  Reapers,    \* threads that call reap_exited_processes
  Processes,  \* bound on the Process objects ever made
  Pids,       \* the pids of the kernel
  MaxCalls    \* bound on the calls that stop processes or reset

NoHandle == 0
NoPid == 0
Handles == 1..Processes   \* g_process_handle_counter
Threads == Starters \cup Stoppers \cup Reapers

ASSUME SupervisorAssumption ==
  /\ Processes \in Nat /\ NoPid \notin Pids
  /\ (Starters \cup Stoppers) \cap Reapers = {} /\ MaxCalls \in Nat

VARIABLES
  closing,   \* shutting_down_
  registry,  \* keys of registry_.by_handle_
  emitted,   \* emitted_exit_pids_
  life,      \* Process::state_ and the kernel's child, see Lives
  pid,       \* Process::pid_
  call,      \* what each thread is doing, see Calls
  calls,     \* calls that stop or reset, made so far
  told,      \* history: objects whose exit was reported since the last reset()
  raced      \* history: objects whose start overlapped a stop_all or a reset()

object == <<life, pid>>
tables == <<closing, registry, emitted>>
vars == <<tables, object, call, calls, told, raced>>

Lives == {"unused", "created", "failed", "alive", "zombie", "exited"}
StopAllOps == {"stopAll", "stopAllMark"}
Ops == {"idle", "register", "spawn", "mark", "reap", "report"}
         \cup StopAllOps

(* on is the object a call is about; a loop has the copy of the registry it *)
(* walks, what it has not looked at yet, and, for a stop_all, a history of *)
(* what ran when it began.                                                 *)
Calls == [op : Ops, on : Handles \cup {NoHandle}, todo : SUBSET Handles,
          all : SUBSET Handles, due : SUBSET Handles]

Idle == [op |-> "idle", on |-> NoHandle, todo |-> {}, all |-> {}, due |-> {}]
About(name, p) == [Idle EXCEPT !.op = name, !.on = p]

Running(p) == life[p] \in {"alive", "zombie"}
InFlight(p) == \E t \in Threads : call[t].op \in {"register", "spawn"} /\ call[t].on = p
StoppingAll == \E t \in Threads : call[t].op \in StopAllOps

-----------------------------------------------------------------------------
(* Plausible bugs, each a mutated form of the definition its comment names. *)

\* Ended: SIGTERM is sent and nobody waits.
EndedUnwaited(p) == IF life[p] = "alive" THEN "zombie" ELSE life[p]

\* Refused: start_process does not look at shutting_down_.
RefusedNever == FALSE

\* Marked: the pass does not look at emitted_exit_pids_.
MarkedNever(p) == pid[p] = NoPid

\* Exited: poll() has no answer for a child that just exited.
ExitedKnown(p) == life[p] = "exited"

-----------------------------------------------------------------------------
Snapshot == registry
Refused == closing

\* Process::stop and Process::kill; an object that was not started becomes
\* EXITED.
Ended(p) == IF life[p] \in {"created", "alive", "zombie"} THEN "exited" ELSE life[p]

\* What reap_exited_processes passes over without a look.
Marked(p) == pid[p] = NoPid \/ pid[p] \in emitted

\* Process::poll has an answer.
Exited(p) == life[p] \in {"zombie", "exited"}

(* The shared_ptrs of a thread inside a call. *)
Refs(t) == {call[t].on} \cup call[t].todo \cup call[t].all

Goes(t, c) == call' = [call EXCEPT ![t] = c]
Returns(t) == Goes(t, Idle)
At(t, name) == call[t].op = name

\* A thread calls something that stops processes or resets.
Asks(t) == At(t, "idle") /\ t \in Stoppers /\ calls < MaxCalls /\ calls' = calls + 1

-----------------------------------------------------------------------------
(* start_process: the check of shutting_down_, the registration and the    *)
(* spawn are three critical sections.                                      *)
StartAdmitted(t, p) ==
  /\ At(t, "idle") /\ t \in Starters /\ ~Refused
  /\ life[p] = "unused" /\ \A q \in 1..(p - 1) : life[q] # "unused"
  /\ life' = [life EXCEPT ![p] = "created"]
  /\ Goes(t, About("register", p))
  /\ raced' = IF StoppingAll /\ ~closing THEN raced \cup {p} ELSE raced
  /\ UNCHANGED <<tables, pid, calls, told>>

Register(t) ==
  /\ At(t, "register")
  /\ registry' = registry \cup {call[t].on}
  /\ Goes(t, About("spawn", call[t].on))
  /\ UNCHANGED <<closing, emitted, object, calls, told, raced>>

\* fork gives the child a pid nobody has; the caller gets the shared_ptr.
Spawn(t) ==
  /\ At(t, "spawn") /\ life[call[t].on] = "created"
  /\ \E n \in Pids \ {pid[p] : p \in {q \in Handles : Running(q)}} :
       pid' = [pid EXCEPT ![call[t].on] = n]
  /\ life' = [life EXCEPT ![call[t].on] = "alive"]
  /\ Returns(t)
  /\ UNCHANGED <<tables, calls, told, raced>>

\* The object stays in the registry.
SpawnFails(t) ==
  /\ At(t, "spawn")
  /\ life' = [life EXCEPT ![call[t].on] = IF @ = "created" THEN "failed" ELSE @]
  /\ Returns(t)
  /\ UNCHANGED <<tables, pid, calls, told, raced>>

-----------------------------------------------------------------------------
(* stop_process and kill_process by pid, by handle or by object.           *)
StopProcess(t, p) ==
  /\ Asks(t) /\ (p \in registry \/ pid[p] # NoPid)
  /\ life' = [life EXCEPT ![p] = Ended(p)]
  /\ Goes(t, About("mark", p))
  /\ UNCHANGED <<tables, pid, told, raced>>

Mark(p) == emitted' = emitted \cup {pid[p]}

StopReturns(t) ==
  /\ At(t, "mark")
  /\ Mark(call[t].on)
  /\ Returns(t)
  /\ UNCHANGED <<closing, registry, object, calls, told, raced>>

-----------------------------------------------------------------------------
(* stop_all, also from the destructor.                                     *)
StopAllEnter(t) ==
  /\ Asks(t)
  /\ closing' = TRUE
  /\ Goes(t, [Idle EXCEPT !.op = "stopAll", !.todo = Snapshot, !.all = Snapshot,
                          !.due = {p \in registry : Running(p)}])
  /\ raced' = raced \cup {p \in Handles : InFlight(p)}
  /\ UNCHANGED <<registry, emitted, object, told>>

StopAllSkip(t, p) ==
  /\ At(t, "stopAll") /\ p \in call[t].todo /\ ~Running(p)
  /\ call' = [call EXCEPT ![t].todo = @ \ {p}]
  /\ UNCHANGED <<tables, object, calls, told, raced>>

StopAllStop(t, p) ==
  /\ At(t, "stopAll") /\ p \in call[t].todo /\ Running(p)
  /\ life' = [life EXCEPT ![p] = Ended(p)]
  /\ call' = [call EXCEPT ![t].op = "stopAllMark", ![t].on = p]
  /\ UNCHANGED <<tables, pid, calls, told, raced>>

StopAllMark(t) ==
  /\ At(t, "stopAllMark")
  /\ Mark(call[t].on)
  /\ call' = [call EXCEPT ![t].op = "stopAll", ![t].on = NoHandle, ![t].todo = @ \ {call[t].on}]
  /\ UNCHANGED <<closing, registry, object, calls, told, raced>>

\* The second loop kills what runs by now, without an entry in the table;
\* nothing another thread does between it and clear() could tell them apart.
\* With nothing in the copy the call returned before the clear().
StopAllReturns(t) ==
  /\ At(t, "stopAll") /\ call[t].todo = {}
  /\ registry' = IF call[t].all = {} THEN registry ELSE {}
  /\ Returns(t)
  /\ UNCHANGED <<closing, emitted, pid, calls, told, raced>>
  /\ life' = [p \in Handles |-> IF p \in call[t].all /\ Running(p) THEN Ended(p) ELSE life[p]]

Reset(t) ==
  /\ Asks(t)
  /\ closing' = FALSE /\ registry' = {} /\ emitted' = {}
  /\ told' = {}
  /\ raced' = raced \cup {p \in Handles : InFlight(p) \/ Running(p)}
  /\ UNCHANGED <<object, call>>

-----------------------------------------------------------------------------
(* reap_exited_processes: per object of the copy, a look at the table of   *)
(* pids with a poll, and the entry into the table with the event.          *)
BeginReap(t) ==
  /\ At(t, "idle") /\ t \in Reapers
  /\ Goes(t, [Idle EXCEPT !.op = "reap", !.todo = registry, !.all = registry])
  /\ UNCHANGED <<tables, object, calls, told, raced>>

Continue(t, p) == [call EXCEPT ![t].op = "reap", ![t].on = NoHandle, ![t].todo = @ \ {p}]

ReapSkip(t, p) ==
  /\ At(t, "reap") /\ p \in call[t].todo /\ (Marked(p) \/ ~Exited(p))
  /\ call' = Continue(t, p)
  /\ UNCHANGED <<tables, object, calls, told, raced>>

ReapPoll(t, p) ==
  /\ At(t, "reap") /\ p \in call[t].todo /\ ~Marked(p) /\ Exited(p)
  /\ life' = [life EXCEPT ![p] = "exited"]
  /\ call' = [call EXCEPT ![t].op = "report", ![t].on = p]
  /\ UNCHANGED <<tables, pid, calls, told, raced>>

ReapReport(t) ==
  /\ At(t, "report")
  /\ Mark(call[t].on)
  /\ told' = told \cup {call[t].on}
  /\ call' = Continue(t, call[t].on)
  /\ UNCHANGED <<closing, registry, object, calls, raced>>

ReapReturns(t) ==
  /\ At(t, "reap") /\ call[t].todo = {}
  /\ Returns(t)
  /\ UNCHANGED <<tables, object, calls, told, raced>>

-----------------------------------------------------------------------------
\* The last shared_ptr to an object no table lists is dropped: its destructor
\* kills the child.
Destroy(p) ==
  /\ Running(p) /\ p \notin registry /\ \A t \in Threads : p \notin Refs(t)
  /\ life' = [life EXCEPT ![p] = "exited"]
  /\ UNCHANGED <<tables, pid, call, calls, told, raced>>

\* A child exits by itself or crashes.
ChildDies(p) ==
  /\ life[p] = "alive"
  /\ life' = [life EXCEPT ![p] = "zombie"]
  /\ UNCHANGED <<tables, pid, call, calls, told, raced>>

Init ==
  /\ closing = FALSE /\ registry = {} /\ emitted = {}
  /\ life = [p \in Handles |-> "unused"] /\ pid = [p \in Handles |-> NoPid]
  /\ call = [t \in Threads |-> Idle] /\ calls = 0 /\ told = {} /\ raced = {}

\* What a thread does inside a call goes on by itself.
Step(t) ==
  \/ Register(t) \/ Spawn(t) \/ SpawnFails(t) \/ StopReturns(t)
  \/ \E p \in Handles : StopAllSkip(t, p) \/ StopAllStop(t, p)
  \/ StopAllMark(t) \/ StopAllReturns(t)
  \/ \E p \in Handles : ReapSkip(t, p) \/ ReapPoll(t, p)
  \/ ReapReport(t) \/ ReapReturns(t)

Enter(t) ==
  \/ \E p \in Handles : StartAdmitted(t, p) \/ StopProcess(t, p)
  \/ StopAllEnter(t) \/ Reset(t)

Next ==
  \/ \E t \in Threads : Enter(t) \/ BeginReap(t) \/ Step(t)
  \/ \E p \in Handles : ChildDies(p) \/ Destroy(p)

Spec == Init /\ [][Next]_vars

\* Threads run inside their calls, and a reaper begins one pass after another.
FairSpec ==
  /\ Spec
  /\ \A t \in Threads : WF_vars(Step(t))
  /\ \A t \in Reapers : WF_vars(BeginReap(t))
-----------------------------------------------------------------------------
\* A child that runs is in the registry, where passes and stop_all find it,
\* unless its start overlapped a stop_all or it was there at a reset(): nothing else lets a
\* process out of supervision, whatever else is called in whatever order.
SupervisedUnlessRaced ==
  \A p \in Handles : Running(p) /\ p \notin registry => p \in raced

\* stop_all returns when everything that ran when it was called has ended,
\* whatever other threads stop, reap, reset or start in the meantime.
StopAllStops ==
  [][\A t \in Threads : call[t].op = "stopAll" /\ call'[t].op = "idle"
       => \A p \in call[t].due : ~Running(p)']_vars

\* Between two calls of reset() the exit of a process is reported once,
\* although looking at the table, polling and entering are separate steps.
\* One thread reaps.
ReportedOnce ==
  [][\A t \in Threads : call[t].op = "report" /\ call'[t].op # "report"
       => call[t].on \notin told]_vars

\* The exit of a listed child is found: it is reaped, unless the registry
\* forgets it or the table already holds its pid.
DeathFound ==
  \A p \in Handles :
    life[p] = "zombie" ~> life[p] # "zombie" \/ p \notin registry \/ pid[p] \in emitted

\* docs/process.md 6: every terminated process is unconditionally reaped,
\* for those the supervisor lists.
EveryListedDeathReaped ==
  \A p \in Handles : life[p] = "zombie" ~> life[p] # "zombie" \/ p \notin registry
=============================================================================
