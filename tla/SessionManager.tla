---------------------------- MODULE SessionManager ----------------------------
(***************************************************************************)
(* SessionManager, the Session objects it lists and the directories they   *)
(* own, used by several threads.  The manager's mutex is never held while  *)
(* a Session is entered; a Session's own mutex is held through initialize, *)
(* start, stop and fail, but neither by the reads of its state nor by      *)
(* cleanup, which the destructor calls too.                                *)
(*                                                                         *)
(* What the components of a session do is module GraphicalSession's: here   *)
(* a session has processes or none, and no recovery manager is attached.   *)
(* clean_runtime_dir_on_stop has its default, TRUE.                        *)
(***************************************************************************)
EXTENDS Naturals, Sequences, StateTables

CONSTANTS
  Threads,      \* threads that use the manager and the sessions
  Ids,          \* session ids, each the name of a directory
  MaxSessions,  \* bound on the Session objects ever made
  MaxCalls      \* bound on the calls made

None == 0
NoThread == "nobody"
Objects == 1..MaxSessions

ASSUME ManagerAssumption ==
  /\ MaxSessions \in Nat /\ MaxCalls \in Nat /\ NoThread \notin Threads
  /\ Ids # {}

VARIABLES
  sessions,  \* sessions_, None for an id that is not a key
  active,    \* active_session_
  idOf,      \* Session::id(), for the objects made
  made,      \* number of objects made
  gone,      \* objects whose destructor began
  state,     \* SessionStateMachine::state_
  procs,     \* objects with live child processes
  closing,   \* objects whose supervisor shuts down
  holder,    \* the thread that has the object's mutex
  dirs,      \* ids whose directories exist
  call,      \* what each thread is doing, see Calls
  calls,     \* calls made
  late       \* history: objects asked to start after or while they were removed,
             \* until they are listed again or destroyed

registry == <<sessions, active>>
identity == <<idOf, made, gone>>
resources == <<procs, closing, dirs>>
vars == <<registry, identity, state, resources, holder, call, calls, late>>

Waiting == {"initialize", "start", "stop"}       \* for the object's mutex
Holding == {"initializing", "configuring", "starting", "started", "stopping"}
Removing == {"check", "cleanup", "sweep", "clean"}
Ops == {"idle", "stopAll"} \cup Waiting \cup Holding \cup Removing

(* then is where a nested call returns to; left has the states that a      *)
(* removal still compares with, todo the copy that stop_all_sessions walks *)
(* and due, a history, the sessions of the copy nobody asked to start.     *)
Calls == [op : Ops, on : Objects \cup {None}, then : {"idle", "start", "stopAll", "cleanup", "sweep"},
          left : Seq({"RUNNING", "STARTING", "READY"}),
          todo : SUBSET Objects, due : SUBSET Objects]

Idle == [op |-> "idle", on |-> None, then |-> "idle", left |-> <<>>, todo |-> {}, due |-> {}]
About(name, o) == [Idle EXCEPT !.op = name, !.on = o]

Listed == {o \in Objects : \E i \in Ids : sessions[i] = o}
Known == 1..made \ gone
AskedToStart(o) == \E t \in Threads : call[t].on = o /\ call[t].op \in {"initialize", "start"}

-----------------------------------------------------------------------------
(* Plausible bugs, each a mutated form of the definition its comment names. *)

\* ActiveWithout: remove_session forgets the designation.
ActiveWithoutKept(o) == active

\* Copy: stop_all_sessions stops the designated session.
CopyOfActive == {active} \ {None}

\* Ongoing: cleanup takes a session that is being initialized for one to leave alone.
OngoingReady == {"RUNNING", "STARTING", "READY", "RECOVERING"}

-----------------------------------------------------------------------------
Goes(t, c) == call' = [call EXCEPT ![t] = c]
At(t, name) == call[t].op = name
On(t) == call[t].on

\* A client's thread makes a call; clients may hold any object not destroyed.
Asks(t) == At(t, "idle") /\ calls < MaxCalls /\ calls' = calls + 1

\* A call on one object ends, or a stop in the middle of a longer call.
Then(t) == [call[t] EXCEPT !.op = call[t].then, !.then = "idle",
                           !.on = IF call[t].then \in {"idle", "stopAll"} THEN None ELSE @]

MutexFree(t, o) == holder[o] \in {NoThread, t}
Locks(t, o) == MutexFree(t, o) /\ holder' = [holder EXCEPT ![o] = t]
Unlocks(o) == holder' = [holder EXCEPT ![o] = NoThread]

Ongoing == {"RUNNING", "STARTING", "READY", "INITIALIZING", "RECOVERING"}
Stoppable == Ongoing \cup {"FAILED"}

Moves(o, to) == state' = [state EXCEPT ![o] = SessionMove(@, to)]

\* ProcessSupervisor::stop_all; paths_.create_directories, remove_directories.
StopsChildren(o) == procs' = procs \ {o} /\ closing' = closing \cup {o}
Created(o) == dirs \cup {idOf[o]}
Removed(o) == dirs \ {idOf[o]}

-----------------------------------------------------------------------------
(* The operations of the manager, each under its mutex.                    *)

\* The constructor of Session.
Makes(id) ==
  /\ made < MaxSessions
  /\ made' = made + 1 /\ idOf' = [idOf EXCEPT ![made + 1] = id]
  /\ UNCHANGED <<gone, state, resources, holder, call, late>>

\* A client makes an object itself; the manager knows nothing of it.
Construct(t, id) ==
  /\ At(t, "idle") /\ Makes(id)
  /\ UNCHANGED <<registry, calls>>

Lists(id, o) ==
  /\ sessions' = [sessions EXCEPT ![id] = o]
  /\ active' = IF active = None THEN o ELSE active

\* A duplicate is refused before anything is made.
CreateSession(t, id) ==
  /\ Asks(t) /\ sessions[id] = None
  /\ Makes(id) /\ Lists(id, made + 1)

\* Any object that a client holds, whatever state it is in and whatever a
\* removal of it has left to do; a duplicate id is refused.
RegisterSession(t, o) ==
  /\ Asks(t) /\ o \in Known /\ sessions[idOf[o]] = None
  /\ Lists(idOf[o], o)
  /\ late' = late \ {o}
  /\ UNCHANGED <<identity, state, resources, holder, call>>

SetActive(t, id) ==
  /\ Asks(t) /\ sessions[id] # None
  /\ active' = sessions[id]
  /\ UNCHANGED <<sessions, identity, state, resources, holder, call, late>>

ClearActive(t) ==
  /\ Asks(t) /\ active # None
  /\ active' = None
  /\ UNCHANGED <<sessions, identity, state, resources, holder, call, late>>

StopSession(t, id) ==
  /\ Asks(t) /\ sessions[id] # None
  /\ Goes(t, About("stop", sessions[id]))
  /\ UNCHANGED <<registry, identity, state, resources, holder, late>>

ActiveWithout(o) == IF active # None /\ idOf[active] = idOf[o] THEN None ELSE active

RemoveSession(t, id) ==
  /\ Asks(t) /\ sessions[id] # None
  /\ active' = ActiveWithout(sessions[id])
  /\ sessions' = [sessions EXCEPT ![id] = None]
  /\ Goes(t, [About("check", sessions[id]) EXCEPT !.left = <<"RUNNING", "STARTING", "READY">>])
  /\ late' = IF AskedToStart(sessions[id]) THEN late \cup {sessions[id]} ELSE late
  /\ UNCHANGED <<identity, state, resources, holder>>

\* Each comparison reads the state anew.
RemoveCompares(t) ==
  /\ At(t, "check") /\ call[t].left # <<>>
  /\ Goes(t, IF state[On(t)] = Head(call[t].left)
             THEN [About("stop", On(t)) EXCEPT !.then = "cleanup"]
             ELSE [call[t] EXCEPT !.left = Tail(@)])
  /\ UNCHANGED <<registry, identity, state, resources, holder, calls, late>>

\* A bug RemoveGoesOn could have: it trusts the comparisons.
RemoveGoesOnTrusting(t) ==
  /\ At(t, "check") /\ call[t].left = <<>>
  /\ Goes(t, Idle)
  /\ UNCHANGED <<registry, identity, state, resources, holder, calls, late>>

RemoveGoesOn(t) ==
  /\ At(t, "check") /\ call[t].left = <<>>
  /\ Goes(t, About("cleanup", On(t)))
  /\ UNCHANGED <<registry, identity, state, resources, holder, calls, late>>

Copy == Listed

StopAllSessions(t) ==
  /\ Asks(t)
  /\ Goes(t, [Idle EXCEPT !.op = "stopAll", !.todo = Copy,
                          !.due = {o \in Listed : ~AskedToStart(o)}])
  /\ UNCHANGED <<registry, identity, state, resources, holder, late>>

StopAllNext(t, o) ==
  /\ At(t, "stopAll") /\ o \in call[t].todo
  /\ Goes(t, [call[t] EXCEPT !.op = "stop", !.on = o, !.then = "stopAll", !.todo = @ \ {o}])
  /\ UNCHANGED <<registry, identity, state, resources, holder, calls, late>>

StopAllReturns(t) ==
  /\ At(t, "stopAll") /\ call[t].todo = {}
  /\ Goes(t, Idle)
  /\ UNCHANGED <<registry, identity, state, resources, holder, calls, late>>

-----------------------------------------------------------------------------
(* The lifecycle of one Session.                                           *)

\* A client that holds the object calls initialize or start.
AsksToStart(t, o) ==
  /\ Asks(t) /\ o \in Known
  /\ \E name \in {"initialize", "start"} :
       call' = [u \in Threads |->
                  IF u = t THEN About(name, o) ELSE [call[u] EXCEPT !.due = @ \ {o}]]
  /\ late' = IF o \in Listed THEN late ELSE late \cup {o}
  /\ UNCHANGED <<registry, identity, state, resources, holder>>

AsksToStop(t, o) ==
  /\ Asks(t) /\ o \in Known
  /\ Goes(t, About("stop", o))
  /\ UNCHANGED <<registry, identity, state, resources, holder, late>>

\* initialize, also inside start for a CREATED session.
Initialize(t) ==
  LET o == On(t) IN
  /\ \/ At(t, "initialize") /\ SessionCan(state[o], "INITIALIZING")
     \/ At(t, "start") /\ state[o] = "CREATED"
  /\ Locks(t, o) /\ Moves(o, "INITIALIZING")
  /\ Goes(t, [call[t] EXCEPT !.op = "initializing", !.then = IF At(t, "start") THEN "start" ELSE "idle"])
  /\ UNCHANGED <<registry, identity, resources, calls, late>>

\* The directories are made; the old supervisor is destroyed, and its
\* processes with it.
MakesDirectories(t) ==
  LET o == On(t) IN
  /\ At(t, "initializing")
  /\ dirs' = Created(o)
  /\ closing' = closing \ {o} /\ procs' = procs \ {o}
  /\ Goes(t, [call[t] EXCEPT !.op = "configuring"])
  /\ UNCHANGED <<registry, identity, state, holder, calls, late>>

InitializeDone(t) ==
  LET o == On(t) IN
  /\ At(t, "configuring")
  /\ Moves(o, "READY")
  /\ Goes(t, Then(t))
  /\ IF call[t].then = "start" THEN UNCHANGED holder ELSE Unlocks(o)
  /\ UNCHANGED <<registry, identity, resources, calls, late>>

\* The directories cannot be made, and those that were stay; or a component
\* fails, and cleanup runs.
InitializeFails(t) ==
  LET o == On(t) IN
  /\ \/ At(t, "initializing") /\ dirs' \in {dirs, Created(o)} /\ UNCHANGED <<procs, closing>>
     \/ At(t, "configuring") /\ dirs' = Removed(o) /\ StopsChildren(o)
  /\ Moves(o, "FAILED")
  /\ Unlocks(o) /\ Goes(t, Idle)
  /\ UNCHANGED <<registry, identity, calls, late>>

StartBegins(t) ==
  LET o == On(t) IN
  /\ At(t, "start") /\ state[o] = "READY"
  /\ Locks(t, o) /\ Moves(o, "STARTING")
  /\ Goes(t, [call[t] EXCEPT !.op = "starting", !.then = "idle"])
  /\ UNCHANGED <<registry, identity, resources, calls, late>>

\* A supervisor that shuts down starts nothing.
StartSpawns(t) ==
  /\ At(t, "starting") /\ On(t) \notin closing
  /\ procs' = procs \cup {On(t)}
  /\ Goes(t, [call[t] EXCEPT !.op = "started"])
  /\ UNCHANGED <<registry, identity, state, closing, dirs, holder, calls, late>>

StartDone(t) ==
  /\ At(t, "started")
  /\ Moves(On(t), "RUNNING")
  /\ Unlocks(On(t)) /\ Goes(t, Idle)
  /\ UNCHANGED <<registry, identity, resources, calls, late>>

\* The components that did start are stopped again, each through the supervisor.
StartFails(t) ==
  /\ call[t].op \in {"starting", "started"}
  /\ Moves(On(t), "FAILED")
  /\ procs' = procs \ {On(t)}
  /\ Unlocks(On(t)) /\ Goes(t, Idle)
  /\ UNCHANGED <<registry, identity, closing, dirs, calls, late>>

\* The state does not allow what was asked, or stop finds its work done.
Refused(t) ==
  LET o == On(t) IN
  /\ \/ At(t, "initialize") /\ ~SessionCan(state[o], "INITIALIZING")
     \/ At(t, "start") /\ state[o] \notin {"CREATED", "READY"}
     \/ At(t, "stop") /\ state[o] \notin Stoppable
  /\ MutexFree(t, o)
  /\ Goes(t, Then(t))
  /\ UNCHANGED <<registry, identity, state, resources, holder, calls, late>>

StopBegins(t) ==
  LET o == On(t) IN
  /\ At(t, "stop") /\ state[o] \in Stoppable
  /\ Locks(t, o)
  /\ IF state[o] = "FAILED" THEN UNCHANGED state ELSE Moves(o, "STOPPING")
  /\ Goes(t, [call[t] EXCEPT !.op = "stopping"])
  /\ UNCHANGED <<registry, identity, resources, calls, late>>

\* FAILED has no edge to STOPPED.
StopDone(t) ==
  LET o == On(t) IN
  /\ At(t, "stopping")
  /\ StopsChildren(o) /\ dirs' = Removed(o)
  /\ Moves(o, "STOPPED")
  /\ Unlocks(o) /\ Goes(t, Then(t))
  /\ UNCHANGED <<registry, identity, calls, late>>

Fail(t, o) ==
  /\ Asks(t) /\ o \in Known /\ MutexFree(t, o)
  /\ Moves(o, "FAILED")
  /\ StopsChildren(o) /\ dirs' = Removed(o)
  /\ UNCHANGED <<registry, identity, holder, call, late>>

-----------------------------------------------------------------------------
(* cleanup, which takes no mutex, by remove_session and by the destructor. *)

\* The last shared_ptr to an object is dropped.
Destroy(t, o) ==
  /\ At(t, "idle") /\ o \in Known \ Listed /\ o # active
  /\ \A u \in Threads : call[u].on # o /\ o \notin call[u].todo
  /\ gone' = gone \cup {o} /\ late' = late \ {o}
  /\ Goes(t, About("cleanup", o))
  /\ UNCHANGED <<registry, idOf, made, state, resources, holder, calls>>

Cleanup(t) ==
  LET o == On(t) IN
  /\ At(t, "cleanup")
  /\ Goes(t, IF state[o] \in Ongoing THEN [About("stop", o) EXCEPT !.then = "sweep"]
             ELSE About("sweep", o))
  /\ UNCHANGED <<registry, identity, state, resources, holder, calls, late>>

Sweep(t) ==
  /\ At(t, "sweep")
  /\ StopsChildren(On(t))
  /\ Goes(t, About("clean", On(t)))
  /\ UNCHANGED <<registry, identity, state, dirs, holder, calls, late>>

Clean(t) ==
  /\ At(t, "clean")
  /\ dirs' = Removed(On(t))
  /\ Goes(t, Idle)
  /\ UNCHANGED <<registry, identity, state, procs, closing, holder, calls, late>>

-----------------------------------------------------------------------------
Init ==
  /\ sessions = [i \in Ids |-> None] /\ active = None
  /\ idOf \in [Objects -> {CHOOSE i \in Ids : TRUE}] /\ made = 0 /\ gone = {}
  /\ state = [o \in Objects |-> "CREATED"]
  /\ procs = {} /\ closing = {} /\ dirs = {}
  /\ holder = [o \in Objects |-> NoThread]
  /\ call = [t \in Threads |-> Idle] /\ calls = 0 /\ late = {}

Ask(t) ==
  \/ \E id \in Ids : \/ CreateSession(t, id) \/ Construct(t, id) \/ SetActive(t, id)
                     \/ StopSession(t, id) \/ RemoveSession(t, id)
  \/ ClearActive(t) \/ StopAllSessions(t)
  \/ \E o \in Objects : \/ RegisterSession(t, o) \/ AsksToStart(t, o) \/ AsksToStop(t, o)
                         \/ Fail(t, o) \/ Destroy(t, o)

\* What a thread does inside a call.
Step(t) ==
  \/ RemoveCompares(t) \/ RemoveGoesOn(t)
  \/ (\E o \in Objects : StopAllNext(t, o)) \/ StopAllReturns(t)
  \/ Initialize(t) \/ MakesDirectories(t) \/ InitializeDone(t) \/ InitializeFails(t)
  \/ StartBegins(t) \/ StartSpawns(t) \/ StartDone(t) \/ StartFails(t)
  \/ Refused(t) \/ StopBegins(t) \/ StopDone(t)
  \/ Cleanup(t) \/ Sweep(t) \/ Clean(t)

Next == \E t \in Threads : Ask(t) \/ Step(t)

Spec == Init /\ [][Next]_vars
-----------------------------------------------------------------------------
\* The active session is listed under its own id, whatever is created,
\* registered, designated, removed and created again under the same id.
ActiveIsRegistered == active = None \/ sessions[idOf[active]] = active

\* When the cleanup of a removed or destroyed session is over nothing of it
\* runs, although the manager forgot it before stopping it and cleanup holds no
\* mutex: only a thread that started a removed session meanwhile or afterwards
\* can have it run again.
RemovedIsQuiet ==
  \A o \in procs : \/ o \in Listed \/ o \in late
                   \/ \E t \in Threads : On(t) = o

\* docs/session.md: cleanup removes all generated paths upon termination.  No
\* directories are left of sessions that were removed or destroyed, however an
\* initialize of another thread meets the cleanup.
NoStrayDirectory ==
  \A i \in dirs : \E o \in 1..made :
    idOf[o] = i /\ (o \in Listed \/ o \in late \/ \E t \in Threads : On(t) = o)

\* stop_all_sessions returns when every session listed when it was called is
\* quiet, except the ones a thread asked to start in the meantime.
StopAllStops ==
  [][\A t \in Threads : At(t, "stopAll") /\ call'[t].op = "idle"
       => call[t].due \cap procs' = {}]_vars

\* The claim of the documentation, in which a session is isolated by its own
\* directories: a listed session that runs has them.  It does not hold, since
\* cleanup of a removed session removes the directories of whoever has the id
\* then, under no mutex.
RunningHasDirs == \A o \in Listed : state[o] = "RUNNING" => idOf[o] \in dirs

=============================================================================
