------------------------ MODULE SessionManager_proofs ------------------------
(***************************************************************************)
(* The registry of sessions and the removal of one, for any number of      *)
(* threads, ids, sessions and calls.                                       *)
(***************************************************************************)
EXTENDS SessionManager, TLAPS

Born == 1..made
Forgotten(o) == o \notin Listed /\ o \notin late

\* The thread has the object's mutex for initialize() or start().
Inside(t, o) ==
  /\ On(t) = o
  /\ \/ call[t].op \in {"initializing", "configuring", "starting", "started"}
     \/ At(t, "start") /\ holder[o] = t

\* The thread will stop all children of the object without its mutex.
Sweeping(t, o) == On(t) = o /\ At(t, "sweep")
WillSweep(t, o) ==
  /\ On(t) = o
  /\ \/ call[t].op \in {"check", "cleanup", "sweep"}
     \/ call[t].op \in {"stop", "stopping"} /\ call[t].then \in {"cleanup", "sweep"}

Types ==
  /\ state \in [Objects -> SessionStates] /\ holder \in [Objects -> Threads \cup {NoThread}]
  /\ call \in [Threads -> Calls] /\ procs \subseteq Objects

\* What is listed was made and has its key for an id.
RegistryInv ==
  /\ sessions \in [Ids -> Objects \cup {None}] /\ active \in Objects \cup {None}
  /\ idOf \in [Objects -> Ids] /\ made \in 0..MaxSessions
  /\ \A i \in Ids : sessions[i] # None => sessions[i] \in Born /\ idOf[sessions[i]] = i
  /\ ActiveIsRegistered

ThreadInv(t) ==
  /\ On(t) \in Born \cup {None} /\ call[t].todo \subseteq Born
  /\ call[t].op \notin {"idle", "stopAll"} => On(t) \in Objects
  /\ call[t].op \in Holding => holder[On(t)] = t
  /\ \A o \in Objects : holder[o] = t => On(t) = o /\ call[t].op \in Holding \cup {"start"}
  /\ call[t].op \in {"initializing", "configuring"} => state[On(t)] = "INITIALIZING"
  /\ At(t, "start") /\ holder[On(t)] = t => state[On(t)] = "READY"
  /\ call[t].op \in {"starting", "started"} => state[On(t)] = "STARTING"
  /\ call[t].op \in {"initialize", "start"} /\ holder[On(t)] # t => ~Forgotten(On(t))
  /\ call[t].then # "idle" => \/ call[t].then = "start" /\ call[t].op \in {"initializing", "configuring"}
                              \/ call[t].then # "start" /\ call[t].op \in {"stop", "stopping"}

\* A session that was removed, and that nobody started since, has a thread that
\* is going to sweep it as long as it has children, and one that has not begun
\* to as long as it can get some.
ObjectInv(o) ==
  Forgotten(o) =>
    /\ o \in procs => \E u \in Threads : WillSweep(u, o)
    /\ (\E t \in Threads : Inside(t, o)) => \E u \in Threads : WillSweep(u, o) /\ ~Sweeping(u, o)

SessionsInv ==
  /\ Types /\ RegistryInv /\ (\A t \in Threads : ThreadInv(t))
  /\ (\A o \in Objects : ObjectInv(o))

-----------------------------------------------------------------------------
LEMMA Basics ==
  /\ None \notin Objects /\ NoThread \notin Threads
  /\ Objects \subseteq Nat /\ MaxSessions \in Nat
  BY ManagerAssumption DEF None, Objects

LEMMA BornFacts == ASSUME RegistryInv PROVE Born \subseteq Objects /\ Listed \subseteq Born
  BY ManagerAssumption DEF RegistryInv, Born, Objects, Listed, None

LEMMA IdleCall ==
  /\ Idle \in Calls /\ Idle.op = "idle" /\ Idle.on = None /\ Idle.todo = {} /\ Idle.then = "idle"
  BY DEF Idle, Calls, Ops

LEMMA AboutCall ==
  ASSUME NEW name \in Ops, NEW o \in Objects
  PROVE  /\ About(name, o) \in Calls /\ About(name, o).op = name /\ About(name, o).on = o
         /\ About(name, o).todo = {} /\ About(name, o).then = "idle"
<1>1. About(name, o) = [Idle EXCEPT !.op = name, !.on = o]
  BY DEF About
<1> QED BY <1>1, IdleCall DEF Calls

LEMMA NestedCall ==
  ASSUME NEW o \in Objects, NEW place \in {"cleanup", "sweep"}, NEW c,
         c = [About("stop", o) EXCEPT !.then = place]
  PROVE  /\ c \in Calls /\ c.op = "stop" /\ c.on = o /\ c.todo = {} /\ c.then = place
<1>1. "stop" \in Ops
  BY DEF Ops, Waiting
<1> QED BY <1>1, AboutCall DEF Calls

LEMMA Moving ==
  /\ \A s, to \in SessionStates : SessionMove(s, to) \in SessionStates
  /\ \A s \in SessionStates : SessionCan(s, "INITIALIZING") => SessionMove(s, "INITIALIZING") = "INITIALIZING"
  /\ SessionCan("CREATED", "INITIALIZING")
  /\ SessionMove("INITIALIZING", "READY") = "READY"
  /\ SessionMove("READY", "STARTING") = "STARTING"
  BY DEF SessionMove, SessionCan, SessionEdges, SessionStates

\* The object of a call, the mutex, and what is said of the thread in it.
LEMMA Facts ==
  ASSUME SessionsInv, NEW t \in Threads
  PROVE  /\ call[t] \in Calls /\ On(t) \in Born \cup {None} /\ call[t].todo \subseteq Born
         /\ Born \subseteq Objects /\ None \notin Objects
         /\ call[t].op \notin {"idle", "stopAll"} => On(t) \in Objects /\ On(t) \in Born
         /\ ThreadInv(t)
  BY Basics, BornFacts DEF SessionsInv, Types, ThreadInv

-----------------------------------------------------------------------------
\* A step that changes only what its thread is doing.
LEMMA StillStep ==
  ASSUME SessionsInv, NEW t \in Threads, NEW c \in Calls, call' = [call EXCEPT ![t] = c],
         UNCHANGED <<sessions, active, idOf, made, late, state, holder, procs>>,
         ThreadInv(t)',
         \A o \in Objects : Inside(t, o)' => Inside(t, o),
         \A o \in Objects : WillSweep(t, o) => WillSweep(t, o)',
         \A o \in Objects : Sweeping(t, o)' => Sweeping(t, o) \/ \A u \in Threads : ~Inside(u, o)
  PROVE  SessionsInv'
<1> USE DEF SessionsInv
<1>1. /\ call'[t] = c /\ \A u \in Threads \ {t} : call'[u] = call[u]
      /\ call' \in [Threads -> Calls]
  BY DEF Types
<1>2. Types' /\ RegistryInv'
  BY <1>1 DEF Types, RegistryInv, ActiveIsRegistered, Born
<1>3. \A u \in Threads \ {t}, o \in Objects :
        /\ Inside(u, o)' <=> Inside(u, o)
        /\ WillSweep(u, o)' <=> WillSweep(u, o)
        /\ Sweeping(u, o)' <=> Sweeping(u, o)
  BY <1>1 DEF Inside, WillSweep, Sweeping, On, At
<1>4. Listed' = Listed /\ Born' = Born /\ \A o \in Objects : Forgotten(o)' <=> Forgotten(o)
  BY DEF Listed, Born, Forgotten
<1>5. ASSUME NEW u \in Threads, u # t PROVE ThreadInv(u)'
  BY <1>1, <1>3, <1>4, <1>5 DEF ThreadInv, On, At, Forgotten
<1>6. ASSUME NEW o \in Objects PROVE ObjectInv(o)'
  BY <1>3, <1>4, <1>6 DEF ObjectInv
<1> QED BY <1>2, <1>5, <1>6

\* A step of a thread that has, or can take, the mutex of its object.
LEMMA ObjectStep ==
  ASSUME SessionsInv, NEW t \in Threads, NEW o \in Objects, MutexFree(t, o),
         NEW c \in Calls, call' = [call EXCEPT ![t] = c],
         NEW h \in {t, NoThread}, holder' = [holder EXCEPT ![o] = h],
         NEW s \in SessionStates, state' = [state EXCEPT ![o] = s],
         UNCHANGED <<sessions, active, idOf, made, late>>,
         procs' \subseteq Objects,
         \A p \in Objects : p \in procs' => p \in procs \/ (p = o /\ Inside(t, o)),
         call[t].op \notin {"idle", "stopAll"} => On(t) = o,
         c.op \notin {"idle", "stopAll"} => c.on = o,
         ThreadInv(t)',
         Inside(t, o)' => Inside(t, o) \/ ~Forgotten(o),
         WillSweep(t, o) => WillSweep(t, o)',
         ~Sweeping(t, o), Sweeping(t, o)' => \A u \in Threads : ~Inside(u, o)
  PROVE  SessionsInv'
<1> USE DEF SessionsInv
<1>1. /\ call'[t] = c /\ \A u \in Threads \ {t} : call'[u] = call[u]
      /\ call' \in [Threads -> Calls]
      /\ state'[o] = s /\ holder'[o] = h
      /\ \A p \in Objects \ {o} : state'[p] = state[p] /\ holder'[p] = holder[p]
      /\ state' \in [Objects -> SessionStates] /\ holder' \in [Objects -> Threads \cup {NoThread}]
  BY DEF Types
<1>2. Types' /\ RegistryInv'
  BY <1>1 DEF Types, RegistryInv, ActiveIsRegistered, Born
<1>3. \A u \in Threads \ {t} : holder[o] # u /\ holder'[o] # u
  BY <1>1, Basics DEF MutexFree
<1>4. \A u \in Threads \ {t} :
        /\ call[u].op \in Holding => On(u) # o
        /\ call[u].op \notin {"idle", "stopAll"} => On(u) \in Objects
  BY <1>3 DEF ThreadInv
<1>5. \A u \in Threads \ {t}, p \in Objects :
        /\ Inside(u, p)' <=> Inside(u, p)
        /\ WillSweep(u, p)' <=> WillSweep(u, p)
        /\ Sweeping(u, p)' <=> Sweeping(u, p)
  <2>1. \A u \in Threads \ {t}, p \in Objects : holder'[p] = u <=> holder[p] = u
    BY <1>1, <1>3
  <2> QED BY <1>1, <2>1 DEF Inside, WillSweep, Sweeping, On, At
<1>6. \A p \in Objects \ {o} :
        /\ Inside(t, p)' => FALSE
        /\ WillSweep(t, p) => FALSE
        /\ Sweeping(t, p)' => FALSE
  BY <1>1 DEF Inside, WillSweep, Sweeping, On, At
<1>7. Listed' = Listed /\ Born' = Born /\ \A p \in Objects : Forgotten(p)' <=> Forgotten(p)
  BY DEF Listed, Born, Forgotten
<1>8. ASSUME NEW u \in Threads, u # t PROVE ThreadInv(u)'
  <2>1. /\ ThreadInv(u) /\ call'[u] = call[u]
        /\ On(u) # o /\ On(u) \in Objects =>
             holder'[On(u)] = holder[On(u)] /\ state'[On(u)] = state[On(u)]
        /\ On(u) = o => holder[On(u)] # u /\ holder'[On(u)] # u
    BY <1>1, <1>3, <1>8
  <2>2. \A p \in Objects : holder'[p] = u => holder[p] = u
    BY <1>1, <1>3, <1>8
  <2>3. /\ On(u)' = On(u) /\ On(u) \in Born \cup {None} /\ call[u].todo \subseteq Born
        /\ call[u].op \in Holding =>
             On(u) # o /\ On(u) \in Objects
    BY <1>4, <1>8, <2>1 DEF ThreadInv, On, Holding
  <2>4. call[u].op \in Holding =>
          holder'[On(u)] = u /\ state'[On(u)] = state[On(u)]
    BY <2>1, <2>3 DEF ThreadInv
  <2>5. At(u, "start") /\ holder'[On(u)] = u => state'[On(u)] = "READY"
    BY <2>1, <2>2 DEF ThreadInv, At
  <2>6. call[u].op \in {"initialize", "start"} /\ holder'[On(u)] # u => ~Forgotten(On(u))
    BY <2>1 DEF ThreadInv
  <2> QED
    BY <1>5, <1>7, <1>8, <2>1, <2>2, <2>3, <2>4, <2>5, <2>6 DEF ThreadInv, At, On, Holding, Forgotten
<1>9. ASSUME NEW p \in Objects PROVE ObjectInv(p)'
  BY <1>5, <1>6, <1>7, <1>9 DEF ObjectInv
<1> QED BY <1>2, <1>8, <1>9

\* A step after which its thread has no mutex and does not wait to start anything.
LEMMA WaitStep ==
  ASSUME SessionsInv, NEW t \in Threads, NEW c \in Calls, call' = [call EXCEPT ![t] = c],
         UNCHANGED <<sessions, active, idOf, made, late, state, holder, procs>>,
         c.op \in {"idle", "stopAll", "stop"} \cup Removing,
         \A o \in Objects : holder[o] # t,
         c.on \in Born \cup {None}, c.todo \subseteq Born,
         c.op \notin {"idle", "stopAll"} => c.on \in Objects,
         c.then # "idle" => c.then # "start" /\ c.op = "stop",
         \A o \in Objects : WillSweep(t, o) =>
           c.on = o /\ (c.op \in {"check", "cleanup", "sweep"} \/ c.then \in {"cleanup", "sweep"}),
         c.op = "sweep" => Sweeping(t, c.on) \/ \A u \in Threads : ~Inside(u, c.on)
  PROVE  SessionsInv'
<1>1. call'[t] = c
  BY DEF SessionsInv, Types
<1>2. Listed' = Listed /\ Born' = Born
  BY DEF Listed, Born
<1>3. ThreadInv(t)'
  BY <1>1, <1>2 DEF ThreadInv, WillSweep, On, At, Holding, Removing
<1>4. \A o \in Objects : /\ Inside(t, o)' => FALSE
                         /\ WillSweep(t, o) => WillSweep(t, o)'
                         /\ Sweeping(t, o)' => Sweeping(t, o) \/ \A u \in Threads : ~Inside(u, o)
  BY <1>1 DEF Inside, WillSweep, Sweeping, On, At, Removing
<1> QED BY <1>3, <1>4, StillStep

\* Whoever is inside a session has it on its way up.
LEMMA InsideIsOngoing ==
  ASSUME SessionsInv, NEW u \in Threads, NEW o \in Objects, Inside(u, o)
  PROVE  state[o] \in {"INITIALIZING", "READY", "STARTING"} /\ holder[o] = u
  BY DEF SessionsInv, ThreadInv, Inside, At, Holding

-----------------------------------------------------------------------------
\* Calls that stop one session.
LEMMA AsksToStopSteps ==
  ASSUME SessionsInv, NEW t \in Threads,
         \/ \E id \in Ids : StopSession(t, id)
         \/ \E o \in Objects : AsksToStop(t, o)
  PROVE  SessionsInv'
<1>1. PICK o \in Objects :
        /\ o \in Born /\ call' = [call EXCEPT ![t] = About("stop", o)]
        /\ UNCHANGED <<sessions, active, idOf, made, late, state, holder, procs>>
  BY BornFacts DEF StopSession, AsksToStop, SessionsInv, RegistryInv, Goes, Known, registry, identity,
                   resources, Born
<1>2. call[t].op = "idle"
  BY DEF StopSession, AsksToStop, Asks, At
<1> DEFINE c == About("stop", o)
<1>3. /\ c \in Calls /\ c.op = "stop" /\ c.on = o /\ c.todo = {} /\ c.then = "idle"
      /\ call' = [call EXCEPT ![t] = c]
  BY <1>1, AboutCall DEF Ops, Waiting
<1>4. /\ \A p \in Objects : holder[p] # t /\ ~WillSweep(t, p)
  BY <1>2, Facts DEF ThreadInv, Holding, WillSweep
<1> HIDE DEF c
<1> QED BY <1>1, <1>3, <1>4, WaitStep

\* stop_all_sessions.
LEMMA StopAllSteps ==
  ASSUME SessionsInv, NEW t \in Threads,
         StopAllSessions(t) \/ StopAllReturns(t) \/ \E o \in Objects : StopAllNext(t, o)
  PROVE  SessionsInv'
<1>1. /\ UNCHANGED <<sessions, active, idOf, made, late, state, holder, procs>>
      /\ call[t].op \in {"idle", "stopAll"}
  BY DEF StopAllSessions, StopAllReturns, StopAllNext, registry, identity, resources, Asks, At
<1>2. /\ \A p \in Objects : holder[p] # t /\ ~WillSweep(t, p)
  BY <1>1, Facts DEF ThreadInv, Holding, WillSweep
<1>3. CASE StopAllSessions(t)
  <2> DEFINE c == [Idle EXCEPT !.op = "stopAll", !.todo = Copy,
                               !.due = {o \in Listed : ~AskedToStart(o)}]
  <2>1. Listed \subseteq Born /\ Born \subseteq Objects
    BY BornFacts DEF SessionsInv
  <2>2. c \in Calls /\ c.op = "stopAll" /\ c.on = None /\ c.todo = Listed /\ c.then = "idle"
    BY <2>1, IdleCall DEF Copy, Calls, Ops
  <2>3. call' = [call EXCEPT ![t] = c]
    BY <1>3 DEF StopAllSessions, Goes
  <2> HIDE DEF c
  <2> QED BY <1>1, <1>2, <2>1, <2>2, <2>3, WaitStep
<1>4. CASE StopAllReturns(t)
  <2>1. call' = [call EXCEPT ![t] = Idle]
    BY <1>4 DEF StopAllReturns, Goes
  <2> QED BY <1>1, <1>2, <2>1, IdleCall, WaitStep
<1>5. ASSUME NEW o \in Objects, StopAllNext(t, o) PROVE SessionsInv'
  <2> DEFINE c == [call[t] EXCEPT !.op = "stop", !.on = o, !.then = "stopAll",
                                  !.todo = call[t].todo \ {o}]
  <2>1. /\ call' = [call EXCEPT ![t] = c] /\ o \in call[t].todo
    BY <1>5 DEF StopAllNext, Goes
  <2>2. o \in Born /\ call[t].todo \subseteq Born /\ call[t] \in Calls
    BY <2>1, Facts
  <2>3. /\ c \in Calls /\ c.op = "stop" /\ c.on = o /\ c.then = "stopAll" /\ c.todo \subseteq Born
    BY <2>2 DEF Calls, Ops, Waiting
  <2> HIDE DEF c
  <2> QED BY <1>1, <1>2, <2>1, <2>2, <2>3, WaitStep
<1> QED BY <1>3, <1>4, <1>5

\* remove_session after the entry is gone, and cleanup.
LEMMA CompareStep ==
  ASSUME SessionsInv, NEW t \in Threads, RemoveCompares(t) PROVE SessionsInv'
<1>1. PICK o \in Objects : o = On(t) /\ o \in Born
  BY Facts DEF RemoveCompares, At
<1>2. /\ UNCHANGED <<sessions, active, idOf, made, late, state, holder, procs>>
      /\ call[t].op = "check" /\ call[t].then = "idle" /\ call[t].left # <<>>
      /\ call[t] \in Calls /\ call[t].todo \subseteq Born /\ call[t].on = o
  BY <1>1, Facts DEF RemoveCompares, registry, identity, resources, At, ThreadInv, On
<1>3. /\ \A p \in Objects : holder[p] # t /\ (WillSweep(t, p) => p = o)
  BY <1>1, <1>2, Facts DEF ThreadInv, Holding, WillSweep
<1>4. CASE state[o] = Head(call[t].left)
  <2> DEFINE c == [About("stop", o) EXCEPT !.then = "cleanup"]
  <2>1. c \in Calls /\ c.op = "stop" /\ c.on = o /\ c.todo = {} /\ c.then = "cleanup"
    BY NestedCall
  <2>2. call' = [call EXCEPT ![t] = c]
    BY <1>1, <1>4 DEF RemoveCompares, Goes
  <2> HIDE DEF c
  <2> QED BY <1>1, <1>2, <1>3, <2>1, <2>2, WaitStep
<1>5. CASE state[o] # Head(call[t].left)
  <2> DEFINE c == [call[t] EXCEPT !.left = Tail(call[t].left)]
  <2>1. Tail(call[t].left) \in Seq({"RUNNING", "STARTING", "READY"})
    BY <1>2 DEF Calls
  <2>2. /\ c \in Calls /\ c.op = "check" /\ c.on = o /\ c.todo \subseteq Born /\ c.then = "idle"
    BY <1>2, <2>1 DEF Calls
  <2>3. call' = [call EXCEPT ![t] = c]
    BY <1>1, <1>5 DEF RemoveCompares, Goes
  <2> HIDE DEF c
  <2> QED BY <1>1, <1>2, <1>3, <2>2, <2>3, WaitStep DEF Removing
<1> QED BY <1>4, <1>5

LEMMA CleanupSteps ==
  ASSUME SessionsInv, NEW t \in Threads, RemoveGoesOn(t) \/ Cleanup(t) \/ Clean(t)
  PROVE  SessionsInv'
<1>1. PICK o \in Objects : o = On(t) /\ o \in Born
  BY Facts DEF RemoveGoesOn, Cleanup, Clean, At
<1>2. /\ UNCHANGED <<sessions, active, idOf, made, late, state, holder, procs>>
      /\ call[t].op \in {"check", "cleanup", "clean"}
  BY DEF RemoveGoesOn, Cleanup, Clean, registry, identity, resources, At
<1>3. /\ \A p \in Objects : holder[p] # t /\ (WillSweep(t, p) => p = o /\ call[t].op # "clean")
  BY <1>1, <1>2, Facts DEF ThreadInv, Holding, WillSweep
<1>4. CASE RemoveGoesOn(t)
  <2> DEFINE c == About("cleanup", o)
  <2>1. call' = [call EXCEPT ![t] = c] /\ call[t].op = "check"
    BY <1>1, <1>4 DEF RemoveGoesOn, Goes, At
  <2>2. c \in Calls /\ c.op = "cleanup" /\ c.on = o /\ c.todo = {} /\ c.then = "idle"
    BY AboutCall DEF Ops, Removing
  <2> HIDE DEF c
  <2> QED BY <1>1, <1>2, <1>3, <2>1, <2>2, WaitStep DEF Removing
<1>5. CASE Cleanup(t)
  <2>1. call[t].op = "cleanup"
    BY <1>5 DEF Cleanup, At
  <2>2. CASE state[o] \in Ongoing
    <3> DEFINE c == [About("stop", o) EXCEPT !.then = "sweep"]
    <3>1. c \in Calls /\ c.op = "stop" /\ c.on = o /\ c.todo = {} /\ c.then = "sweep"
      BY NestedCall
    <3>2. call' = [call EXCEPT ![t] = c]
      BY <1>1, <1>5, <2>2 DEF Cleanup, Goes
    <3> HIDE DEF c
    <3> QED BY <1>1, <1>2, <1>3, <2>1, <3>1, <3>2, WaitStep
  <2>3. CASE state[o] \notin Ongoing
    <3> DEFINE c == About("sweep", o)
    <3>1. call' = [call EXCEPT ![t] = c]
      BY <1>1, <1>5, <2>3 DEF Cleanup, Goes
    <3>2. \A u \in Threads : ~Inside(u, o)
      BY <2>3, InsideIsOngoing DEF Ongoing
    <3>3. c \in Calls /\ c.op = "sweep" /\ c.on = o /\ c.todo = {} /\ c.then = "idle"
      BY AboutCall DEF Ops, Removing
    <3> HIDE DEF c
    <3>4. /\ c.op \in {"idle", "stopAll", "stop"} \cup Removing
          /\ c.on \in Born \cup {None} /\ c.todo \subseteq Born /\ c.on \in Objects
          /\ c.then = "idle"
          /\ \A u \in Threads : ~Inside(u, c.on)
          /\ \A p \in Objects : holder[p] # t /\ (WillSweep(t, p) => c.on = p /\ c.op = "sweep")
      BY <1>1, <1>2, <1>3, <2>1, <3>2, <3>3 DEF Removing
    <3> QED BY <1>2, <3>1, <3>3, <3>4, WaitStep
  <2> QED BY <2>2, <2>3
<1>6. CASE Clean(t)
  <2>1. call' = [call EXCEPT ![t] = Idle] /\ call[t].op = "clean"
    BY <1>6 DEF Clean, Goes, At
  <2> QED BY <1>2, <1>3, <2>1, IdleCall, WaitStep
<1> QED BY <1>4, <1>5, <1>6

\* What follows a nested call that ends.
LEMMA ThenCall ==
  ASSUME NEW t \in Threads, call[t] \in Calls
  PROVE  /\ Then(t) \in Calls /\ Then(t).op = call[t].then /\ Then(t).then = "idle"
         /\ Then(t).todo = call[t].todo
         /\ call[t].then \in {"idle", "stopAll"} => Then(t).on = None
         /\ call[t].then \notin {"idle", "stopAll"} => Then(t).on = On(t)
<1>1. Then(t) = [call[t] EXCEPT !.op = call[t].then, !.then = "idle",
                                !.on = IF call[t].then \in {"idle", "stopAll"} THEN None ELSE call[t].on]
  BY DEF Then
<1>2. call[t].then \in Ops
  BY DEF Calls, Ops, Waiting, Removing
<1> QED BY <1>1, <1>2 DEF Calls, On

\* initialize, start and stop in a state that does not allow them.
LEMMA RefusedStep ==
  ASSUME SessionsInv, NEW t \in Threads, Refused(t) PROVE SessionsInv'
<1>1. PICK o \in Objects : o = On(t) /\ o \in Born /\ call[t] \in Calls
                           /\ call[t].todo \subseteq Born /\ ThreadInv(t)
  BY Facts DEF Refused, At
<1>2. /\ UNCHANGED <<sessions, active, idOf, made, late, state, holder, procs>>
      /\ call[t].op \in {"initialize", "start", "stop"}
      /\ call' = [call EXCEPT ![t] = Then(t)]
      /\ call[t].op = "start" => state[o] # "READY"
      /\ call[t].op = "stop" => state[o] \notin Stoppable
  BY <1>1 DEF Refused, registry, identity, resources, At, Goes
<1>3. \A p \in Objects : holder[p] # t
  BY <1>1, <1>2 DEF ThreadInv, Holding, At
<1>4. /\ call[t].then # "start" /\ call[t].op # "stop" => call[t].then = "idle"
      /\ call[t].then \in {"idle", "stopAll", "cleanup", "sweep"}
  BY <1>1, <1>2 DEF ThreadInv, At, Calls
<1>5. PICK c \in Calls :
        /\ c = Then(t) /\ c.op = call[t].then /\ c.then = "idle" /\ c.todo = call[t].todo
        /\ call[t].then \in {"idle", "stopAll"} => c.on = None
        /\ call[t].then \notin {"idle", "stopAll"} => c.on = o
  BY <1>1, ThenCall
<1>6. \A p \in Objects : WillSweep(t, p) => p = o /\ call[t].then \in {"cleanup", "sweep"}
  BY <1>1, <1>2 DEF WillSweep
<1>7. call[t].op = "stop" => \A u \in Threads : ~Inside(u, o)
  BY <1>2, InsideIsOngoing DEF Stoppable, Ongoing
<1>8. c.op \in {"idle", "stopAll", "stop"} \cup Removing
  BY <1>4, <1>5 DEF Removing
<1>9. /\ call' = [call EXCEPT ![t] = c] /\ c.on \in Born \cup {None} /\ c.todo \subseteq Born
      /\ c.op \notin {"idle", "stopAll"} => c.on = o /\ c.on \in Objects
      /\ c.then # "idle" => c.then # "start" /\ c.op = "stop"
  BY <1>1, <1>2, <1>4, <1>5
<1>10. \A p \in Objects : WillSweep(t, p) =>
         c.on = p /\ (c.op \in {"check", "cleanup", "sweep"} \/ c.then \in {"cleanup", "sweep"})
  BY <1>5, <1>6
<1>11. c.op = "sweep" => \A u \in Threads : ~Inside(u, c.on)
  BY <1>4, <1>5, <1>7, <1>9, <1>2
<1>12. UNCHANGED <<sessions, active, idOf, made, late, state, holder, procs>>
  BY <1>2
<1> QED BY ONLY SessionsInv, t \in Threads, c \in Calls, <1>3, <1>8, <1>9, <1>10, <1>11, <1>12, WaitStep

-----------------------------------------------------------------------------
\* A step on an object whose mutex its thread has or can take, by where it
\* leaves the thread, the mutex and the state.
LEMMA LockStep ==
  ASSUME SessionsInv, NEW t \in Threads, NEW o \in Objects, o \in Born, MutexFree(t, o),
         NEW c \in Calls, call' = [call EXCEPT ![t] = c],
         NEW h \in {t, NoThread}, holder' = [holder EXCEPT ![o] = h],
         NEW s \in SessionStates, state' = [state EXCEPT ![o] = s],
         UNCHANGED <<sessions, active, idOf, made, late>>,
         procs' \subseteq Objects,
         \A p \in Objects : p \in procs' => p \in procs \/ (p = o /\ Inside(t, o)),
         call[t].op \notin {"idle", "stopAll"} => On(t) = o, call[t].op # "sweep",
         c.op \in Holding => c.on = o /\ h = t,
         h = t => c.on = o /\ c.op \in Holding \cup {"start"},
         c.on \in {o, None}, c.op \notin {"idle", "stopAll"} => c.on = o, c.todo \subseteq Born,
         c.op \notin {"initialize", "check"},
         c.op \in {"initializing", "configuring"} => s = "INITIALIZING", c.op = "start" => h = t /\ s = "READY",
         c.op \in {"starting", "started"} => s = "STARTING",
         c.op \in {"initializing", "configuring", "starting", "started", "start"} =>
           Inside(t, o) \/ ~Forgotten(o),
         c.then # "idle" => \/ c.then = "start" /\ c.op \in {"initializing", "configuring"}
                            \/ c.then # "start" /\ c.op \in {"stop", "stopping"},
         WillSweep(t, o) => c.on = o /\ (c.op \in {"cleanup", "sweep"} \/ c.then \in {"cleanup", "sweep"}),
         c.op = "sweep" => \A u \in Threads : ~Inside(u, o)
  PROVE  SessionsInv'
<1>1. /\ call'[t] = c /\ state'[o] = s /\ holder'[o] = h
      /\ \A p \in Objects \ {o} : holder'[p] = holder[p]
  BY DEF SessionsInv, Types
<1>2. Listed' = Listed /\ Born' = Born /\ (Forgotten(o)' <=> Forgotten(o))
  BY DEF Listed, Born, Forgotten
<1>3. \A p \in Objects \ {o} : holder[p] # t
  BY Facts DEF ThreadInv, Holding
<1>4. o # None
  BY Basics
<1>5. ThreadInv(t)'
  <2>1. On(t)' = c.on /\ \A name : At(t, name)' <=> c.op = name
    BY <1>1 DEF On, At
  <2>2. \A p \in Objects : holder'[p] = t => c.on = p /\ c.op \in Holding \cup {"start"}
    BY <1>1, <1>3
  <2>3. c.op \in Holding => holder'[c.on] = t
    BY <1>1
  <2>4. /\ c.op \in {"initializing", "configuring"} => state'[c.on] = "INITIALIZING"
        /\ c.op = "start" /\ holder'[c.on] = t => state'[c.on] = "READY"
        /\ c.op \in {"starting", "started"} => state'[c.on] = "STARTING"
    BY <1>1
  <2>5. c.op \in {"initialize", "start"} /\ holder'[c.on] # t => ~Forgotten(c.on)
    BY <1>1
  <2>6. c.on \in Born \cup {None} /\ (c.op \notin {"idle", "stopAll"} => c.on \in Objects)
    OBVIOUS
  <2> QED BY <1>1, <1>2, <2>1, <2>2, <2>3, <2>4, <2>5, <2>6 DEF ThreadInv, Forgotten
<1>6. /\ Inside(t, o)' => Inside(t, o) \/ ~Forgotten(o)
      /\ WillSweep(t, o) => WillSweep(t, o)'
      /\ ~Sweeping(t, o) /\ (Sweeping(t, o)' => \A u \in Threads : ~Inside(u, o))
  BY <1>1 DEF Inside, WillSweep, Sweeping, On, At
<1> QED BY <1>5, <1>6, ObjectStep

\* What a thread at a place of initialize, start or stop knows.
LEMMA AtPlace ==
  ASSUME SessionsInv, NEW t \in Threads,
         call[t].op \in Waiting \cup Holding
  PROVE  /\ On(t) \in Objects /\ On(t) \in Born /\ call[t] \in Calls /\ ThreadInv(t)
         /\ call[t].todo \subseteq Born /\ call[t].on = On(t)
         /\ state[On(t)] \in SessionStates /\ procs \subseteq Objects
         /\ call[t].op \in Holding => /\ holder[On(t)] = t /\ MutexFree(t, On(t))
                                      /\ holder = [holder EXCEPT ![On(t)] = t]
         /\ state = [state EXCEPT ![On(t)] = state[On(t)]]
         /\ ~WillSweep(t, On(t)) \/ call[t].op \in {"stop", "stopping"}
<1>1. /\ On(t) \in Objects /\ On(t) \in Born /\ call[t] \in Calls /\ ThreadInv(t)
      /\ call[t].todo \subseteq Born
  BY Facts DEF Waiting, Holding
<1>2. /\ state \in [Objects -> SessionStates] /\ holder \in [Objects -> Threads \cup {NoThread}]
      /\ procs \subseteq Objects
  BY DEF SessionsInv, Types
<1>3. call[t].op \in Holding => holder[On(t)] = t
  BY <1>1 DEF ThreadInv
<1>4. ~WillSweep(t, On(t)) \/ call[t].op \in {"stop", "stopping"}
  BY DEF Waiting, Holding, WillSweep
<1> QED BY <1>1, <1>2, <1>3, <1>4 DEF On, MutexFree

LEMMA InitializeStep ==
  ASSUME SessionsInv, NEW t \in Threads, Initialize(t) PROVE SessionsInv'
<1>1. call[t].op \in {"initialize", "start"}
  BY DEF Initialize, At
<1>2. PICK o \in Objects : o = On(t)
  BY <1>1, AtPlace DEF Waiting
<1> DEFINE c == [call[t] EXCEPT !.op = "initializing",
                                !.then = IF At(t, "start") THEN "start" ELSE "idle"]
<1>3. /\ o \in Born /\ call[t] \in Calls /\ ThreadInv(t) /\ call[t].todo \subseteq Born
      /\ call[t].on = o /\ state[o] \in SessionStates /\ procs \subseteq Objects
      /\ ~WillSweep(t, o)
  BY <1>1, <1>2, AtPlace DEF Waiting
<1>4. /\ c \in Calls /\ c.op = "initializing" /\ c.on = o /\ c.todo = call[t].todo
      /\ c.then \in {"idle", "start"}
  BY <1>3 DEF Calls, Ops, Holding
<1>5. /\ call' = [call EXCEPT ![t] = c] /\ MutexFree(t, o)
      /\ holder' = [holder EXCEPT ![o] = t]
      /\ UNCHANGED <<sessions, active, idOf, made, late, procs>>
  BY <1>2 DEF Initialize, Goes, Locks, registry, identity, resources
<1> HIDE DEF c
<1>6. SessionCan(state[o], "INITIALIZING")
  BY <1>2, Moving DEF Initialize
<1>7. PICK s \in SessionStates : s = "INITIALIZING" /\ state' = [state EXCEPT ![o] = s]
  <2>1. state' = [state EXCEPT ![o] = SessionMove(state[o], "INITIALIZING")]
    BY <1>2 DEF Initialize, Moves
  <2>2. SessionMove(state[o], "INITIALIZING") = "INITIALIZING"
    BY <1>3, <1>6, Moving
  <2> QED BY <2>1, <2>2 DEF SessionStates
<1>8. Inside(t, o) \/ ~Forgotten(o)
  BY <1>1, <1>2, <1>3 DEF ThreadInv, Inside, At, Holding
<1> QED BY <1>1, <1>2, <1>3, <1>4, <1>5, <1>7, <1>8, LockStep DEF Holding

LEMMA MakesDirectoriesStep ==
  ASSUME SessionsInv, NEW t \in Threads, MakesDirectories(t) PROVE SessionsInv'
<1>1. call[t].op = "initializing"
  BY DEF MakesDirectories, At
<1>2. PICK o \in Objects : o = On(t)
  BY <1>1, AtPlace DEF Holding
<1> DEFINE c == [call[t] EXCEPT !.op = "configuring"]
<1>3. /\ o \in Born /\ call[t] \in Calls /\ ThreadInv(t) /\ call[t].todo \subseteq Born
      /\ call[t].on = o /\ state[o] \in SessionStates /\ procs \subseteq Objects
      /\ ~WillSweep(t, o) /\ MutexFree(t, o) /\ holder = [holder EXCEPT ![o] = t]
      /\ state = [state EXCEPT ![o] = state[o]]
  BY <1>1, <1>2, AtPlace DEF Holding
<1>4. state[o] = "INITIALIZING" /\ call[t].then \in {"idle", "start"} /\ Inside(t, o)
  BY <1>1, <1>2, <1>3 DEF ThreadInv, At, Inside
<1>5. /\ c \in Calls /\ c.op = "configuring" /\ c.on = o /\ c.todo = call[t].todo
      /\ c.then \in {"idle", "start"}
  BY <1>3, <1>4 DEF Calls, Ops, Holding
<1>6. /\ call' = [call EXCEPT ![t] = c] /\ procs' \subseteq procs
      /\ UNCHANGED <<sessions, active, idOf, made, late, state, holder>>
  BY DEF MakesDirectories, Goes, registry, identity
<1> HIDE DEF c
<1>7. PICK s \in SessionStates : s = "INITIALIZING" /\ state' = [state EXCEPT ![o] = s]
  BY <1>3, <1>4, <1>6
<1>8. PICK h \in {t, NoThread} : h = t /\ holder' = [holder EXCEPT ![o] = h]
  BY <1>3, <1>6
<1>9. /\ call[t].op \notin {"idle", "stopAll"} => On(t) = o
      /\ call[t].op # "sweep" /\ procs' \subseteq Objects
      /\ \A p \in Objects : p \in procs' => p \in procs
      /\ c.op \in Holding => c.on = o /\ h = t
      /\ h = t => c.on = o /\ c.op \in Holding \cup {"start"}
      /\ c.on \in {o, None} /\ c.todo \subseteq Born
      /\ c.op \notin {"initialize", "check", "start", "starting", "started", "cleanup", "sweep"}
      /\ UNCHANGED <<sessions, active, idOf, made, late>>
      /\ o \in Born /\ MutexFree(t, o) /\ ~WillSweep(t, o) /\ call' = [call EXCEPT ![t] = c]
  BY <1>1, <1>2, <1>3, <1>5, <1>6, <1>8 DEF Holding
<1> QED BY ONLY SessionsInv, t \in Threads, o \in Objects, h \in {t, NoThread}, s \in SessionStates,
                <1>4, <1>5, <1>7, <1>8, <1>9, LockStep

LEMMA InitializeDoneStep ==
  ASSUME SessionsInv, NEW t \in Threads, InitializeDone(t) PROVE SessionsInv'
<1>1. call[t].op = "configuring"
  BY DEF InitializeDone, At
<1>2. PICK o \in Objects : o = On(t)
  BY <1>1, AtPlace DEF Holding
<1>3. /\ o \in Born /\ call[t] \in Calls /\ ThreadInv(t) /\ call[t].todo \subseteq Born
      /\ procs \subseteq Objects /\ ~WillSweep(t, o) /\ holder[o] = t /\ MutexFree(t, o)
      /\ holder = [holder EXCEPT ![o] = t]
  BY <1>1, <1>2, AtPlace DEF Holding
<1>4. /\ state[o] = "INITIALIZING" /\ call[t].then \in {"idle", "start"} /\ Inside(t, o)
  BY <1>1, <1>2, <1>3 DEF ThreadInv, At, Inside
<1>5. PICK c \in Calls :
        /\ c = Then(t) /\ c.op = call[t].then /\ c.then = "idle" /\ c.todo = call[t].todo
        /\ c.on = IF call[t].then = "start" THEN o ELSE None
  BY <1>2, <1>3, <1>4, ThenCall
<1>6. PICK h \in {t, NoThread} :
        /\ holder' = [holder EXCEPT ![o] = h] /\ (h = t <=> call[t].then = "start")
  BY <1>2, <1>3, Basics DEF InitializeDone, Unlocks
<1>7. PICK s \in SessionStates : s = "READY" /\ state' = [state EXCEPT ![o] = s]
  <2>1. state' = [state EXCEPT ![o] = SessionMove(state[o], "READY")]
    BY <1>2 DEF InitializeDone, Moves
  <2>2. SessionMove(state[o], "READY") = "READY"
    BY <1>4, Moving
  <2> QED BY <2>1, <2>2 DEF SessionStates
<1>8. /\ call' = [call EXCEPT ![t] = c] /\ procs' = procs
      /\ UNCHANGED <<sessions, active, idOf, made, late>>
  BY <1>5 DEF InitializeDone, Goes, registry, identity, resources
<1>9. /\ c.op \notin Holding /\ (h = t => c.on = o /\ c.op = "start") /\ c.on \in {o, None}
      /\ (c.op # "idle" => c.on = o /\ h = t /\ c.op = "start") /\ c.todo \subseteq Born
  BY <1>3, <1>4, <1>5, <1>6 DEF Holding
<1> QED BY <1>1, <1>2, <1>3, <1>4, <1>5, <1>6, <1>7, <1>8, <1>9, LockStep

\* A call that ends with the mutex given back.
LEMMA ReleaseStep ==
  ASSUME SessionsInv, NEW t \in Threads, NEW o \in Objects, o = On(t), call[t].op \in Holding \ {"stopping"},
         call' = [call EXCEPT ![t] = Idle], holder' = [holder EXCEPT ![o] = NoThread],
         NEW to \in SessionStates, state' = [state EXCEPT ![o] = SessionMove(state[o], to)],
         UNCHANGED <<sessions, active, idOf, made, late>>, procs' \subseteq procs
  PROVE  SessionsInv'
<1>1. /\ o \in Born /\ procs \subseteq Objects /\ ~WillSweep(t, o) /\ MutexFree(t, o)
      /\ state[o] \in SessionStates
  BY AtPlace DEF Holding
<1>2. PICK s \in SessionStates : state' = [state EXCEPT ![o] = s]
  BY <1>1, Moving
<1>3. PICK h \in {t, NoThread} : h = NoThread
  OBVIOUS
<1>4. PICK c \in Calls : /\ c.op = "idle" /\ c.on = None /\ c.todo = {} /\ c.then = "idle"
                         /\ call' = [call EXCEPT ![t] = c]
  BY IdleCall
<1>5. /\ h # t /\ c.op \notin Holding /\ holder' = [holder EXCEPT ![o] = h]
      /\ procs' \subseteq Objects /\ call[t].op # "sweep"
  BY <1>1, <1>3, <1>4, Basics DEF Holding
<1>6. /\ c.op \notin {"initialize", "check", "initializing", "configuring", "start", "starting", "started",
                     "cleanup", "sweep"}
      /\ c.then = "idle" /\ c.on \in {o, None} /\ c.todo \subseteq Born
      /\ \A p \in Objects : p \in procs' => p \in procs
      /\ UNCHANGED <<sessions, active, idOf, made, late>>
  BY <1>4
<1>7. /\ state' = [state EXCEPT ![o] = s] /\ call' = [call EXCEPT ![t] = c]
      /\ call[t].op \notin {"idle", "stopAll"} => On(t) = o
      /\ c.op \in Holding => c.on = o /\ h = t
      /\ h = t => c.on = o /\ c.op \in Holding \cup {"start"}
      /\ c.op = "start" => h = t /\ s = "READY"
      /\ c.op \in {"initializing", "configuring"} => s = "INITIALIZING"
      /\ c.op \in {"starting", "started"} => s = "STARTING"
      /\ c.op \in {"initializing", "configuring", "starting", "started", "start"} =>
           Inside(t, o) \/ ~Forgotten(o)
      /\ c.then # "idle" => \/ c.then = "start" /\ c.op \in {"initializing", "configuring"}
                            \/ c.then # "start" /\ c.op \in {"stop", "stopping"}
      /\ WillSweep(t, o) => c.on = o /\ (c.op \in {"cleanup", "sweep"} \/ c.then \in {"cleanup", "sweep"})
      /\ c.op = "sweep" => \A u \in Threads : ~Inside(u, o)
  BY <1>1, <1>2, <1>4, <1>5, <1>6
<1>8. /\ \A p \in Objects : p \in procs' => p \in procs \/ (p = o /\ Inside(t, o))
      /\ c.op \notin {"idle", "stopAll"} => c.on = o
      /\ c.op \notin {"initialize", "check"}
  BY <1>4, <1>6
<1> QED BY ONLY SessionsInv, t \in Threads, <1>1, <1>5, <1>6, <1>7, <1>8, o \in Objects, s \in SessionStates,
                c \in Calls, h \in {t, NoThread}, LockStep

LEMMA ReleaseSteps ==
  ASSUME SessionsInv, NEW t \in Threads, InitializeFails(t) \/ StartDone(t) \/ StartFails(t)
  PROVE  SessionsInv'
<1>1. call[t].op \in Holding \ {"stopping"}
  BY DEF InitializeFails, StartDone, StartFails, At, Holding
<1>2. PICK o \in Objects : o = On(t)
  BY <1>1, AtPlace
<1>3. /\ call' = [call EXCEPT ![t] = Idle] /\ holder' = [holder EXCEPT ![o] = NoThread]
      /\ UNCHANGED <<sessions, active, idOf, made, late>> /\ procs' \subseteq procs
  BY <1>2 DEF InitializeFails, StartDone, StartFails, Goes, Unlocks, registry, identity, resources,
              StopsChildren
<1>4. \E to \in {"FAILED", "RUNNING"} : state' = [state EXCEPT ![o] = SessionMove(state[o], to)]
  BY <1>2 DEF InitializeFails, StartDone, StartFails, Moves
<1> QED BY <1>1, <1>2, <1>3, <1>4, ReleaseStep DEF SessionStates

LEMMA StartSteps ==
  ASSUME SessionsInv, NEW t \in Threads, StartBegins(t) \/ StartSpawns(t) PROVE SessionsInv'
<1>1. call[t].op \in {"start", "starting"}
  BY DEF StartBegins, StartSpawns, At
<1>2. PICK o \in Objects : o = On(t)
  BY <1>1, AtPlace DEF Waiting, Holding
<1>3. /\ o \in Born /\ call[t] \in Calls /\ ThreadInv(t) /\ call[t].todo \subseteq Born
      /\ call[t].on = o /\ state[o] \in SessionStates /\ procs \subseteq Objects /\ ~WillSweep(t, o)
      /\ call[t].op = "starting" => holder[o] = t /\ holder = [holder EXCEPT ![o] = t]
      /\ state = [state EXCEPT ![o] = state[o]]
  BY <1>1, <1>2, AtPlace DEF Waiting, Holding
<1> DEFINE place == IF At(t, "start") THEN "starting" ELSE "started"
           c == [call[t] EXCEPT !.op = place, !.then = "idle"]
<1>4. /\ c \in Calls /\ c.op \in {"starting", "started"} /\ c.on = o /\ c.todo \subseteq Born
      /\ c.then = "idle"
  BY <1>3 DEF Calls, Ops, Holding
<1>5. call[t].op = "starting" => call[t].then = "idle"
  BY <1>3 DEF ThreadInv, At, Calls
<1>6. /\ call' = [call EXCEPT ![t] = c] /\ MutexFree(t, o) /\ holder' = [holder EXCEPT ![o] = t]
  <2>1. CASE StartBegins(t)
    BY <2>1, <1>2 DEF StartBegins, Goes, Locks, At
  <2>2. CASE StartSpawns(t)
    <3>1. call[t].op = "starting" /\ call' = [call EXCEPT ![t] = [call[t] EXCEPT !.op = "started"]]
          /\ holder' = holder
      BY <2>2 DEF StartSpawns, Goes, At
    <3>2. [call[t] EXCEPT !.op = "started"] = c
      BY <3>1, <1>3, <1>5 DEF Calls, At
    <3> QED BY <3>1, <3>2, <1>3 DEF MutexFree
  <2> QED BY <2>1, <2>2
<1>7. /\ UNCHANGED <<sessions, active, idOf, made, late>> /\ procs' \subseteq Objects
      /\ Inside(t, o) \/ ~Forgotten(o)
      /\ \A p \in Objects : p \in procs' => p \in procs \/ (p = o /\ Inside(t, o))
  <2>1. Inside(t, o) \/ ~Forgotten(o)
    BY <1>1, <1>2, <1>3 DEF ThreadInv, Inside, At
  <2>2. StartSpawns(t) => Inside(t, o)
    BY <1>2 DEF StartSpawns, Inside, At
  <2> QED BY <1>2, <1>3, <2>1, <2>2 DEF StartBegins, StartSpawns, registry, identity, resources
<1> HIDE DEF c
<1>8. state' = [state EXCEPT ![o] = "STARTING"]
  <2>1. CASE StartBegins(t)
    <3>1. state[o] = "READY" /\ state' = [state EXCEPT ![o] = SessionMove(state[o], "STARTING")]
      BY <2>1, <1>2 DEF StartBegins, Moves
    <3> QED BY <3>1, Moving
  <2>2. CASE StartSpawns(t)
    BY <2>2, <1>2, <1>3 DEF StartSpawns, ThreadInv, At
  <2> QED BY <2>1, <2>2
<1>9. PICK s \in SessionStates : s = "STARTING" /\ state' = [state EXCEPT ![o] = s]
  BY <1>8 DEF SessionStates
<1>10. PICK h \in {t, NoThread} : h = t /\ holder' = [holder EXCEPT ![o] = h]
  BY <1>6
<1>11. /\ call' = [call EXCEPT ![t] = c] /\ MutexFree(t, o)
       /\ call[t].op \notin {"idle", "stopAll"} => On(t) = o
       /\ call[t].op # "sweep"
       /\ c.op \in Holding => c.on = o /\ h = t
       /\ h = t => c.on = o /\ c.op \in Holding \cup {"start"}
       /\ c.on \in {o, None} /\ (c.op \notin {"idle", "stopAll"} => c.on = o)
       /\ c.op \notin {"initialize", "check", "initializing", "configuring", "start", "cleanup", "sweep"}
       /\ c.then = "idle" /\ ~WillSweep(t, o)
  BY <1>1, <1>2, <1>3, <1>4, <1>6, <1>10 DEF Holding
<1> QED BY ONLY SessionsInv, t \in Threads, o \in Objects, h \in {t, NoThread}, s \in SessionStates,
                <1>3, <1>4, <1>7, <1>9, <1>10, <1>11, LockStep

LEMMA StopBeginsStep ==
  ASSUME SessionsInv, NEW t \in Threads, StopBegins(t) PROVE SessionsInv'
<1>1. call[t].op = "stop"
  BY DEF StopBegins, At
<1>2. PICK o \in Objects : o = On(t)
  BY <1>1, AtPlace DEF Waiting
<1>3. /\ o \in Born /\ call[t] \in Calls /\ ThreadInv(t) /\ call[t].todo \subseteq Born
      /\ call[t].on = o /\ state[o] \in SessionStates /\ procs \subseteq Objects
      /\ state = [state EXCEPT ![o] = state[o]]
  BY <1>1, <1>2, AtPlace DEF Waiting
<1> DEFINE c == [call[t] EXCEPT !.op = "stopping"]
<1>4. /\ c \in Calls /\ c.op = "stopping" /\ c.on = o /\ c.todo \subseteq Born
      /\ c.then = call[t].then
  BY <1>3 DEF Calls, Ops, Holding
<1>5. /\ call' = [call EXCEPT ![t] = c] /\ MutexFree(t, o) /\ holder' = [holder EXCEPT ![o] = t]
      /\ UNCHANGED <<sessions, active, idOf, made, late>> /\ procs' = procs
  BY <1>2 DEF StopBegins, Goes, Locks, registry, identity, resources
<1> HIDE DEF c
<1>6. PICK s \in SessionStates : state' = [state EXCEPT ![o] = s]
  <2>1. state' = state \/ state' = [state EXCEPT ![o] = SessionMove(state[o], "STOPPING")]
    BY <1>2 DEF StopBegins, Moves
  <2>2. SessionMove(state[o], "STOPPING") \in SessionStates
    BY <1>3, Moving DEF SessionStates
  <2> QED BY <2>1, <2>2, <1>3
<1>7. PICK h \in {t, NoThread} : h = t /\ holder' = [holder EXCEPT ![o] = h]
  BY <1>5
<1>8. /\ call[t].then # "start"
      /\ c.then \in {"cleanup", "sweep"} => WillSweep(t, o)
      /\ WillSweep(t, o) => c.then \in {"cleanup", "sweep"}
  BY <1>1, <1>2, <1>3, <1>4 DEF ThreadInv, WillSweep, At
<1>9. /\ call[t].op \notin {"idle", "stopAll"} => On(t) = o
      /\ call[t].op # "sweep" /\ procs' \subseteq Objects
      /\ \A p \in Objects : p \in procs' => p \in procs
      /\ c.op \in Holding => c.on = o /\ h = t
      /\ h = t => c.on = o /\ c.op \in Holding \cup {"start"}
      /\ c.on \in {o, None} /\ (c.op \notin {"idle", "stopAll"} => c.on = o)
      /\ c.op \notin {"initialize", "check", "initializing", "configuring", "start", "starting", "started",
                      "cleanup", "sweep"}
      /\ c.then # "idle" => c.then # "start" /\ c.op \in {"stop", "stopping"}
      /\ WillSweep(t, o) => c.on = o /\ (c.op \in {"cleanup", "sweep"} \/ c.then \in {"cleanup", "sweep"})
  BY <1>1, <1>2, <1>3, <1>4, <1>5, <1>7, <1>8 DEF Holding
<1> QED BY ONLY SessionsInv, t \in Threads, o \in Objects, h \in {t, NoThread}, s \in SessionStates,
                <1>3, <1>4, <1>5, <1>6, <1>7, <1>9, LockStep

LEMMA StopDoneStep ==
  ASSUME SessionsInv, NEW t \in Threads, StopDone(t) PROVE SessionsInv'
<1>1. call[t].op = "stopping"
  BY DEF StopDone, At
<1>2. PICK o \in Objects : o = On(t)
  BY <1>1, AtPlace DEF Holding
<1>3. /\ o \in Born /\ call[t] \in Calls /\ ThreadInv(t) /\ call[t].todo \subseteq Born
      /\ call[t].on = o /\ state[o] \in SessionStates /\ procs \subseteq Objects
      /\ holder[o] = t /\ MutexFree(t, o)
  BY <1>1, <1>2, AtPlace DEF Holding
<1>4. call[t].then \in {"idle", "stopAll", "cleanup", "sweep"}
  BY <1>1, <1>3 DEF ThreadInv, At, Calls
<1>5. PICK c \in Calls :
        /\ c = Then(t) /\ c.op = call[t].then /\ c.then = "idle" /\ c.todo = call[t].todo
        /\ call[t].then \in {"idle", "stopAll"} => c.on = None
        /\ call[t].then \notin {"idle", "stopAll"} => c.on = o
  BY <1>2, <1>3, ThenCall
<1>6. /\ call' = [call EXCEPT ![t] = c] /\ holder' = [holder EXCEPT ![o] = NoThread]
      /\ UNCHANGED <<sessions, active, idOf, made, late>> /\ procs' \subseteq procs
  BY <1>2, <1>5 DEF StopDone, Goes, Unlocks, StopsChildren, registry, identity
<1>7. PICK s \in SessionStates : state' = [state EXCEPT ![o] = s]
  <2>1. SessionMove(state[o], "STOPPED") \in SessionStates
    BY <1>3, Moving DEF SessionStates
  <2>2. state' = [state EXCEPT ![o] = SessionMove(state[o], "STOPPED")]
    BY <1>2 DEF StopDone, Moves
  <2> QED BY <2>1, <2>2
<1>8. PICK h \in {t, NoThread} : h = NoThread /\ holder' = [holder EXCEPT ![o] = h]
  BY <1>6
<1>9. WillSweep(t, o) => call[t].then \in {"cleanup", "sweep"}
  BY <1>1, <1>2, <1>3 DEF ThreadInv, WillSweep
<1>10. \A u \in Threads : ~Inside(u, o)
  <2> SUFFICES ASSUME NEW u \in Threads, Inside(u, o) PROVE FALSE
    OBVIOUS
  <2>1. holder[o] = u
    BY InsideIsOngoing
  <2> QED BY <1>1, <1>3, <2>1 DEF Inside, At
<1>11. /\ call[t].op \notin {"idle", "stopAll"} => On(t) = o
       /\ call[t].op # "sweep" /\ procs' \subseteq Objects
       /\ \A p \in Objects : p \in procs' => p \in procs
       /\ c.op \notin Holding /\ h # t
       /\ c.on \in {o, None} /\ (c.op \notin {"idle", "stopAll"} => c.on = o) /\ c.todo \subseteq Born
       /\ c.op \notin {"initialize", "check", "initializing", "configuring", "start", "starting", "started"}
       /\ c.then = "idle"
       /\ WillSweep(t, o) => c.on = o /\ c.op \in {"cleanup", "sweep"}
  BY <1>1, <1>2, <1>3, <1>4, <1>5, <1>6, <1>8, <1>9, Basics DEF Holding
<1> QED BY ONLY SessionsInv, t \in Threads, o \in Objects, c \in Calls, h \in {t, NoThread},
                s \in SessionStates, <1>3, <1>6, <1>7, <1>8, <1>10, <1>11, LockStep

LEMMA FailStep ==
  ASSUME SessionsInv, NEW t \in Threads, NEW o \in Objects, Fail(t, o) PROVE SessionsInv'
<1>1. /\ call[t] \in Calls /\ call[t].op = "idle" /\ ThreadInv(t)
      /\ state \in [Objects -> SessionStates] /\ holder \in [Objects -> Threads \cup {NoThread}]
      /\ call \in [Threads -> Calls] /\ procs \subseteq Objects
  BY Facts DEF Fail, Asks, At, SessionsInv, Types
<1>2. holder[o] = NoThread /\ MutexFree(t, o) /\ \A p \in Objects : holder[p] # t
  BY <1>1 DEF Fail, MutexFree, ThreadInv, Holding
<1>3. PICK s \in SessionStates : state' = [state EXCEPT ![o] = s]
  <2>1. SessionMove(state[o], "FAILED") \in SessionStates
    BY <1>1, Moving DEF SessionStates
  <2> QED BY <2>1 DEF Fail, Moves
<1>4. PICK c \in Calls : c = call[t]
  BY <1>1
<1>5. PICK h \in {t, NoThread} : h = NoThread
  OBVIOUS
<1>6. UNCHANGED <<sessions, active, idOf, made, late, holder, call>> /\ procs' \subseteq procs
  BY DEF Fail, StopsChildren, registry, identity
<1>7. call' = [call EXCEPT ![t] = c] /\ holder' = [holder EXCEPT ![o] = h]
  BY <1>1, <1>2, <1>4, <1>5, <1>6
<1>8. ThreadInv(t)'
  BY <1>1, <1>2, <1>6 DEF ThreadInv, At, On, Holding, Born, WillSweep
<1>9. /\ Inside(t, o)' => FALSE
      /\ WillSweep(t, o) => FALSE
      /\ ~Sweeping(t, o) /\ (Sweeping(t, o)' => FALSE)
  BY <1>1, <1>6 DEF Inside, WillSweep, Sweeping, At
<1>10. /\ UNCHANGED <<sessions, active, idOf, made, late>> /\ procs' \subseteq Objects
       /\ \A p \in Objects : p \in procs' => p \in procs
       /\ call[t].op \in {"idle", "stopAll"} /\ c.op \in {"idle", "stopAll"}
  BY <1>1, <1>4, <1>6
<1> QED BY ONLY SessionsInv, t \in Threads, o \in Objects, c \in Calls, h \in {t, NoThread},
                s \in SessionStates, <1>2, <1>3, <1>7, <1>8, <1>9, <1>10, ObjectStep

\* The children of a session are stopped without its mutex.
LEMMA SweepStep ==
  ASSUME SessionsInv, NEW t \in Threads, Sweep(t) PROVE SessionsInv'
<1> USE DEF SessionsInv
<1>1. PICK o \in Objects : o = On(t) /\ o \in Born
  BY Facts DEF Sweep, At
<1> DEFINE c == About("clean", o)
<1>2. c \in Calls /\ c.op = "clean" /\ c.on = o /\ c.todo = {} /\ c.then = "idle"
  BY AboutCall DEF Ops, Removing
<1>3. /\ UNCHANGED <<sessions, active, idOf, made, late, state, holder>> /\ procs' = procs \ {o}
      /\ call' = [call EXCEPT ![t] = c] /\ Sweeping(t, o)
  BY <1>1 DEF Sweep, Goes, StopsChildren, registry, identity, Sweeping
<1> HIDE DEF c
<1>4. /\ call'[t] = c /\ \A u \in Threads \ {t} : call'[u] = call[u]
      /\ call' \in [Threads -> Calls]
  BY <1>2, <1>3 DEF Types
<1>5. Types' /\ RegistryInv'
  BY <1>3, <1>4 DEF Types, RegistryInv, ActiveIsRegistered, Born
<1>6. \A u \in Threads \ {t}, p \in Objects :
        /\ Inside(u, p)' <=> Inside(u, p)
        /\ WillSweep(u, p)' <=> WillSweep(u, p)
        /\ Sweeping(u, p)' <=> Sweeping(u, p)
  BY <1>3, <1>4 DEF Inside, WillSweep, Sweeping, On, At
<1>7. \A p \in Objects : /\ ~Inside(t, p)' /\ ~WillSweep(t, p)' /\ ~Sweeping(t, p)'
                         /\ WillSweep(t, p) => p = o
  BY <1>1, <1>2, <1>4 DEF Inside, WillSweep, Sweeping, On, At
<1>8. Listed' = Listed /\ Born' = Born /\ \A p \in Objects : Forgotten(p)' <=> Forgotten(p)
  BY <1>3 DEF Listed, Born, Forgotten
<1>9. ASSUME NEW u \in Threads PROVE ThreadInv(u)'
  <2>1. CASE u = t
    <3>1. \A p \in Objects : holder[p] # t
      BY <1>3 DEF ThreadInv, Sweeping, At, Holding
    <3> QED BY <1>1, <1>2, <1>3, <1>4, <1>7, <1>8, <2>1, <3>1 DEF ThreadInv, On, At, Holding
  <2>2. CASE u # t
    BY <1>3, <1>4, <1>6, <1>8, <2>2 DEF ThreadInv, On, At, Forgotten
  <2> QED BY <2>1, <2>2
<1>10. ASSUME NEW p \in Objects PROVE ObjectInv(p)'
  <2>1. CASE p = o
    <3>1. ASSUME Forgotten(o), NEW w \in Threads, Inside(w, o)'
          PROVE  \E u \in Threads : WillSweep(u, o)' /\ ~Sweeping(u, o)'
      <4>1. Inside(w, o)
        BY <1>6, <1>7, <3>1
      <4>2. PICK u \in Threads : WillSweep(u, o) /\ ~Sweeping(u, o)
        BY <3>1, <4>1 DEF ObjectInv
      <4>3. u # t
        BY <1>3, <4>2
      <4> QED BY <1>6, <4>2, <4>3
    <3> QED BY <2>1, <1>3, <1>8, <3>1 DEF ObjectInv
  <2>2. CASE p # o
    BY <2>2, <1>3, <1>6, <1>7, <1>8 DEF ObjectInv
  <2> QED BY <2>1, <2>2
<1> QED BY <1>5, <1>9, <1>10

-----------------------------------------------------------------------------
\* Objects are made or listed, or another one is designated.
LEMMA RegistryStep ==
  ASSUME SessionsInv, UNCHANGED <<state, holder, procs, call>>, RegistryInv', Born \subseteq Born',
         \A o \in Objects : Forgotten(o)' => Forgotten(o)
  PROVE  SessionsInv'
<1> USE DEF SessionsInv
<1>1. Types'
  BY DEF Types
<1>2. \A u \in Threads, o \in Objects : /\ Inside(u, o)' <=> Inside(u, o)
                                        /\ WillSweep(u, o)' <=> WillSweep(u, o)
                                        /\ Sweeping(u, o)' <=> Sweeping(u, o)
  BY DEF Inside, WillSweep, Sweeping, On, At
<1>3. ASSUME NEW u \in Threads PROVE ThreadInv(u)'
  <2>1. ThreadInv(u) /\ On(u)' = On(u) /\ \A name : At(u, name)' <=> At(u, name)
    BY DEF On, At
  <2>2. call[u].op \in {"initialize", "start"} /\ holder[On(u)] # u => ~Forgotten(On(u))'
    BY <2>1 DEF ThreadInv
  <2> QED BY <2>1, <2>2 DEF ThreadInv
<1>4. ASSUME NEW o \in Objects PROVE ObjectInv(o)'
  BY <1>2 DEF ObjectInv
<1> QED BY <1>1, <1>3, <1>4

\* An object is listed under its id, which was free.
LEMMA ListsStep ==
  ASSUME RegistryInv, NEW o \in Objects, o \in Born', NEW id \in Ids,
         sessions[id] = None, Lists(id, o), idOf'[o] = id, idOf' \in [Objects -> Ids],
         Born \subseteq Born', made' \in 0..MaxSessions, \A p \in Born : idOf'[p] = idOf[p]
  PROVE  RegistryInv' /\ Listed' = Listed \cup {o}
<1>1. /\ sessions' \in [Ids -> Objects \cup {None}] /\ active' \in Objects \cup {None}
      /\ sessions'[id] = o /\ \A i \in Ids \ {id} : sessions'[i] = sessions[i]
      /\ active' = IF active = None THEN o ELSE active
  BY DEF RegistryInv, Lists
<1>2. active = None \/ (active \in Born /\ idOf[active] \in Ids /\ sessions[idOf[active]] = active)
  <2>1. active # None => active \in Objects
    BY DEF RegistryInv
  <2> QED BY <2>1, Basics DEF RegistryInv, ActiveIsRegistered
<1>3. \A i \in Ids : sessions'[i] # None => sessions'[i] \in Born' /\ idOf'[sessions'[i]] = i
  BY <1>1 DEF RegistryInv
<1>4. active' = None \/ sessions'[idOf'[active']] = active'
  <2>1. CASE active = None
    BY <1>1, <2>1
  <2>2. CASE active # None
    <3>1. active' = active /\ active \in Born /\ idOf'[active] = idOf[active]
          /\ idOf[active] # id /\ idOf[active] \in Ids
      BY <1>1, <1>2, <2>2, Basics
    <3> QED BY <1>1, <1>2, <3>1
  <2> QED BY <2>1, <2>2
<1>5. Listed' = Listed \cup {o}
  BY <1>1, Basics DEF Listed
<1> QED BY <1>1, <1>3, <1>4, <1>5 DEF RegistryInv, ActiveIsRegistered

\* What the constructor of Session does.
LEMMA MadeObject ==
  ASSUME RegistryInv, NEW id \in Ids, Makes(id)
  PROVE  /\ made + 1 \in Objects /\ made + 1 \notin Born /\ Born' = Born \cup {made + 1}
         /\ made' \in 0..MaxSessions /\ idOf' \in [Objects -> Ids] /\ idOf'[made + 1] = id
         /\ \A p \in Born : idOf'[p] = idOf[p]
<1>1. /\ made < MaxSessions /\ made' = made + 1 /\ idOf' = [idOf EXCEPT ![made + 1] = id]
  BY DEF Makes
<1>2. /\ made + 1 \in Objects /\ made + 1 \notin Born /\ Born' = Born \cup {made + 1}
      /\ made' \in 0..MaxSessions
  BY <1>1, Basics DEF RegistryInv, Objects, Born
<1>3. Born \subseteq Objects
  BY BornFacts
<1> QED BY <1>1, <1>2, <1>3 DEF RegistryInv

LEMMA CreateSteps ==
  ASSUME SessionsInv, NEW t \in Threads, NEW id \in Ids, CreateSession(t, id) \/ Construct(t, id)
  PROVE  SessionsInv'
<1>1. RegistryInv /\ Makes(id) /\ UNCHANGED <<state, holder, procs, call, late>>
  BY DEF SessionsInv, CreateSession, Construct, Makes, resources
<1>2. PICK o \in Objects : /\ o = made + 1 /\ o \notin Born /\ Born' = Born \cup {o}
                          /\ made' \in 0..MaxSessions /\ idOf' \in [Objects -> Ids] /\ idOf'[o] = id
                          /\ \A p \in Born : idOf'[p] = idOf[p]
  BY <1>1, MadeObject
<1>3. CASE CreateSession(t, id)
  <2>1. RegistryInv' /\ Listed' = Listed \cup {o}
    BY <1>1, <1>2, <1>3, ListsStep DEF CreateSession
  <2> QED BY <1>1, <1>2, <2>1, RegistryStep DEF Forgotten
<1>4. CASE Construct(t, id)
  <2>1. sessions' = sessions /\ active' = active
    BY <1>4 DEF Construct, registry
  <2>2. active = None \/ (active \in Born /\ sessions[idOf[active]] = active)
    BY <1>1, Basics DEF RegistryInv, ActiveIsRegistered
  <2>3. RegistryInv'
    BY <1>1, <1>2, <2>1, <2>2 DEF RegistryInv, ActiveIsRegistered
  <2>4. Listed' = Listed
    BY <2>1 DEF Listed
  <2> QED BY <1>1, <1>2, <2>3, <2>4, RegistryStep DEF Forgotten
<1> QED BY <1>3, <1>4

\* An object is listed, again or for the first time.
LEMMA RegisterStep ==
  ASSUME SessionsInv, NEW t \in Threads, NEW o \in Objects, RegisterSession(t, o) PROVE SessionsInv'
<1>1. /\ RegistryInv /\ o \in Born /\ sessions[idOf[o]] = None /\ Lists(idOf[o], o)
      /\ late' = late \ {o} /\ UNCHANGED <<idOf, made, state, holder, procs, call>>
  BY DEF SessionsInv, RegisterSession, Known, Born, identity, resources
<1>2. idOf[o] \in Ids /\ idOf \in [Objects -> Ids] /\ made \in 0..MaxSessions /\ Born' = Born
  BY <1>1 DEF RegistryInv, Born
<1>3. RegistryInv' /\ Listed' = Listed \cup {o}
  BY <1>1, <1>2, ListsStep
<1> QED BY <1>1, <1>2, <1>3, RegistryStep DEF Forgotten

LEMMA DesignateSteps ==
  ASSUME SessionsInv, NEW t \in Threads, ClearActive(t) \/ \E id \in Ids : SetActive(t, id)
  PROVE  SessionsInv'
<1>1. UNCHANGED <<sessions, idOf, made, state, holder, procs, call, late>>
  BY DEF ClearActive, SetActive, identity, resources
<1>2. /\ RegistryInv /\ active' \in Objects \cup {None}
      /\ active' = None \/ sessions[idOf[active']] = active'
  BY DEF SessionsInv, RegistryInv, ClearActive, SetActive
<1>3. RegistryInv' /\ Born' = Born /\ Listed' = Listed
  BY <1>1, <1>2 DEF RegistryInv, ActiveIsRegistered, Born, Listed
<1> QED BY <1>1, <1>3, RegistryStep DEF Forgotten

\* The entry is gone before the session is looked at.
LEMMA RemoveStep ==
  ASSUME SessionsInv, NEW t \in Threads, NEW id \in Ids, RemoveSession(t, id) PROVE SessionsInv'
<1> USE DEF SessionsInv
<1>1. PICK o \in Objects : o = sessions[id] /\ o \in Born /\ idOf[o] = id /\ o \in Listed
  BY BornFacts DEF RemoveSession, RegistryInv, Listed
<1>2. /\ UNCHANGED <<idOf, made, state, holder, procs>> /\ call[t].op = "idle"
      /\ sessions' = [sessions EXCEPT ![id] = None]
      /\ active' = IF active # None /\ idOf[active] = idOf[o] THEN None ELSE active
      /\ late' = IF AskedToStart(o) THEN late \cup {o} ELSE late
  BY <1>1 DEF RemoveSession, ActiveWithout, identity, resources, Asks, At
<1> DEFINE c == [About("check", o) EXCEPT !.left = <<"RUNNING", "STARTING", "READY">>]
<1>3. /\ c \in Calls /\ c.op = "check" /\ c.on = o /\ c.todo = {} /\ c.then = "idle"
  <2>1. <<"RUNNING", "STARTING", "READY">> \in Seq({"RUNNING", "STARTING", "READY"})
    OBVIOUS
  <2>2. /\ About("check", o) \in Calls /\ About("check", o).op = "check" /\ About("check", o).on = o
        /\ About("check", o).todo = {} /\ About("check", o).then = "idle"
    BY AboutCall DEF Ops, Removing
  <2> QED BY <2>1, <2>2 DEF Calls
<1>4. call' = [call EXCEPT ![t] = c]
  BY <1>1 DEF RemoveSession, Goes
<1> HIDE DEF c
<1>5. /\ call'[t] = c /\ \A u \in Threads \ {t} : call'[u] = call[u]
      /\ call' \in [Threads -> Calls]
  BY <1>3, <1>4 DEF Types
<1>6. Born' = Born /\ Listed' = Listed \ {o}
  <2>1. /\ sessions'[id] = None /\ \A i \in Ids \ {id} : sessions'[i] = sessions[i] /\ sessions[i] # o
    BY <1>1, <1>2, Basics DEF RegistryInv
  <2> QED BY <1>1, <1>2, <2>1, Basics DEF Listed, Born
<1>7. RegistryInv'
  <2>1. /\ sessions' \in [Ids -> Objects \cup {None}] /\ active' \in Objects \cup {None}
        /\ sessions'[id] = None /\ \A i \in Ids \ {id} : sessions'[i] = sessions[i]
    BY <1>2 DEF RegistryInv
  <2>2. active' = None \/ sessions'[idOf[active']] = active'
    <3> SUFFICES ASSUME active' # None PROVE sessions'[idOf[active']] = active'
      OBVIOUS
    <3>1. active' = active /\ idOf[active] # id /\ active \in Objects /\ idOf[active] \in Ids
      BY <1>1, <1>2 DEF RegistryInv
    <3>2. sessions[idOf[active]] = active
      BY <3>1, <1>2 DEF RegistryInv, ActiveIsRegistered
    <3> QED BY <2>1, <3>1, <3>2
  <2>3. \A i \in Ids : sessions'[i] # None => sessions'[i] \in Born /\ idOf[sessions'[i]] = i
    BY <2>1 DEF RegistryInv
  <2> QED BY <1>2, <1>6, <2>1, <2>2, <2>3 DEF RegistryInv, ActiveIsRegistered
<1>8. /\ \A u \in Threads \ {t}, p \in Objects :
           /\ Inside(u, p)' <=> Inside(u, p)
           /\ WillSweep(u, p)' <=> WillSweep(u, p)
           /\ Sweeping(u, p)' <=> Sweeping(u, p)
      /\ \A p \in Objects : /\ ~Inside(t, p)' /\ ~Sweeping(t, p)' /\ ~WillSweep(t, p)
                            /\ WillSweep(t, p)' <=> p = o
  BY <1>2, <1>3, <1>5 DEF Inside, WillSweep, Sweeping, On, At
<1>9. \A p \in Objects \ {o} : Forgotten(p)' <=> Forgotten(p)
  BY <1>2, <1>6 DEF Forgotten
<1>10. \A u \in Threads : call[u].op \in {"initialize", "start"} /\ On(u) = o => ~Forgotten(o)'
  BY <1>2, <1>6 DEF Forgotten, AskedToStart, On
<1>11. ASSUME NEW u \in Threads PROVE ThreadInv(u)'
  <2>1. CASE u = t
    <3>1. \A p \in Objects : holder[p] # t
      BY <1>2 DEF ThreadInv, Holding
    <3> QED BY <1>1, <1>2, <1>3, <1>5, <1>6, <1>8, <2>1, <3>1 DEF ThreadInv, On, At, Holding
  <2>2. CASE u # t
    <3>1. ThreadInv(u) /\ call'[u] = call[u] /\ On(u)' = On(u)
      BY <1>5, <2>2 DEF On
    <3>2. call[u].op \in {"initialize", "start"} /\ holder[On(u)] # u => ~Forgotten(On(u))'
      BY <1>9, <1>10, <3>1 DEF ThreadInv
    <3> QED BY <1>2, <1>6, <3>1, <3>2 DEF ThreadInv, At
  <2> QED BY <2>1, <2>2
<1>12. ASSUME NEW p \in Objects PROVE ObjectInv(p)'
  <2>1. CASE p = o
    BY <2>1, <1>8 DEF ObjectInv
  <2>2. CASE p # o
    BY <2>2, <1>2, <1>8, <1>9 DEF ObjectInv
  <2> QED BY <2>1, <2>2
<1>13. Types'
  BY <1>2, <1>5 DEF Types
<1> QED BY <1>7, <1>11, <1>12, <1>13

\* The last reference to an object is dropped: nobody else is about to use it.
LEMMA DestroyStep ==
  ASSUME SessionsInv, NEW t \in Threads, NEW o \in Objects, Destroy(t, o) PROVE SessionsInv'
<1> USE DEF SessionsInv
<1> DEFINE c == About("cleanup", o)
<1>1. /\ call' = [call EXCEPT ![t] = c] /\ call[t].op = "idle" /\ late' = late \ {o}
      /\ UNCHANGED <<sessions, active, idOf, made, state, holder, procs>>
      /\ o \in Born /\ \A u \in Threads : On(u) # o
  BY DEF Destroy, Goes, At, On, registry, resources, Known, Born
<1>2. c \in Calls /\ c.op = "cleanup" /\ c.on = o /\ c.todo = {} /\ c.then = "idle"
  BY AboutCall DEF Ops, Removing
<1> HIDE DEF c
<1>3. /\ call'[t] = c /\ \A u \in Threads \ {t} : call'[u] = call[u]
      /\ call' \in [Threads -> Calls]
  BY <1>1, <1>2 DEF Types
<1>4. Types' /\ RegistryInv' /\ Born' = Born /\ Listed' = Listed
  BY <1>1, <1>3 DEF Types, RegistryInv, ActiveIsRegistered, Born, Listed
<1>5. /\ \A u \in Threads \ {t}, p \in Objects :
           /\ Inside(u, p)' <=> Inside(u, p)
           /\ WillSweep(u, p)' <=> WillSweep(u, p)
           /\ Sweeping(u, p)' <=> Sweeping(u, p)
      /\ \A p \in Objects : /\ ~Inside(t, p)' /\ ~Sweeping(t, p)' /\ ~WillSweep(t, p)
                            /\ WillSweep(t, p)' <=> p = o
  BY <1>1, <1>2, <1>3 DEF Inside, WillSweep, Sweeping, On, At
<1>6. \A p \in Objects \ {o} : Forgotten(p)' <=> Forgotten(p)
  BY <1>1, <1>4 DEF Forgotten
<1>7. ASSUME NEW u \in Threads PROVE ThreadInv(u)'
  <2>1. CASE u = t
    <3>1. \A p \in Objects : holder[p] # t
      BY <1>1 DEF ThreadInv, Holding
    <3> QED BY <1>1, <1>2, <1>3, <1>4, <2>1, <3>1 DEF ThreadInv, On, At, Holding
  <2>2. CASE u # t
    <3>1. ThreadInv(u) /\ call'[u] = call[u] /\ On(u)' = On(u)
      BY <1>3, <2>2 DEF On
    <3>2. call[u].op \in {"initialize", "start"} => On(u) \in Objects \ {o}
      BY <1>1, <3>1 DEF ThreadInv
    <3>3. call[u].op \in {"initialize", "start"} /\ holder[On(u)] # u => ~Forgotten(On(u))'
      BY <1>6, <3>1, <3>2 DEF ThreadInv
    <3> QED BY <1>1, <1>4, <3>1, <3>3 DEF ThreadInv, At
  <2> QED BY <2>1, <2>2
<1>8. ASSUME NEW p \in Objects PROVE ObjectInv(p)'
  <2>1. CASE p = o
    BY <2>1, <1>5 DEF ObjectInv
  <2>2. CASE p # o
    BY <2>2, <1>1, <1>5, <1>6 DEF ObjectInv
  <2> QED BY <2>1, <2>2
<1> QED BY <1>4, <1>7, <1>8

\* A client starts a session it holds, listed or not.
LEMMA AsksToStartStep ==
  ASSUME SessionsInv, NEW t \in Threads, NEW o \in Objects, AsksToStart(t, o) PROVE SessionsInv'
<1> USE DEF SessionsInv
<1>1. PICK name \in {"initialize", "start"} :
        call' = [u \in Threads |->
                   IF u = t THEN About(name, o) ELSE [call[u] EXCEPT !.due = call[u].due \ {o}]]
  BY DEF AsksToStart
<1>2. /\ UNCHANGED <<sessions, active, idOf, made, state, holder, procs>> /\ call[t].op = "idle"
      /\ late' = IF o \in Listed THEN late ELSE late \cup {o}
      /\ o \in Born
  BY DEF AsksToStart, registry, identity, resources, Asks, At, Known, Born
<1> DEFINE c == About(name, o)
<1>3. c \in Calls /\ c.op = name /\ c.on = o /\ c.todo = {} /\ c.then = "idle"
  BY AboutCall DEF Ops, Waiting
<1>4. /\ call'[t] = c /\ call' \in [Threads -> Calls]
      /\ \A u \in Threads \ {t} :
           /\ call'[u].op = call[u].op /\ call'[u].on = call[u].on /\ call'[u].then = call[u].then
           /\ call'[u].todo = call[u].todo
  <2>1. \A u \in Threads : call[u] \in Calls
    BY DEF Types
  <2>2. \A u \in Threads : [call[u] EXCEPT !.due = call[u].due \ {o}] \in Calls
    BY <2>1 DEF Calls
  <2> QED BY <1>1, <1>3, <2>1, <2>2 DEF Calls
<1> HIDE DEF c
<1>5. Types' /\ RegistryInv' /\ Born' = Born /\ Listed' = Listed
  BY <1>2, <1>4 DEF Types, RegistryInv, ActiveIsRegistered, Born, Listed
<1>6. \A u \in Threads \ {t}, p \in Objects :
        /\ Inside(u, p)' <=> Inside(u, p)
        /\ WillSweep(u, p)' <=> WillSweep(u, p)
        /\ Sweeping(u, p)' <=> Sweeping(u, p)
  BY <1>2, <1>4 DEF Inside, WillSweep, Sweeping, On, At
<1>7. \A p \in Objects : holder[p] # t
  BY <1>2 DEF ThreadInv, Holding
<1>8. \A p \in Objects : ~Inside(t, p)' /\ ~Sweeping(t, p)' /\ ~WillSweep(t, p)' /\ ~WillSweep(t, p)
  BY <1>2, <1>3, <1>4, <1>7 DEF Inside, WillSweep, Sweeping, On, At
<1>9. ~Forgotten(o)' /\ \A p \in Objects : Forgotten(p)' => Forgotten(p)
  BY <1>2, <1>5 DEF Forgotten
<1>10. ASSUME NEW u \in Threads PROVE ThreadInv(u)'
  <2>1. CASE u = t
    BY <1>2, <1>3, <1>4, <1>5, <1>7, <1>8, <1>9, <2>1 DEF ThreadInv, On, At, Holding
  <2>2. CASE u # t
    <3>1. ThreadInv(u) /\ On(u)' = On(u) /\ call'[u].op = call[u].op
          /\ call'[u].todo = call[u].todo /\ call'[u].then = call[u].then
      BY <1>4, <2>2 DEF On
    <3>2. call[u].op \in {"initialize", "start"} /\ holder[On(u)] # u => ~Forgotten(On(u))'
      BY <1>9, <3>1 DEF ThreadInv
    <3> QED BY <1>2, <1>5, <1>6, <2>2, <3>1, <3>2 DEF ThreadInv, At
  <2> QED BY <2>1, <2>2
<1>11. ASSUME NEW p \in Objects PROVE ObjectInv(p)'
  BY <1>2, <1>6, <1>8, <1>9 DEF ObjectInv
<1> QED BY <1>5, <1>10, <1>11

-----------------------------------------------------------------------------
LEMMA InitInv == ASSUME Init PROVE SessionsInv
<1>1. (CHOOSE i \in Ids : TRUE) \in Ids
  BY ManagerAssumption
<1>2. Listed = {}
  BY Basics DEF Init, Listed
<1>3. "CREATED" \in SessionStates
  BY DEF SessionStates
<1>4. Types
  BY <1>3, IdleCall DEF Init, Types
<1>5. RegistryInv
  BY <1>1, ManagerAssumption DEF Init, RegistryInv, ActiveIsRegistered
<1>6. ASSUME NEW t \in Threads PROVE ThreadInv(t)
  BY <1>2, IdleCall, Basics DEF Init, ThreadInv, On, At, WillSweep, Holding, Born
<1>7. \A t \in Threads, o \in Objects : ~Inside(t, o)
  BY IdleCall DEF Init, Inside, At
<1>8. ASSUME NEW o \in Objects PROVE ObjectInv(o)
  BY <1>7 DEF Init, ObjectInv
<1> QED BY <1>4, <1>5, <1>6, <1>8 DEF SessionsInv

LEMMA NextInv == ASSUME SessionsInv, [Next]_vars PROVE SessionsInv'
<1>1. CASE UNCHANGED vars
  BY <1>1 DEF vars, registry, identity, resources, SessionsInv, Types, RegistryInv, ActiveIsRegistered,
              ThreadInv, ObjectInv, Born, Forgotten, Listed, Inside, Sweeping, WillSweep, On, At
<1>2. ASSUME NEW t \in Threads, Ask(t) PROVE SessionsInv'
  <2>1. ASSUME NEW id \in Ids,
               \/ CreateSession(t, id) \/ Construct(t, id) \/ SetActive(t, id)
               \/ StopSession(t, id) \/ RemoveSession(t, id)
        PROVE  SessionsInv'
    BY <2>1, CreateSteps, DesignateSteps, AsksToStopSteps, RemoveStep
  <2>2. ASSUME NEW o \in Objects,
               \/ RegisterSession(t, o) \/ AsksToStart(t, o) \/ AsksToStop(t, o)
               \/ Fail(t, o) \/ Destroy(t, o)
        PROVE  SessionsInv'
    BY <2>2, RegisterStep, AsksToStartStep, AsksToStopSteps, FailStep, DestroyStep
  <2> QED BY <1>2, <2>1, <2>2, DesignateSteps, StopAllSteps DEF Ask
<1>3. ASSUME NEW t \in Threads, Step(t) PROVE SessionsInv'
  BY <1>3, CompareStep, CleanupSteps, StopAllSteps, InitializeStep, MakesDirectoriesStep,
     InitializeDoneStep, ReleaseSteps, StartSteps, RefusedStep, StopBeginsStep, StopDoneStep, SweepStep DEF Step
<1> QED BY <1>1, <1>2, <1>3 DEF Next

\* The inductive invariant of the sessions and their registry.
THEOREM SessionsSafe == Spec => []SessionsInv
<1>1. Init => SessionsInv
  BY InitInv
<1>2. SessionsInv /\ [Next]_vars => SessionsInv'
  BY NextInv
<1> QED BY <1>1, <1>2, PTL DEF Spec

\* The designated session is always listed under its own id, for any number
\* of sessions and threads (SessionManager::register_session, remove_session,
\* set_active_session).
THEOREM ActiveRegistered == Spec => []ActiveIsRegistered
<1>1. SessionsInv => ActiveIsRegistered
  BY DEF SessionsInv, RegistryInv
<1> QED BY <1>1, SessionsSafe, PTL

\* A removed session does not stay running behind the manager's back, unless
\* somebody started it when it was removed or afterwards
\* (SessionManager::remove_session, Session::cleanup).
THEOREM RemovedQuiet == Spec => []RemovedIsQuiet
<1>1. SessionsInv => RemovedIsQuiet
  BY DEF SessionsInv, Types, ObjectInv, Forgotten, WillSweep, RemovedIsQuiet
<1> QED BY <1>1, SessionsSafe, PTL

-----------------------------------------------------------------------------
(* What stop_all_sessions leaves behind.                                   *)

Stopping(t) == call[t].op \in {"stop", "stopping"}

\* A session whose mutex is free can be stopped if it has children.
OpenInv ==
  \A o \in Objects : holder[o] = NoThread =>
    state[o] # "INITIALIZING" /\ (o \in procs => state[o] \in Stoppable)

PlaceInv ==
  \A t \in Threads : At(t, "stopping") => state[On(t)] \in {"STOPPING", "FAILED"}

\* Of the sessions a stop_all_sessions owes, nobody waits to start one, and
\* the ones it is done with have no children and nobody inside.
Owes(t, o) == o \in call[t].todo \/ (On(t) = o /\ Stopping(t))
DueInv ==
  \A t \in Threads :
    /\ call[t].due # {} => At(t, "stopAll") \/ (Stopping(t) /\ call[t].then = "stopAll")
    /\ \A o \in call[t].due :
         /\ \A u \in Threads : call[u].op \in {"initialize", "start"} /\ On(u) = o => holder[o] = u
         /\ Owes(t, o) \/ (o \notin procs /\ \A u \in Threads : ~Inside(u, o))

RestInv == SessionsInv /\ OpenInv /\ PlaceInv /\ DueInv

\* A step of thread t that works on object o under its mutex.
Works(t, o, s, h) ==
  /\ o \in Born /\ MutexFree(t, o)
  /\ state' = [state EXCEPT ![o] = s] /\ holder' = [holder EXCEPT ![o] = h]
  /\ UNCHANGED <<sessions, idOf, made>> /\ procs' \subseteq procs \cup {o}
  /\ \A u \in Threads \ {t} : call'[u] = call[u]
  /\ h = NoThread => s # "INITIALIZING" /\ (o \in procs' => s \in Stoppable)
  /\ call'[t].op = "stopping" => call'[t].on = o /\ s \in {"STOPPING", "FAILED"}
  /\ o \in procs' => o \in procs \/ Inside(t, o)

\* What such a step does to the debts of a stop_all_sessions.
Owing(t, o, h) ==
  /\ call'[t].op \in {"initialize", "start"} => call'[t].on = o /\ h = t
  /\ \A p \in Objects : Inside(t, p)' => Inside(t, p) \/ (call[t].op \in {"initialize", "start"} /\ On(t) = p)
  /\ call'[t].due # {} =>
       /\ call'[t].due = call[t].due /\ call'[t].todo = call[t].todo /\ On(t) = o
       /\ At(t, "stopAll")' \/ (Stopping(t)' /\ call'[t].then = "stopAll")
       /\ \/ call'[t].on = o /\ Stopping(t)'
          \/ o \notin procs' /\ \A u \in Threads : ~Inside(u, o)'

LEMMA Tables ==
  /\ SessionMove("INITIALIZING", "READY") = "READY"
  /\ SessionMove("READY", "STARTING") = "STARTING"
  /\ SessionMove("STARTING", "RUNNING") = "RUNNING"
  /\ SessionMove("INITIALIZING", "FAILED") = "FAILED"
  /\ \A s \in SessionStates :
       /\ SessionMove(s, "FAILED") \in SessionStates /\ SessionMove(s, "FAILED") # "INITIALIZING"
       /\ SessionCan(s, "INITIALIZING") => SessionMove(s, "INITIALIZING") = "INITIALIZING"
  /\ \A s \in {"STOPPING", "FAILED"} : SessionMove(s, "STOPPED") \in {"STOPPED", "FAILED"}
  /\ \A s \in Ongoing \ {"INITIALIZING"} : SessionMove(s, "STOPPING") = "STOPPING"
  BY DEF SessionMove, SessionCan, SessionEdges, SessionStates, Ongoing

LEMMA WorksKept ==
  ASSUME RestInv, NEW t \in Threads, NEW o \in Objects, NEW s \in SessionStates,
         NEW h \in {t, NoThread}, Works(t, o, s, h)
  PROVE  OpenInv' /\ PlaceInv'
<1>1. /\ state'[o] = s /\ holder'[o] = h
      /\ \A p \in Objects \ {o} : state'[p] = state[p] /\ holder'[p] = holder[p]
  BY DEF RestInv, SessionsInv, Types, Works
<1>2. OpenInv'
  BY <1>1 DEF Works, OpenInv, RestInv
<1>3. PlaceInv'
  <2>1. ASSUME NEW u \in Threads, u # t, At(u, "stopping")'
        PROVE  state'[On(u)'] \in {"STOPPING", "FAILED"}
    <3>1. At(u, "stopping") /\ On(u)' = On(u)
      BY <2>1 DEF Works, At, On
    <3>2. holder[On(u)] = u /\ On(u) \in Objects /\ state[On(u)] \in {"STOPPING", "FAILED"}
      BY <3>1 DEF RestInv, SessionsInv, ThreadInv, PlaceInv, At, Holding
    <3>3. On(u) # o
      BY <2>1, <3>2, Basics DEF Works, MutexFree
    <3> QED BY <1>1, <3>1, <3>2, <3>3
  <2>2. At(t, "stopping")' => state'[On(t)'] \in {"STOPPING", "FAILED"}
    BY <1>1 DEF Works, At, On
  <2> QED BY <2>1, <2>2 DEF PlaceInv
<1> QED BY <1>2, <1>3

LEMMA OwingKept ==
  ASSUME RestInv, NEW t \in Threads, NEW o \in Objects, NEW s \in SessionStates,
         NEW h \in {t, NoThread}, Works(t, o, s, h), Owing(t, o, h)
  PROVE  DueInv'
<1>1. /\ holder'[o] = h /\ \A p \in Objects \ {o} : holder'[p] = holder[p]
      /\ \A u \in Threads \ {t} : call'[u] = call[u] /\ holder[o] # u
      /\ \A p \in Objects : p \in procs' => p \in procs \/ (p = o /\ Inside(t, o))
  BY Basics DEF RestInv, SessionsInv, Types, Works, MutexFree
<1>2. \A u \in Threads : call[u].due \subseteq Objects
  BY DEF RestInv, SessionsInv, Types, Calls
<1>3. ASSUME NEW w \in Threads, NEW p \in call[w].due
      PROVE  /\ \A u \in Threads : call'[u].op \in {"initialize", "start"} /\ call'[u].on = p => holder'[p] = u
             /\ p \notin procs /\ (\A u \in Threads : ~Inside(u, p)) =>
                  p \notin procs' /\ \A u \in Threads : ~Inside(u, p)'
  <2>1. p \in Objects /\ \A u \in Threads : call[u].op \in {"initialize", "start"} /\ On(u) = p => holder[p] = u
    BY <1>2 DEF RestInv, DueInv
  <2>2. ASSUME NEW u \in Threads, call'[u].op \in {"initialize", "start"}, call'[u].on = p
        PROVE  holder'[p] = u
    <3>1. CASE u = t
      BY <1>1, <2>2, <3>1 DEF Owing
    <3>2. CASE u # t
      BY <1>1, <2>1, <2>2, <3>2 DEF On
    <3> QED BY <3>1, <3>2
  <2>3. ASSUME p \notin procs, \A u \in Threads : ~Inside(u, p)
        PROVE  p \notin procs' /\ \A u \in Threads : ~Inside(u, p)'
    <3>1. p \notin procs'
      BY <1>1, <2>1, <2>3
    <3>2. ~Inside(t, p)'
      <4>1. ~(call[t].op \in {"initialize", "start"} /\ On(t) = p)
        <5> SUFFICES ASSUME call[t].op \in {"initialize", "start"}, On(t) = p PROVE FALSE
          OBVIOUS
        <5>1. holder[p] = t
          BY <2>1
        <5>2. At(t, "start")
          BY <2>1, <5>1 DEF RestInv, SessionsInv, ThreadInv, Holding, At
        <5> QED BY <2>3, <5>1, <5>2 DEF Inside
      <4> QED BY <2>1, <2>3, <4>1 DEF Owing
    <3>3. ASSUME NEW u \in Threads, u # t PROVE ~Inside(u, p)'
      <4>1. call'[u] = call[u] /\ (holder'[p] = u => holder[p] = u)
        BY <1>1, <2>1, <3>3, Basics
      <4> QED BY <2>3, <4>1 DEF Inside, On, At
    <3> QED BY <3>1, <3>2, <3>3
  <2> QED BY <2>2, <2>3
<1>4. ASSUME NEW w \in Threads, w # t
      PROVE  /\ call'[w].due # {} => At(w, "stopAll")' \/ (Stopping(w)' /\ call'[w].then = "stopAll")
             /\ \A p \in call'[w].due : Owes(w, p)' \/ (p \notin procs' /\ \A u \in Threads : ~Inside(u, p)')
  <2>1. call'[w] = call[w] /\ \A p : Owes(w, p)' <=> Owes(w, p)
    BY <1>1, <1>4 DEF Owes, On, Stopping
  <2> QED BY <1>3, <2>1 DEF RestInv, DueInv, At, Stopping
<1>5. \A p \in call'[t].due : Owes(t, p)' \/ (p \notin procs' /\ \A u \in Threads : ~Inside(u, p)')
  <2> SUFFICES ASSUME NEW p \in call'[t].due
               PROVE  Owes(t, p)' \/ (p \notin procs' /\ \A u \in Threads : ~Inside(u, p)')
    OBVIOUS
  <2>1. /\ p \in call[t].due /\ call'[t].todo = call[t].todo /\ On(t) = o
        /\ (call'[t].on = o /\ Stopping(t)') \/ (o \notin procs' /\ \A u \in Threads : ~Inside(u, o)')
    BY DEF Owing
  <2>2. p \in call[t].todo \/ p = o \/ (p \notin procs /\ \A u \in Threads : ~Inside(u, p))
    BY <2>1 DEF RestInv, DueInv, Owes
  <2> QED BY <1>3, <2>1, <2>2 DEF Owes, On
<1>6. call'[t].due # {} => At(t, "stopAll")' \/ (Stopping(t)' /\ call'[t].then = "stopAll")
  BY DEF Owing
<1>7. \A w \in Threads : call'[w].due \subseteq call[w].due
  BY <1>1 DEF Owing
<1> QED BY <1>3, <1>4, <1>5, <1>6, <1>7 DEF DueInv, On

\* The same, by where the step leaves its thread.
LEMMA WorkStep ==
  ASSUME RestInv, NEW t \in Threads, NEW o \in Objects, o \in Born, MutexFree(t, o),
         NEW c \in Calls, call' = [call EXCEPT ![t] = c],
         NEW h \in {t, NoThread}, holder' = [holder EXCEPT ![o] = h],
         NEW s \in SessionStates, state' = [state EXCEPT ![o] = s],
         UNCHANGED <<sessions, idOf, made>>, procs' \subseteq procs \cup {o},
         o \in procs' => o \in procs \/ Inside(t, o),
         h = NoThread => s # "INITIALIZING" /\ (o \in procs' => s \in Stoppable),
         c.op # "initialize", c.op = "start" => c.on = o /\ h = t /\ Inside(t, o),
         c.op = "stopping" => c.on = o /\ s \in {"STOPPING", "FAILED"},
         c.op \in {"initializing", "configuring", "starting", "started"} =>
           c.on = o /\ (Inside(t, o) \/ (call[t].op \in {"initialize", "start"} /\ On(t) = o)),
         c.due # {} =>
           /\ c.due = call[t].due /\ c.todo = call[t].todo /\ On(t) = o
           /\ \/ c.op = "stopAll" /\ h = NoThread /\ o \notin procs'
              \/ c.op \in {"stop", "stopping"} /\ c.then = "stopAll" /\ c.on = o
  PROVE  OpenInv' /\ PlaceInv' /\ DueInv'
<1>1. /\ call'[t] = c /\ holder'[o] = h /\ \A u \in Threads \ {t} : call'[u] = call[u]
      /\ \A p \in Objects \ {o} : holder'[p] = holder[p]
  BY DEF RestInv, SessionsInv, Types
<1>2. Works(t, o, s, h)
  BY <1>1 DEF Works
<1>3. \A p \in Objects \ {o} : holder[p] = t => call[t].op \in {"idle", "stopAll"} \/ On(t) # o
  BY DEF RestInv, SessionsInv, ThreadInv
<1>4. \A p \in Objects : Inside(t, p)' => Inside(t, p) \/ (call[t].op \in {"initialize", "start"} /\ On(t) = p)
  BY <1>1, <1>3 DEF Inside, On, At
<1>5. c.op = "stopAll" => \A u \in Threads : ~Inside(u, o)'
  <2> SUFFICES ASSUME c.op = "stopAll", NEW u \in Threads, Inside(u, o)' PROVE FALSE
    OBVIOUS
  <2>1. u # t
    BY <1>1 DEF Inside, At
  <2>2. holder[o] # u /\ holder'[o] # u
    BY <1>1, <2>1, Basics DEF MutexFree
  <2>3. Inside(u, o)
    BY <1>1, <2>1, <2>2 DEF Inside, On, At
  <2> QED BY <2>2, <2>3, InsideIsOngoing DEF RestInv
<1>6. Owing(t, o, h)
  BY <1>1, <1>4, <1>5 DEF Owing, At, On, Stopping
<1> QED BY <1>2, <1>6, WorksKept, OwingKept

LEMMA NoDue == ASSUME NEW name, NEW o PROVE Idle.due = {} /\ About(name, o).due = {}
  BY DEF Idle, About

\* Only a stop_all_sessions owes anything.
LEMMA OwesNothing ==
  ASSUME RestInv, NEW t \in Threads,
         call[t].op \notin {"stopAll", "stop", "stopping"} \/ (call[t].op # "stopAll" /\ call[t].then # "stopAll")
  PROVE  call[t].due = {}
  BY DEF RestInv, DueInv, At, Stopping

LEMMA InitializeRest ==
  ASSUME RestInv, NEW t \in Threads, Initialize(t) PROVE OpenInv' /\ PlaceInv' /\ DueInv'
<1>1. call[t].op \in {"initialize", "start"} /\ call[t].due = {}
  BY OwesNothing DEF Initialize, At
<1>2. PICK o \in Objects : o = On(t)
  BY <1>1, AtPlace DEF Waiting, RestInv
<1> DEFINE c == [call[t] EXCEPT !.op = "initializing",
                                !.then = IF At(t, "start") THEN "start" ELSE "idle"]
<1>3. /\ o \in Born /\ call[t] \in Calls /\ call[t].on = o /\ state[o] \in SessionStates
  BY <1>1, <1>2, AtPlace DEF Waiting, RestInv
<1>4. c \in Calls /\ c.op = "initializing" /\ c.on = o /\ c.due = {}
  BY <1>1, <1>3 DEF Calls, Ops, Holding
<1>5. /\ call' = [call EXCEPT ![t] = c] /\ MutexFree(t, o)
      /\ UNCHANGED <<sessions, idOf, made, procs>>
  BY <1>2 DEF Initialize, Goes, Locks, registry, identity, resources
<1> HIDE DEF c
<1>6. SessionCan(state[o], "INITIALIZING")
  BY <1>2, Moving DEF Initialize
<1>7. PICK s \in SessionStates : s = "INITIALIZING" /\ state' = [state EXCEPT ![o] = s]
  <2>1. state' = [state EXCEPT ![o] = SessionMove(state[o], "INITIALIZING")]
    BY <1>2 DEF Initialize, Moves
  <2>2. SessionMove(state[o], "INITIALIZING") = "INITIALIZING"
    BY <1>3, <1>6, Moving
  <2> QED BY <2>1, <2>2 DEF SessionStates
<1>8. PICK h \in {t, NoThread} : h = t /\ holder' = [holder EXCEPT ![o] = h]
  BY <1>2 DEF Initialize, Locks
<1>9. h # NoThread /\ c.op \notin {"initialize", "start", "stopping"}
      /\ procs' \subseteq procs \cup {o} /\ (o \in procs' => o \in procs)
      /\ call[t].op \in {"initialize", "start"} /\ On(t) = o
  BY <1>1, <1>2, <1>4, <1>5, <1>8, Basics
<1> QED BY ONLY RestInv, t \in Threads, o \in Objects, s \in SessionStates, h \in {t, NoThread},
                <1>3, <1>4, <1>5, <1>7, <1>8, <1>9, WorkStep

LEMMA MakesDirectoriesRest ==
  ASSUME RestInv, NEW t \in Threads, MakesDirectories(t) PROVE OpenInv' /\ PlaceInv' /\ DueInv'
<1>1. call[t].op = "initializing" /\ call[t].due = {}
  BY OwesNothing DEF MakesDirectories, At
<1>2. PICK o \in Objects : o = On(t)
  BY <1>1, AtPlace DEF Holding, RestInv
<1> DEFINE c == [call[t] EXCEPT !.op = "configuring"]
<1>3. /\ o \in Born /\ call[t] \in Calls /\ call[t].on = o /\ state[o] \in SessionStates
      /\ MutexFree(t, o) /\ holder = [holder EXCEPT ![o] = t]
      /\ state = [state EXCEPT ![o] = state[o]] /\ Inside(t, o)
  BY <1>1, <1>2, AtPlace DEF Holding, RestInv, Inside
<1>4. c \in Calls /\ c.op = "configuring" /\ c.on = o /\ c.due = {}
  BY <1>1, <1>3 DEF Calls, Ops, Holding
<1>5. /\ call' = [call EXCEPT ![t] = c] /\ procs' = procs \ {o}
      /\ UNCHANGED <<sessions, idOf, made, state, holder>>
  BY <1>2 DEF MakesDirectories, Goes, registry, identity
<1> HIDE DEF c
<1>6. PICK s \in SessionStates : state' = [state EXCEPT ![o] = s]
  BY <1>3, <1>5
<1>7. PICK h \in {t, NoThread} : h = t /\ holder' = [holder EXCEPT ![o] = h]
  BY <1>3, <1>5
<1>8. h # NoThread /\ c.op \notin {"initialize", "start", "stopping"}
      /\ procs' \subseteq procs \cup {o} /\ o \notin procs'
      /\ UNCHANGED <<sessions, idOf, made>>
  BY <1>4, <1>5, <1>7, Basics
<1> QED BY ONLY RestInv, t \in Threads, o \in Objects, s \in SessionStates, h \in {t, NoThread},
                <1>3, <1>4, <1>5, <1>6, <1>7, <1>8, WorkStep

LEMMA InitializeDoneRest ==
  ASSUME RestInv, NEW t \in Threads, InitializeDone(t) PROVE OpenInv' /\ PlaceInv' /\ DueInv'
<1>1. call[t].op = "configuring" /\ call[t].due = {}
  BY OwesNothing DEF InitializeDone, At
<1>2. PICK o \in Objects : o = On(t)
  BY <1>1, AtPlace DEF Holding, RestInv
<1>3. /\ o \in Born /\ call[t] \in Calls /\ ThreadInv(t) /\ holder[o] = t /\ MutexFree(t, o)
      /\ holder = [holder EXCEPT ![o] = t]
  BY <1>1, <1>2, AtPlace DEF Holding, RestInv
<1>4. state[o] = "INITIALIZING" /\ call[t].then \in {"idle", "start"} /\ Inside(t, o)
  BY <1>1, <1>2, <1>3 DEF ThreadInv, At, Inside
<1>5. PICK c \in Calls :
        /\ c = Then(t) /\ c.op = call[t].then /\ c.due = {}
        /\ c.on = IF call[t].then = "start" THEN o ELSE None
  <2>1. Then(t).due = call[t].due
    BY <1>3 DEF Then, Calls
  <2> QED BY <1>1, <1>2, <1>3, <1>4, <2>1, ThenCall
<1>6. PICK h \in {t, NoThread} : holder' = [holder EXCEPT ![o] = h] /\ (h = t <=> call[t].then = "start")
  BY <1>2, <1>3, Basics DEF InitializeDone, Unlocks
<1>7. PICK s \in SessionStates : s = "READY" /\ state' = [state EXCEPT ![o] = s]
  <2>1. state' = [state EXCEPT ![o] = SessionMove(state[o], "READY")]
    BY <1>2 DEF InitializeDone, Moves
  <2>2. SessionMove(state[o], "READY") = "READY"
    BY <1>4, Moving
  <2> QED BY <2>1, <2>2 DEF SessionStates
<1>8. /\ call' = [call EXCEPT ![t] = c] /\ procs' = procs
      /\ UNCHANGED <<sessions, idOf, made>>
  BY <1>5 DEF InitializeDone, Goes, registry, identity, resources
<1>9. /\ s # "INITIALIZING" /\ s \in Stoppable
      /\ c.op \notin {"initialize", "stopping", "initializing", "configuring", "starting", "started"}
      /\ c.op = "start" => c.on = o /\ h = t /\ Inside(t, o)
      /\ procs' \subseteq procs \cup {o} /\ (o \in procs' => o \in procs)
  BY <1>4, <1>5, <1>6, <1>7, <1>8 DEF Stoppable, Ongoing
<1> QED BY ONLY RestInv, t \in Threads, o \in Objects, s \in SessionStates, h \in {t, NoThread}, c \in Calls,
                <1>3, <1>5, <1>6, <1>7, <1>8, <1>9, WorkStep

\* A call on a session ends with the mutex given back.
LEMMA ReleaseRest ==
  ASSUME RestInv, NEW t \in Threads, InitializeFails(t) \/ StartDone(t) \/ StartFails(t)
  PROVE  OpenInv' /\ PlaceInv' /\ DueInv'
<1>1. call[t].op \in {"initializing", "configuring", "starting", "started"}
  BY DEF InitializeFails, StartDone, StartFails, At
<1>2. PICK o \in Objects : o = On(t)
  BY <1>1, AtPlace DEF Holding, RestInv
<1>3. /\ o \in Born /\ MutexFree(t, o) /\ state[o] \in SessionStates /\ ThreadInv(t)
  BY <1>1, <1>2, AtPlace DEF Holding, RestInv
<1>4. PICK c \in Calls : c.op = "idle" /\ c.due = {} /\ call' = [call EXCEPT ![t] = c]
  BY IdleCall, NoDue DEF InitializeFails, StartDone, StartFails, Goes
<1>5. PICK h \in {t, NoThread} : h = NoThread /\ holder' = [holder EXCEPT ![o] = h]
  BY <1>2 DEF InitializeFails, StartDone, StartFails, Unlocks
<1>6. PICK s \in SessionStates :
        /\ state' = [state EXCEPT ![o] = s] /\ s # "INITIALIZING" /\ (o \in procs' => s \in Stoppable)
  <2>1. CASE StartDone(t)
    <3>1. state[o] = "STARTING"
      BY <1>1, <1>2, <1>3, <2>1 DEF StartDone, ThreadInv, At
    <3>2. state' = [state EXCEPT ![o] = "RUNNING"]
      BY <1>2, <2>1, <3>1, Tables DEF StartDone, Moves
    <3> QED BY <3>2 DEF SessionStates, Stoppable, Ongoing
  <2>2. CASE StartFails(t)
    <3>1. state' = [state EXCEPT ![o] = SessionMove(state[o], "FAILED")] /\ o \notin procs'
      BY <1>2, <2>2 DEF StartFails, Moves
    <3> QED BY <1>3, <3>1, Tables
  <2>3. CASE InitializeFails(t)
    <3>1. state[o] = "INITIALIZING"
      BY <1>2, <1>3, <2>3 DEF InitializeFails, ThreadInv, At
    <3>2. state' = [state EXCEPT ![o] = "FAILED"]
      BY <1>2, <2>3, <3>1, Tables DEF InitializeFails, Moves
    <3> QED BY <3>2 DEF SessionStates, Stoppable
  <2> QED BY <2>1, <2>2, <2>3
<1>7. /\ UNCHANGED <<sessions, idOf, made>> /\ procs' \subseteq procs \cup {o} /\ (o \in procs' => o \in procs)
      /\ c.op \notin {"initialize", "start", "stopping", "initializing", "configuring", "starting", "started"}
  BY <1>2, <1>4 DEF InitializeFails, StartDone, StartFails, registry, identity, resources, StopsChildren
<1> QED BY ONLY RestInv, t \in Threads, o \in Objects, s \in SessionStates, h \in {t, NoThread}, c \in Calls,
                <1>3, <1>4, <1>5, <1>6, <1>7, WorkStep

LEMMA StartRest ==
  ASSUME RestInv, NEW t \in Threads, StartBegins(t) \/ StartSpawns(t)
  PROVE  OpenInv' /\ PlaceInv' /\ DueInv'
<1>1. call[t].op \in {"start", "starting"} /\ call[t].due = {}
  BY OwesNothing DEF StartBegins, StartSpawns, At
<1>2. PICK o \in Objects : o = On(t)
  BY <1>1, AtPlace DEF Waiting, Holding, RestInv
<1>3. /\ o \in Born /\ call[t] \in Calls /\ ThreadInv(t) /\ call[t].on = o
      /\ call[t].op = "starting" => holder[o] = t /\ holder = [holder EXCEPT ![o] = t]
      /\ state = [state EXCEPT ![o] = state[o]]
  BY <1>1, <1>2, AtPlace DEF Waiting, Holding, RestInv
<1>4. PICK c \in Calls : /\ c.op \in {"starting", "started"} /\ c.on = o /\ c.due = {}
                         /\ call' = [call EXCEPT ![t] = c]
  <2>1. CASE StartBegins(t)
    <3> DEFINE c == [call[t] EXCEPT !.op = "starting", !.then = "idle"]
    <3>1. c \in Calls /\ c.op = "starting" /\ c.on = o /\ c.due = {}
      BY <1>1, <1>3 DEF Calls, Ops, Holding
    <3> QED BY <2>1, <3>1 DEF StartBegins, Goes
  <2>2. CASE StartSpawns(t)
    <3> DEFINE c == [call[t] EXCEPT !.op = "started"]
    <3>1. c \in Calls /\ c.op = "started" /\ c.on = o /\ c.due = {}
      BY <1>1, <1>3 DEF Calls, Ops, Holding
    <3> QED BY <2>2, <3>1 DEF StartSpawns, Goes
  <2> QED BY <2>1, <2>2
<1>5. MutexFree(t, o) /\ holder' = [holder EXCEPT ![o] = t]
  <2>1. CASE StartBegins(t)
    BY <2>1, <1>2 DEF StartBegins, Locks
  <2>2. CASE StartSpawns(t)
    BY <2>2, <1>3 DEF StartSpawns, MutexFree, At
  <2> QED BY <2>1, <2>2
<1>6. state' = [state EXCEPT ![o] = "STARTING"]
  <2>1. CASE StartBegins(t)
    <3>1. state[o] = "READY" /\ state' = [state EXCEPT ![o] = SessionMove(state[o], "STARTING")]
      BY <2>1, <1>2 DEF StartBegins, Moves
    <3> QED BY <3>1, Tables
  <2>2. CASE StartSpawns(t)
    BY <2>2, <1>2, <1>3 DEF StartSpawns, ThreadInv, At
  <2> QED BY <2>1, <2>2
<1>7. PICK s \in SessionStates : s = "STARTING" /\ state' = [state EXCEPT ![o] = s]
  BY <1>6 DEF SessionStates
<1>8. PICK h \in {t, NoThread} : h = t /\ holder' = [holder EXCEPT ![o] = h]
  BY <1>5
<1>9. /\ UNCHANGED <<sessions, idOf, made>> /\ procs' \subseteq procs \cup {o}
      /\ Inside(t, o) \/ (call[t].op \in {"initialize", "start"} /\ On(t) = o)
      /\ o \in procs' => o \in procs \/ Inside(t, o)
  <2>1. StartSpawns(t) => Inside(t, o)
    BY <1>2 DEF StartSpawns, Inside, At
  <2> QED BY <1>2, <2>1 DEF StartBegins, StartSpawns, At, registry, identity, resources
<1>10. h # NoThread /\ c.op \notin {"initialize", "start", "stopping"} /\ MutexFree(t, o)
  BY <1>4, <1>5, <1>8, Basics
<1> QED BY ONLY RestInv, t \in Threads, o \in Objects, s \in SessionStates, h \in {t, NoThread}, c \in Calls,
                <1>3, <1>4, <1>7, <1>8, <1>9, <1>10, WorkStep

LEMMA StopBeginsRest ==
  ASSUME RestInv, NEW t \in Threads, StopBegins(t) PROVE OpenInv' /\ PlaceInv' /\ DueInv'
<1>1. call[t].op = "stop"
  BY DEF StopBegins, At
<1>2. PICK o \in Objects : o = On(t)
  BY <1>1, AtPlace DEF Waiting, RestInv
<1>3. /\ o \in Born /\ call[t] \in Calls /\ ThreadInv(t) /\ call[t].on = o /\ state[o] \in SessionStates
      /\ state = [state EXCEPT ![o] = state[o]] /\ state[o] \in Stoppable
  BY <1>1, <1>2, AtPlace DEF Waiting, RestInv, StopBegins
<1> DEFINE c == [call[t] EXCEPT !.op = "stopping"]
<1>4. /\ c \in Calls /\ c.op = "stopping" /\ c.on = o /\ c.then = call[t].then
      /\ c.due = call[t].due /\ c.todo = call[t].todo
  BY <1>3 DEF Calls, Ops, Holding
<1>5. /\ call' = [call EXCEPT ![t] = c] /\ MutexFree(t, o)
      /\ UNCHANGED <<sessions, idOf, made>> /\ procs' = procs
  BY <1>2 DEF StopBegins, Goes, Locks, registry, identity, resources
<1> HIDE DEF c
<1>6. state[o] # "INITIALIZING"
  <2>1. holder[o] = NoThread
    BY <1>1, <1>3, <1>5 DEF MutexFree, ThreadInv, Holding
  <2> QED BY <2>1 DEF RestInv, OpenInv
<1>7. PICK s \in SessionStates : s \in {"STOPPING", "FAILED"} /\ state' = [state EXCEPT ![o] = s]
  <2>1. CASE state[o] = "FAILED"
    BY <1>2, <1>3, <2>1 DEF StopBegins
  <2>2. CASE state[o] # "FAILED"
    <3>1. state' = [state EXCEPT ![o] = SessionMove(state[o], "STOPPING")]
      BY <1>2, <2>2 DEF StopBegins, Moves
    <3>2. SessionMove(state[o], "STOPPING") = "STOPPING"
      BY <1>3, <1>6, <2>2, Tables DEF Stoppable
    <3> QED BY <3>1, <3>2 DEF SessionStates
  <2> QED BY <2>1, <2>2
<1>8. PICK h \in {t, NoThread} : h = t /\ holder' = [holder EXCEPT ![o] = h]
  BY <1>2 DEF StopBegins, Locks
<1>9. c.due # {} => c.then = "stopAll"
  BY <1>1, <1>4, OwesNothing
<1>10. /\ h # NoThread /\ procs' \subseteq procs \cup {o} /\ (o \in procs' => o \in procs)
       /\ c.op \notin {"initialize", "start", "initializing", "configuring", "starting", "started"}
       /\ c.op \in {"stop", "stopping"} /\ On(t) = o
  BY <1>2, <1>4, <1>5, <1>8, Basics
<1> QED BY ONLY RestInv, t \in Threads, o \in Objects, s \in SessionStates, h \in {t, NoThread},
                <1>3, <1>4, <1>5, <1>7, <1>8, <1>9, <1>10, WorkStep

LEMMA StopDoneRest ==
  ASSUME RestInv, NEW t \in Threads, StopDone(t) PROVE OpenInv' /\ PlaceInv' /\ DueInv'
<1>1. call[t].op = "stopping"
  BY DEF StopDone, At
<1>2. PICK o \in Objects : o = On(t)
  BY <1>1, AtPlace DEF Holding, RestInv
<1>3. /\ o \in Born /\ call[t] \in Calls /\ ThreadInv(t) /\ MutexFree(t, o)
  BY <1>1, <1>2, AtPlace DEF Holding, RestInv
<1>4. /\ call[t].then \in {"idle", "stopAll", "cleanup", "sweep"}
      /\ state[o] \in {"STOPPING", "FAILED"}
  BY <1>1, <1>2, <1>3 DEF ThreadInv, At, Calls, RestInv, PlaceInv
<1>5. PICK c \in Calls :
        /\ c = Then(t) /\ c.op = call[t].then /\ c.todo = call[t].todo /\ c.due = call[t].due
  <2>1. Then(t).due = call[t].due
    BY <1>3 DEF Then, Calls
  <2> QED BY <1>3, <2>1, ThenCall
<1>6. /\ call' = [call EXCEPT ![t] = c] /\ o \notin procs'
      /\ UNCHANGED <<sessions, idOf, made>> /\ procs' \subseteq procs \cup {o}
  BY <1>2, <1>5 DEF StopDone, Goes, StopsChildren, registry, identity
<1>7. PICK s \in SessionStates : s \in {"STOPPED", "FAILED"} /\ state' = [state EXCEPT ![o] = s]
  <2>1. SessionMove(state[o], "STOPPED") \in {"STOPPED", "FAILED"}
    BY <1>4, Tables
  <2>2. state' = [state EXCEPT ![o] = SessionMove(state[o], "STOPPED")]
    BY <1>2 DEF StopDone, Moves
  <2> QED BY <2>1, <2>2 DEF SessionStates
<1>8. PICK h \in {t, NoThread} : h = NoThread /\ holder' = [holder EXCEPT ![o] = h]
  BY <1>2 DEF StopDone, Unlocks
<1>9. c.due # {} => c.op = "stopAll" /\ c.due = call[t].due /\ c.todo = call[t].todo /\ On(t) = o
  BY <1>1, <1>2, <1>5, OwesNothing
<1>10. /\ s # "INITIALIZING"
       /\ c.op \notin {"initialize", "start", "stopping", "initializing", "configuring", "starting", "started"}
  BY <1>4, <1>5, <1>7
<1> QED BY ONLY RestInv, t \in Threads, o \in Objects, s \in SessionStates, h \in {t, NoThread}, c \in Calls,
                <1>3, <1>6, <1>7, <1>8, <1>9, <1>10, WorkStep

LEMMA FailRest ==
  ASSUME RestInv, NEW t \in Threads, NEW o \in Objects, Fail(t, o)
  PROVE  OpenInv' /\ PlaceInv' /\ DueInv'
<1>1. /\ call[t] \in Calls /\ call[t].op = "idle" /\ ThreadInv(t) /\ call[t].due = {}
      /\ state[o] \in SessionStates /\ holder \in [Objects -> Threads \cup {NoThread}]
      /\ call \in [Threads -> Calls] /\ o \in Born
  BY Facts, OwesNothing DEF Fail, Asks, At, RestInv, SessionsInv, Types, Known, Born
<1>2. holder[o] = NoThread /\ MutexFree(t, o)
  BY <1>1 DEF Fail, MutexFree, ThreadInv, Holding
<1>3. PICK s \in SessionStates : s # "INITIALIZING" /\ state' = [state EXCEPT ![o] = s]
  BY <1>1, Tables DEF Fail, Moves
<1>4. PICK c \in Calls : c.op = "idle" /\ c.due = {} /\ call' = [call EXCEPT ![t] = c]
  BY <1>1 DEF Fail
<1>5. PICK h \in {t, NoThread} : h = NoThread /\ holder' = [holder EXCEPT ![o] = h]
  BY <1>1, <1>2 DEF Fail
<1>6. /\ UNCHANGED <<sessions, idOf, made>> /\ procs' \subseteq procs \cup {o} /\ o \notin procs'
      /\ c.op \notin {"initialize", "start", "stopping", "initializing", "configuring", "starting", "started"}
  BY <1>4 DEF Fail, StopsChildren, registry, identity
<1> QED BY ONLY RestInv, t \in Threads, o \in Objects, s \in SessionStates, h \in {t, NoThread}, c \in Calls,
                <1>1, <1>2, <1>3, <1>4, <1>5, <1>6, WorkStep

-----------------------------------------------------------------------------
\* A step that locks nothing, leaves every state alone and starts nothing.
LEMMA StillRest ==
  ASSUME RestInv, NEW t \in Threads, NEW c \in Calls, call' = [call EXCEPT ![t] = c],
         UNCHANGED <<state, holder>>, procs' \subseteq procs,
         c.op \notin {"initialize", "start", "initializing", "configuring", "starting", "started", "stopping"},
         c.due # {} => c.op = "stopAll" \/ (c.op = "stop" /\ c.then = "stopAll"),
         \A p \in c.due :
           /\ \A u \in Threads \ {t} : call[u].op \in {"initialize", "start"} /\ On(u) = p => holder[p] = u
           /\ \/ p \in c.todo \/ (c.op = "stop" /\ c.on = p)
              \/ p \notin procs /\ \A u \in Threads : ~Inside(u, p)
  PROVE  OpenInv' /\ PlaceInv' /\ DueInv'
<1>1. call'[t] = c /\ \A u \in Threads \ {t} : call'[u] = call[u]
  BY DEF RestInv, SessionsInv, Types
<1>2. OpenInv'
  BY DEF RestInv, OpenInv
<1>3. PlaceInv'
  BY <1>1 DEF RestInv, PlaceInv, At, On
<1>4. \A p : \A u \in Threads : Inside(u, p)' => Inside(u, p)
  BY <1>1 DEF Inside, On, At
<1>5. ASSUME NEW w \in Threads, w # t
      PROVE  /\ call'[w].due # {} => At(w, "stopAll")' \/ (Stopping(w)' /\ call'[w].then = "stopAll")
             /\ \A p \in call'[w].due :
                  /\ \A u \in Threads : call'[u].op \in {"initialize", "start"} /\ On(u)' = p => holder'[p] = u
                  /\ Owes(w, p)' \/ (p \notin procs' /\ \A u \in Threads : ~Inside(u, p)')
  <2>1. call'[w] = call[w] /\ \A p : Owes(w, p)' <=> Owes(w, p)
    BY <1>1, <1>5 DEF Owes, On, Stopping
  <2>2. call'[w].due # {} => At(w, "stopAll")' \/ (Stopping(w)' /\ call'[w].then = "stopAll")
    BY <2>1 DEF RestInv, DueInv, At, Stopping
  <2>3. ASSUME NEW p \in call'[w].due
        PROVE  /\ \A u \in Threads : call'[u].op \in {"initialize", "start"} /\ On(u)' = p => holder'[p] = u
               /\ Owes(w, p)' \/ (p \notin procs' /\ \A u \in Threads : ~Inside(u, p)')
    <3>1. /\ \A u \in Threads : call[u].op \in {"initialize", "start"} /\ On(u) = p => holder[p] = u
          /\ Owes(w, p) \/ (p \notin procs /\ \A u \in Threads : ~Inside(u, p))
      BY <2>1, <2>3 DEF RestInv, DueInv
    <3>2. ASSUME NEW u \in Threads, call'[u].op \in {"initialize", "start"}, On(u)' = p PROVE holder'[p] = u
      <4>1. u # t
        BY <1>1, <3>2
      <4>2. call[u].op \in {"initialize", "start"} /\ On(u) = p
        BY <1>1, <3>2, <4>1 DEF On
      <4> QED BY <3>1, <4>2
    <3> QED BY <1>4, <2>1, <3>1, <3>2
  <2> QED BY <2>2, <2>3
<1>6. /\ call'[t].due # {} => At(t, "stopAll")' \/ (Stopping(t)' /\ call'[t].then = "stopAll")
      /\ \A p \in call'[t].due :
           /\ \A u \in Threads : call'[u].op \in {"initialize", "start"} /\ On(u)' = p => holder'[p] = u
           /\ Owes(t, p)' \/ (p \notin procs' /\ \A u \in Threads : ~Inside(u, p)')
  <2>1. call'[t].due # {} => At(t, "stopAll")' \/ (Stopping(t)' /\ call'[t].then = "stopAll")
    BY <1>1 DEF At, Stopping
  <2>2. ASSUME NEW p \in call'[t].due
        PROVE  /\ \A u \in Threads : call'[u].op \in {"initialize", "start"} /\ On(u)' = p => holder'[p] = u
               /\ Owes(t, p)' \/ (p \notin procs' /\ \A u \in Threads : ~Inside(u, p)')
    <3>1. p \in c.due
      BY <1>1, <2>2
    <3>2. Owes(t, p)' \/ (p \notin procs /\ \A u \in Threads : ~Inside(u, p))
      BY <1>1, <3>1 DEF Owes, On, Stopping
    <3>3. ASSUME NEW u \in Threads, call'[u].op \in {"initialize", "start"}, On(u)' = p PROVE holder'[p] = u
      <4>1. u # t
        BY <1>1, <3>3
      <4>2. call[u].op \in {"initialize", "start"} /\ On(u) = p
        BY <1>1, <3>3, <4>1 DEF On
      <4> QED BY <3>1, <4>1, <4>2
    <3> QED BY <1>4, <3>2, <3>3
  <2> QED BY <2>1, <2>2
<1>7. DueInv'
  BY <1>5, <1>6 DEF DueInv
<1> QED BY <1>2, <1>3, <1>7

\* A thread outside goes somewhere without owing anything.
LEMMA AskRest ==
  ASSUME RestInv, NEW t \in Threads,
         \/ ClearActive(t) \/ StopAllReturns(t) \/ RemoveGoesOn(t) \/ Cleanup(t)
         \/ \E id \in Ids : SetActive(t, id) \/ StopSession(t, id)
         \/ \E o \in Objects : AsksToStop(t, o) \/ Destroy(t, o)
  PROVE  OpenInv' /\ PlaceInv' /\ DueInv'
<1>1. UNCHANGED <<state, holder, procs>>
  BY DEF ClearActive, StopAllReturns, RemoveGoesOn, Cleanup, SetActive, StopSession, AsksToStop, Destroy,
         resources
<1>2. PICK c \in Calls : /\ call' = [call EXCEPT ![t] = c] /\ c.due = {}
                         /\ c.op \in {"idle", "stop", "cleanup", "sweep"}
  <2>1. CASE ClearActive(t) \/ \E id \in Ids : SetActive(t, id)
    <3>1. call' = call /\ call[t].op = "idle" /\ call[t].due = {} /\ call[t] \in Calls
      BY <2>1, Facts, OwesNothing DEF ClearActive, SetActive, Asks, At, RestInv
    <3>2. call' = [call EXCEPT ![t] = call[t]]
      BY <3>1 DEF RestInv, SessionsInv, Types
    <3> QED BY <3>1, <3>2
  <2>2. CASE StopAllReturns(t)
    BY <2>2, IdleCall, NoDue DEF StopAllReturns, Goes
  <2>3. \A o \in Objects, name \in {"stop", "cleanup", "sweep"} :
          /\ About(name, o) \in Calls /\ About(name, o).due = {} /\ About(name, o).op = name
    BY AboutCall, NoDue DEF Ops, Waiting, Removing
  <2>4. CASE RemoveGoesOn(t)
    <3>1. On(t) \in Objects
      BY <2>4, Facts DEF RemoveGoesOn, At, RestInv
    <3> QED BY <2>3, <2>4, <3>1 DEF RemoveGoesOn, Goes
  <2>5. CASE Cleanup(t)
    <3>1. PICK o \in Objects : o = On(t)
      BY <2>5, Facts DEF Cleanup, At, RestInv
    <3>2. CASE state[o] \in Ongoing
      <4> DEFINE c == [About("stop", o) EXCEPT !.then = "sweep"]
      <4>1. c \in Calls /\ c.op = "stop" /\ c.due = {}
        BY <2>3 DEF Calls
      <4>2. call' = [call EXCEPT ![t] = c]
        BY <2>5, <3>1, <3>2 DEF Cleanup, Goes
      <4> HIDE DEF c
      <4> QED BY <4>1, <4>2
    <3>3. CASE state[o] \notin Ongoing
      BY <2>3, <2>5, <3>1, <3>3 DEF Cleanup, Goes
    <3> QED BY <3>2, <3>3
  <2>6. CASE \E id \in Ids : StopSession(t, id)
    <3>1. PICK o \in Objects : call' = [call EXCEPT ![t] = About("stop", o)]
      BY <2>6 DEF StopSession, Goes, RestInv, SessionsInv, RegistryInv
    <3> QED BY <2>3, <3>1
  <2>7. CASE \E o \in Objects : AsksToStop(t, o)
    BY <2>3, <2>7 DEF AsksToStop, Goes
  <2>8. CASE \E o \in Objects : Destroy(t, o)
    BY <2>3, <2>8 DEF Destroy, Goes
  <2> QED BY <2>1, <2>2, <2>4, <2>5, <2>6, <2>7, <2>8
<1>3. /\ c.op \notin {"initialize", "start", "initializing", "configuring", "starting", "started", "stopping"}
      /\ procs' \subseteq procs
  BY <1>1, <1>2
<1> QED BY ONLY RestInv, t \in Threads, c \in Calls, <1>1, <1>2, <1>3, StillRest

\* The comparisons of remove_session, and what goes on without the mutex.
LEMMA RemovingRest ==
  ASSUME RestInv, NEW t \in Threads,
         \/ RemoveCompares(t) \/ Sweep(t) \/ Clean(t) \/ \E id \in Ids : RemoveSession(t, id)
  PROVE  OpenInv' /\ PlaceInv' /\ DueInv'
<1>1. UNCHANGED <<state, holder>> /\ procs' \subseteq procs
  BY DEF RemoveCompares, Sweep, Clean, RemoveSession, StopsChildren, resources
<1>2. PICK c \in Calls : /\ call' = [call EXCEPT ![t] = c] /\ c.due = {}
                         /\ c.op \in {"check", "stop", "clean", "idle"}
  <2>1. \A o \in Objects, name \in {"stop", "check", "clean"} :
          /\ About(name, o) \in Calls /\ About(name, o).due = {} /\ About(name, o).op = name
    BY AboutCall, NoDue DEF Ops, Waiting, Removing
  <2>2. CASE RemoveCompares(t)
    <3>1. PICK o \in Objects : o = On(t) /\ call[t] \in Calls /\ call[t].op = "check"
                               /\ call[t].left # <<>> /\ call[t].due = {}
      BY <2>2, Facts, OwesNothing DEF RemoveCompares, At, RestInv
    <3>2. CASE state[o] = Head(call[t].left)
      <4> DEFINE c == [About("stop", o) EXCEPT !.then = "cleanup"]
      <4>1. About("stop", o) \in Calls /\ About("stop", o).due = {} /\ About("stop", o).op = "stop"
        BY <2>1
      <4>2. c \in Calls /\ c.op = "stop" /\ c.due = {}
        BY <4>1 DEF Calls
      <4>3. call' = [call EXCEPT ![t] = c]
        BY <2>2, <3>1, <3>2 DEF RemoveCompares, Goes
      <4> HIDE DEF c
      <4> QED BY <4>2, <4>3
    <3>3. CASE state[o] # Head(call[t].left)
      <4> DEFINE c == [call[t] EXCEPT !.left = Tail(call[t].left)]
      <4>1. Tail(call[t].left) \in Seq({"RUNNING", "STARTING", "READY"})
        BY <3>1 DEF Calls
      <4>2. c \in Calls /\ c.op = "check" /\ c.due = {}
        BY <3>1, <4>1 DEF Calls
      <4>3. call' = [call EXCEPT ![t] = c]
        BY <2>2, <3>1, <3>3 DEF RemoveCompares, Goes
      <4> HIDE DEF c
      <4> QED BY <4>2, <4>3
    <3> QED BY <3>2, <3>3
  <2>3. CASE Sweep(t)
    <3>1. On(t) \in Objects
      BY <2>3, Facts DEF Sweep, At, RestInv
    <3>2. call' = [call EXCEPT ![t] = About("clean", On(t))]
      BY <2>3 DEF Sweep, Goes
    <3>3. /\ About("clean", On(t)) \in Calls /\ About("clean", On(t)).due = {}
          /\ About("clean", On(t)).op = "clean"
      BY <2>1, <3>1
    <3> QED BY <3>1, <3>2, <3>3
  <2>4. CASE Clean(t)
    BY <2>4, IdleCall, NoDue DEF Clean, Goes
  <2>5. CASE \E id \in Ids : RemoveSession(t, id)
    <3>1. PICK o \in Objects :
            call' = [call EXCEPT ![t] = [About("check", o) EXCEPT !.left = <<"RUNNING", "STARTING", "READY">>]]
      <4>1. PICK id \in Ids : RemoveSession(t, id)
        BY <2>5
      <4>2. sessions[id] \in Objects
        BY <4>1 DEF RemoveSession, RestInv, SessionsInv, RegistryInv
      <4> QED BY <4>1, <4>2 DEF RemoveSession, Goes
    <3> DEFINE c == [About("check", o) EXCEPT !.left = <<"RUNNING", "STARTING", "READY">>]
    <3>2. <<"RUNNING", "STARTING", "READY">> \in Seq({"RUNNING", "STARTING", "READY"})
      OBVIOUS
    <3>3. About("check", o) \in Calls /\ About("check", o).due = {} /\ About("check", o).op = "check"
      BY <2>1
    <3>4. c \in Calls /\ c.op = "check" /\ c.due = {}
      BY <3>2, <3>3 DEF Calls
    <3>5. call' = [call EXCEPT ![t] = c]
      BY <3>1
    <3> HIDE DEF c
    <3> QED BY <3>4, <3>5
  <2> QED BY <2>2, <2>3, <2>4, <2>5
<1>3. c.op \notin {"initialize", "start", "initializing", "configuring", "starting", "started", "stopping"}
  BY <1>2
<1> QED BY ONLY RestInv, t \in Threads, c \in Calls, <1>1, <1>2, <1>3, StillRest

\* initialize, start or stop is refused: what is left to owe has no children.
LEMMA RefusedRest ==
  ASSUME RestInv, NEW t \in Threads, Refused(t) PROVE OpenInv' /\ PlaceInv' /\ DueInv'
<1>1. PICK o \in Objects : o = On(t) /\ call[t] \in Calls /\ ThreadInv(t)
  BY Facts DEF Refused, At, RestInv
<1>2. /\ UNCHANGED <<state, holder, procs>>
      /\ call[t].op \in {"initialize", "start", "stop"} /\ MutexFree(t, o)
      /\ call' = [call EXCEPT ![t] = Then(t)]
      /\ call[t].op = "start" => state[o] # "READY"
      /\ call[t].op = "stop" => state[o] \notin Stoppable
  BY <1>1 DEF Refused, registry, identity, resources, At, Goes
<1>3. /\ call[t].then \in {"idle", "stopAll", "cleanup", "sweep"}
      /\ call[t].then = "stopAll" => call[t].op = "stop"
      /\ call[t].due # {} => call[t].then = "stopAll"
  BY <1>1, <1>2, OwesNothing DEF ThreadInv, At, Calls
<1>4. PICK c \in Calls :
        /\ c = Then(t) /\ c.op = call[t].then /\ c.todo = call[t].todo /\ c.due = call[t].due
  <2>1. Then(t).due = call[t].due
    BY <1>1 DEF Then, Calls
  <2> QED BY <1>1, <2>1, ThenCall
<1>5. call[t].op = "stop" => o \notin procs /\ \A u \in Threads : ~Inside(u, o)
  <2> SUFFICES ASSUME call[t].op = "stop" PROVE o \notin procs /\ \A u \in Threads : ~Inside(u, o)
    OBVIOUS
  <2>1. holder[o] = NoThread
    BY <1>1, <1>2 DEF MutexFree, ThreadInv, Holding
  <2>2. o \notin procs
    BY <1>2, <2>1 DEF RestInv, OpenInv
  <2>3. \A u \in Threads : ~Inside(u, o)
    BY <2>1, Basics, InsideIsOngoing DEF RestInv
  <2> QED BY <2>2, <2>3
<1>6. ASSUME NEW p \in c.due
      PROVE  /\ \A u \in Threads \ {t} : call[u].op \in {"initialize", "start"} /\ On(u) = p => holder[p] = u
             /\ p \in c.todo \/ (p \notin procs /\ \A u \in Threads : ~Inside(u, p))
  <2>1. p \in call[t].due /\ call[t].op = "stop"
    BY <1>3, <1>4, <1>6
  <2>2. \A u \in Threads : call[u].op \in {"initialize", "start"} /\ On(u) = p => holder[p] = u
    BY <2>1 DEF RestInv, DueInv
  <2>3. Owes(t, p) \/ (p \notin procs /\ \A u \in Threads : ~Inside(u, p))
    BY <2>1 DEF RestInv, DueInv
  <2> QED BY <1>1, <1>4, <1>5, <2>1, <2>2, <2>3 DEF Owes
<1>7. /\ c.op \notin {"initialize", "start", "initializing", "configuring", "starting", "started", "stopping"}
      /\ c.due # {} => c.op = "stopAll"
      /\ call' = [call EXCEPT ![t] = c] /\ procs' \subseteq procs
  BY <1>2, <1>3, <1>4
<1> QED BY ONLY RestInv, t \in Threads, c \in Calls, <1>2, <1>6, <1>7, StillRest

\* A stop_all_sessions takes its copy and owes what nobody asked to start, and
\* goes on with one session of the copy.
LEMMA StopAllRest ==
  ASSUME RestInv, NEW t \in Threads, StopAllSessions(t) \/ \E o \in Objects : StopAllNext(t, o)
  PROVE  OpenInv' /\ PlaceInv' /\ DueInv'
<1>1. UNCHANGED <<state, holder, procs>>
  BY DEF StopAllSessions, StopAllNext, resources
<1>2. procs' \subseteq procs
  BY <1>1
<1>3. CASE StopAllSessions(t)
  <2> DEFINE c == [Idle EXCEPT !.op = "stopAll", !.todo = Copy,
                               !.due = {o \in Listed : ~AskedToStart(o)}]
  <2>1. Listed \subseteq Objects
    BY BornFacts DEF RestInv, SessionsInv
  <2>2. c \in Calls /\ c.op = "stopAll" /\ c.todo = Listed /\ c.due = {o \in Listed : ~AskedToStart(o)}
    BY <2>1, IdleCall DEF Copy, Calls, Ops
  <2>3. call' = [call EXCEPT ![t] = c]
    BY <1>3 DEF StopAllSessions, Goes
  <2> HIDE DEF c
  <2>4. \A p \in c.due :
          /\ \A u \in Threads \ {t} : call[u].op \in {"initialize", "start"} /\ On(u) = p => holder[p] = u
          /\ p \in c.todo
    BY <2>2 DEF AskedToStart, On
  <2>5. c.op \notin {"initialize", "start", "initializing", "configuring", "starting", "started", "stopping"}
    BY <2>2
  <2> QED BY ONLY RestInv, t \in Threads, <1>1, <1>2, <2>2, <2>3, <2>4, <2>5, StillRest
<1>4. ASSUME NEW o \in Objects, StopAllNext(t, o) PROVE OpenInv' /\ PlaceInv' /\ DueInv'
  <2> DEFINE c == [call[t] EXCEPT !.op = "stop", !.on = o, !.then = "stopAll",
                                  !.todo = call[t].todo \ {o}]
  <2>1. call' = [call EXCEPT ![t] = c] /\ call[t].op = "stopAll" /\ call[t] \in Calls
    BY <1>4, Facts DEF StopAllNext, Goes, At, RestInv
  <2>2. /\ c \in Calls /\ c.op = "stop" /\ c.on = o /\ c.then = "stopAll"
        /\ c.todo = call[t].todo \ {o} /\ c.due = call[t].due
    BY <2>1 DEF Calls, Ops, Waiting
  <2> HIDE DEF c
  <2>3. ASSUME NEW p \in c.due
        PROVE  /\ \A u \in Threads \ {t} : call[u].op \in {"initialize", "start"} /\ On(u) = p => holder[p] = u
               /\ \/ p \in c.todo \/ (c.op = "stop" /\ c.on = p)
                  \/ p \notin procs /\ \A u \in Threads : ~Inside(u, p)
    <3>1. p \in call[t].due
      BY <2>2, <2>3
    <3>2. \A u \in Threads : call[u].op \in {"initialize", "start"} /\ On(u) = p => holder[p] = u
      BY <3>1 DEF RestInv, DueInv
    <3>3. Owes(t, p) \/ (p \notin procs /\ \A u \in Threads : ~Inside(u, p))
      BY <3>1 DEF RestInv, DueInv
    <3> QED BY <2>1, <2>2, <3>2, <3>3 DEF Owes, Stopping
  <2>4. /\ c.op \notin {"initialize", "start", "initializing", "configuring", "starting", "started", "stopping"}
        /\ c.op = "stop" /\ c.then = "stopAll"
    BY <2>2
  <2>5. call' = [call EXCEPT ![t] = c]
    BY <2>1
  <2> QED BY ONLY RestInv, t \in Threads, <1>1, <1>2, <2>2, <2>3, <2>4, <2>5, StillRest
<1> QED BY <1>3, <1>4

\* Whatever a client starts is no longer owed.
LEMMA AsksToStartRest ==
  ASSUME RestInv, NEW t \in Threads, NEW o \in Objects, AsksToStart(t, o)
  PROVE  OpenInv' /\ PlaceInv' /\ DueInv'
<1>1. PICK name \in {"initialize", "start"} :
        call' = [u \in Threads |->
                   IF u = t THEN About(name, o) ELSE [call[u] EXCEPT !.due = call[u].due \ {o}]]
  BY DEF AsksToStart
<1>2. UNCHANGED <<state, holder, procs>> /\ call[t].op = "idle"
  BY DEF AsksToStart, resources, Asks, At
<1>3. /\ About(name, o).op = name /\ About(name, o).on = o /\ About(name, o).due = {}
  BY AboutCall, NoDue DEF Ops, Waiting
<1>4. /\ call'[t].op = name /\ call'[t].on = o /\ call'[t].due = {}
      /\ \A u \in Threads \ {t} :
           /\ call'[u].op = call[u].op /\ call'[u].on = call[u].on /\ call'[u].then = call[u].then
           /\ call'[u].todo = call[u].todo /\ call'[u].due = call[u].due \ {o}
  <2>1. \A u \in Threads : call[u] \in Calls
    BY DEF RestInv, SessionsInv, Types
  <2> QED BY <1>1, <1>3, <2>1 DEF Calls
<1>5. OpenInv'
  BY <1>2 DEF RestInv, OpenInv
<1>6. PlaceInv'
  BY <1>2, <1>4 DEF RestInv, PlaceInv, At, On
<1>7. \A u \in Threads, p \in Objects : Inside(u, p)' => Inside(u, p)
  <2>1. \A p \in Objects : holder[p] # t
    BY <1>2 DEF RestInv, SessionsInv, ThreadInv, Holding
  <2>2. \A p \in Objects : ~Inside(t, p)'
    BY <1>2, <1>4, <2>1 DEF Inside, At
  <2>3. \A u \in Threads \ {t}, p \in Objects : Inside(u, p)' => Inside(u, p)
    BY <1>2, <1>4 DEF Inside, On, At
  <2> QED BY <2>2, <2>3
<1>8. ASSUME NEW w \in Threads
      PROVE  /\ call'[w].due # {} => At(w, "stopAll")' \/ (Stopping(w)' /\ call'[w].then = "stopAll")
             /\ \A p \in call'[w].due :
                  /\ \A u \in Threads : call'[u].op \in {"initialize", "start"} /\ On(u)' = p => holder'[p] = u
                  /\ Owes(w, p)' \/ (p \notin procs' /\ \A u \in Threads : ~Inside(u, p)')
  <2>1. CASE w = t
    BY <1>4, <2>1
  <2>2. CASE w # t
    <3>1. call'[w].due # {} => At(w, "stopAll")' \/ (Stopping(w)' /\ call'[w].then = "stopAll")
      BY <1>4, <2>2 DEF RestInv, DueInv, At, Stopping
    <3>2. ASSUME NEW p \in call'[w].due
          PROVE  /\ \A u \in Threads : call'[u].op \in {"initialize", "start"} /\ On(u)' = p => holder'[p] = u
                 /\ Owes(w, p)' \/ (p \notin procs' /\ \A u \in Threads : ~Inside(u, p)')
      <4>1. p \in call[w].due /\ p # o /\ p \in Objects
        BY <1>4, <2>2, <3>2 DEF RestInv, SessionsInv, Types, Calls
      <4>2. /\ \A u \in Threads : call[u].op \in {"initialize", "start"} /\ On(u) = p => holder[p] = u
            /\ Owes(w, p) \/ (p \notin procs /\ \A u \in Threads : ~Inside(u, p))
        BY <4>1 DEF RestInv, DueInv
      <4>3. ASSUME NEW u \in Threads, call'[u].op \in {"initialize", "start"}, On(u)' = p PROVE holder'[p] = u
        <5>1. u # t
          BY <1>4, <4>1, <4>3 DEF On
        <5>2. call[u].op \in {"initialize", "start"} /\ On(u) = p
          BY <1>4, <4>3, <5>1 DEF On
        <5> QED BY <1>2, <4>2, <5>2
      <4>4. Owes(w, p) => Owes(w, p)'
        BY <1>4, <2>2 DEF Owes, On, Stopping
      <4> QED BY <1>2, <1>7, <4>1, <4>2, <4>3, <4>4
    <3> QED BY <3>1, <3>2
  <2> QED BY <2>1, <2>2
<1>9. DueInv'
  BY <1>8 DEF DueInv
<1> QED BY <1>5, <1>6, <1>9

\* A session is made or listed.
LEMMA CreateRest ==
  ASSUME RestInv, NEW t \in Threads,
         \/ \E id \in Ids : CreateSession(t, id) \/ Construct(t, id)
         \/ \E o \in Objects : RegisterSession(t, o)
  PROVE  OpenInv' /\ PlaceInv' /\ DueInv'
<1>1. UNCHANGED <<state, holder, procs, call>>
  BY DEF CreateSession, Construct, RegisterSession, Makes, resources
<1> QED BY <1>1 DEF RestInv, OpenInv, PlaceInv, DueInv, Owes, On, At, Stopping, Inside

LEMMA RestInit == ASSUME Init PROVE RestInv
<1>1. Listed = {} /\ \A t \in Threads : call[t] = Idle
  BY Basics DEF Init, Listed
<1>2. OpenInv
  BY DEF Init, OpenInv
<1>3. PlaceInv /\ DueInv
  BY <1>1, IdleCall, NoDue DEF PlaceInv, DueInv, At
<1> QED BY <1>2, <1>3, InitInv DEF RestInv

LEMMA RestNext == ASSUME RestInv, [Next]_vars PROVE RestInv'
<1>1. SessionsInv'
  BY NextInv DEF RestInv
<1>2. CASE UNCHANGED vars
  BY <1>1, <1>2 DEF vars, registry, identity, resources, RestInv, OpenInv, PlaceInv, DueInv, Owes, Stopping, Inside, On, At
<1>3. ASSUME NEW t \in Threads, Ask(t) PROVE OpenInv' /\ PlaceInv' /\ DueInv'
  <2>1. ASSUME NEW id \in Ids,
               \/ CreateSession(t, id) \/ Construct(t, id) \/ SetActive(t, id)
               \/ StopSession(t, id) \/ RemoveSession(t, id)
        PROVE  OpenInv' /\ PlaceInv' /\ DueInv'
    BY <2>1, CreateRest, AskRest, RemovingRest
  <2>2. ASSUME NEW o \in Objects,
               \/ RegisterSession(t, o) \/ AsksToStart(t, o) \/ AsksToStop(t, o)
               \/ Fail(t, o) \/ Destroy(t, o)
        PROVE  OpenInv' /\ PlaceInv' /\ DueInv'
    BY <2>2, CreateRest, AsksToStartRest, AskRest, FailRest
  <2> QED BY <1>3, <2>1, <2>2, AskRest, StopAllRest DEF Ask
<1>4. ASSUME NEW t \in Threads, Step(t) PROVE OpenInv' /\ PlaceInv' /\ DueInv'
  BY <1>4, RemovingRest, AskRest, StopAllRest, InitializeRest, MakesDirectoriesRest,
     InitializeDoneRest, ReleaseRest, StartRest, RefusedRest, StopBeginsRest, StopDoneRest DEF Step
<1> QED BY <1>1, <1>2, <1>3, <1>4 DEF Next, RestInv

LEMMA RestSafe == Spec => []RestInv
  BY RestInit, RestNext, PTL DEF Spec

StopAllReturned ==
  \A t \in Threads : At(t, "stopAll") /\ call'[t].op = "idle" => call[t].due \cap procs' = {}

\* What a thread is doing is changed by its own steps only.
LEMMA OthersGoOn ==
  ASSUME SessionsInv, NEW t \in Threads, NEW u \in Threads, Ask(u) \/ Step(u),
         call'[t].op # call[t].op
  PROVE  u = t
<1> SUFFICES ASSUME u # t PROVE FALSE
  OBVIOUS
<1>1. call \in [Threads -> Calls]
  BY DEF SessionsInv, Types
<1>2. ASSUME NEW c, Goes(u, c) PROVE FALSE
  BY <1>1, <1>2 DEF Goes
<1>3. call' # call
  OBVIOUS
<1>4. ~Step(u)
  BY <1>2, <1>3
  DEF Step, RemoveCompares, RemoveGoesOn, StopAllNext, StopAllReturns, Initialize,
      MakesDirectories, InitializeDone, InitializeFails, StartBegins, StartSpawns, StartDone, StartFails, Refused, StopBegins, StopDone,
      Cleanup, Sweep, Clean
<1>5. ASSUME NEW o \in Objects, AsksToStart(u, o) PROVE FALSE
  <2>1. call'[t] = [call[t] EXCEPT !.due = call[t].due \ {o}]
    BY <1>5 DEF AsksToStart
  <2> QED BY <1>1, <2>1 DEF Calls
<1>6. ~Ask(u)
  BY <1>2, <1>3, <1>5
  DEF Ask, CreateSession, Construct, RegisterSession, Makes, SetActive, StopSession, RemoveSession, ClearActive,
      StopAllSessions, AsksToStop, Fail, Destroy
<1> QED BY <1>4, <1>6

LEMMA StopAllReturnedStep == ASSUME RestInv, Next PROVE StopAllReturned
<1> SUFFICES ASSUME NEW t \in Threads, At(t, "stopAll"), call'[t].op = "idle",
                    NEW p \in call[t].due
             PROVE  p \notin procs'
  BY DEF StopAllReturned
<1>1. call[t].op = "stopAll"
  BY DEF At
<1>2. call[t] # call'[t]
  BY <1>1
<1>3. StopAllReturns(t)
  <2>1. PICK u \in Threads : Ask(u) \/ Step(u)
    BY DEF Next
  <2>2. u = t
    BY <1>1, <2>1, OthersGoOn DEF RestInv
  <2>3. ~Ask(t)
    BY <1>1 DEF Ask, CreateSession, Construct, RegisterSession, SetActive, StopSession, RemoveSession, ClearActive,
                StopAllSessions, AsksToStart, AsksToStop, Fail, Destroy, Asks, At
  <2>4. ASSUME NEW o \in Objects, StopAllNext(t, o) PROVE FALSE
    <3>1. call'[t].op = "stop"
      BY <2>4 DEF StopAllNext, Goes, RestInv, SessionsInv, Types, Calls
    <3> QED BY <3>1
  <2> QED
    BY <1>1, <2>1, <2>2, <2>3, <2>4
    DEF Step, RemoveCompares, RemoveGoesOn, Initialize, MakesDirectories, InitializeDone, InitializeFails, StartBegins,
        StartSpawns, StartDone, StartFails, Refused, StopBegins, StopDone, Cleanup, Sweep, Clean, At
<1>4. procs' = procs /\ call[t].todo = {}
  BY <1>3 DEF StopAllReturns, resources
<1> QED BY <1>1, <1>4 DEF RestInv, DueInv, Owes, Stopping

\* When stop_all_sessions returns, no session that was listed when it was called
\* has children, except those that a thread asked to start in the meantime
\* (SessionManager::stop_all_sessions, Session::stop).
THEOREM StopAllHolds == Spec => StopAllStops
<1>1. RestInv /\ [Next]_vars => [StopAllReturned]_vars
  BY StopAllReturnedStep
<1>2. Spec => [][StopAllReturned]_vars
  BY <1>1, RestSafe, PTL DEF Spec
<1> QED BY <1>2 DEF StopAllStops, StopAllReturned


-----------------------------------------------------------------------------
(* The directories: each has a session that is listed, or was started late, *)
(* or that some thread is going to clean up after.                          *)

WillClean(t, o) == WillSweep(t, o) \/ (On(t) = o /\ At(t, "clean"))
Owned(o) == o \in Listed \/ o \in late \/ \E t \in Threads : WillClean(t, o)
DirsInv == \A i \in dirs : \E o \in Born : idOf[o] = i /\ Owned(o)

\* What keeps its owner keeps its place, and what is new has one.
LEMMA OwnersKept ==
  ASSUME DirsInv, Born \subseteq Born', \A o \in Born : idOf'[o] = idOf[o],
         \A o \in Born : Owned(o) => Owned(o)' \/ idOf[o] \notin dirs',
         \A i \in dirs' \ dirs : \E o \in Born : idOf[o] = i /\ Owned(o)
  PROVE  DirsInv'
<1> SUFFICES ASSUME NEW i \in dirs' PROVE \E o \in Born' : idOf'[o] = i /\ Owned(o)'
  BY DEF DirsInv
<1>1. PICK o \in Born : idOf[o] = i /\ Owned(o)
  BY DEF DirsInv
<1> QED BY <1>1

\* A step that leaves the registry alone.
LEMMA DirsStep ==
  ASSUME SessionsInv, DirsInv, NEW t \in Threads, NEW c, call' = [call EXCEPT ![t] = c],
         UNCHANGED <<sessions, idOf, made, late>>,
         \A o \in Born : WillClean(t, o) => WillClean(t, o)' \/ idOf[o] \notin dirs',
         \A i \in dirs' \ dirs : \E o \in Born : idOf[o] = i /\ Owned(o)
  PROVE  DirsInv'
<1>1. \A u \in Threads \ {t} : call'[u] = call[u]
  BY DEF SessionsInv, Types
<1>2. \A u \in Threads \ {t}, o \in Born : WillClean(u, o)' <=> WillClean(u, o)
  BY <1>1 DEF WillClean, WillSweep, On, At
<1>3. Born' = Born /\ Listed' = Listed /\ idOf' = idOf /\ late' = late
  BY DEF Born, Listed
<1>4. \A o \in Born : Owned(o) => Owned(o)' \/ idOf[o] \notin dirs'
  BY <1>2, <1>3 DEF Owned
<1> QED BY <1>3, <1>4, OwnersKept

\* Whoever makes directories has a session that is listed, or waited for.
LEMMA InsideIsOwned ==
  ASSUME SessionsInv, NEW t \in Threads, NEW o \in Objects, Inside(t, o) PROVE Owned(o)
  BY DEF SessionsInv, ObjectInv, Forgotten, Owned, WillClean

\* A thread that has nothing to clean up after.
LEMMA AtEase ==
  ASSUME NEW t \in Threads,
         call[t].op \notin Removing \cup {"stop", "stopping"}
  PROVE  \A o \in Born : ~WillClean(t, o)
  BY DEF WillClean, WillSweep, Removing, At

\* Calls that begin, and the steps of initialize and start.
LEMMA EaseDirs ==
  ASSUME SessionsInv, DirsInv, NEW t \in Threads,
         \/ StopAllSessions(t) \/ StopAllReturns(t) \/ \E o \in Objects : StopAllNext(t, o)
         \/ \E id \in Ids : StopSession(t, id)
         \/ \E o \in Objects : AsksToStop(t, o)
         \/ Initialize(t) \/ MakesDirectories(t) \/ InitializeDone(t) \/ InitializeFails(t)
         \/ StartBegins(t) \/ StartSpawns(t) \/ StartDone(t) \/ StartFails(t)
  PROVE  DirsInv'
<1>1. /\ call[t].op \notin Removing \cup {"stop", "stopping"}
      /\ UNCHANGED <<sessions, idOf, made, late>>
  BY DEF StopAllSessions, StopAllReturns, StopAllNext, StopSession, AsksToStop, Initialize,
         MakesDirectories, InitializeDone, InitializeFails, StartBegins, StartSpawns, StartDone,
         StartFails, Asks, At, Removing, registry, identity
<1>2. PICK c : call' = [call EXCEPT ![t] = c]
  BY DEF StopAllSessions, StopAllReturns, StopAllNext, StopSession, AsksToStop, Initialize,
         MakesDirectories, InitializeDone, InitializeFails, StartBegins, StartSpawns, StartDone,
         StartFails, Goes
<1>3. dirs' \subseteq dirs \/ (call[t].op = "initializing" /\ dirs' \in {dirs, Created(On(t))})
  BY DEF StopAllSessions, StopAllReturns, StopAllNext, StopSession, AsksToStop, Initialize,
         MakesDirectories, InitializeDone, InitializeFails, StartBegins, StartSpawns, StartDone,
         StartFails, resources, Removed, At
<1>4. ASSUME NEW i \in dirs' \ dirs PROVE \E o \in Born : idOf[o] = i /\ Owned(o)
  <2>1. call[t].op = "initializing" /\ i = idOf[On(t)]
    BY <1>3, <1>4 DEF Created
  <2>2. On(t) \in Objects /\ On(t) \in Born
    BY <2>1, Facts
  <2>3. Inside(t, On(t))
    BY <2>1 DEF Inside
  <2> QED BY <2>1, <2>2, <2>3, InsideIsOwned
<1> QED BY <1>1, <1>2, <1>4, AtEase, DirsStep

\* A removal, a cleanup or a stop in the middle of one goes on with its object
\* until its directories are gone.
LEMMA CleaningDirs ==
  ASSUME SessionsInv, DirsInv, NEW t \in Threads,
         \/ RemoveCompares(t) \/ RemoveGoesOn(t) \/ Cleanup(t) \/ Sweep(t) \/ Clean(t)
         \/ Refused(t) \/ StopBegins(t) \/ StopDone(t)
  PROVE  DirsInv'
<1>1. /\ UNCHANGED <<sessions, idOf, made, late>> /\ dirs' \subseteq dirs
  BY DEF RemoveCompares, RemoveGoesOn, Cleanup, Sweep, Clean, Refused, StopBegins, StopDone, registry,
         identity, resources, Removed
<1>2. /\ call[t] \in Calls /\ call \in [Threads -> Calls] /\ On(t) \in Objects /\ ThreadInv(t)
  BY Facts DEF RemoveCompares, RemoveGoesOn, Cleanup, Sweep, Clean, Refused, StopBegins, StopDone, At,
               SessionsInv, Types
<1>3. \A o \in Born : WillClean(t, o) => o = On(t)
  BY DEF WillClean, WillSweep
<1>o. PICK o \in Objects : o = On(t)
  BY <1>2
<1> USE <1>o
<1>4. PICK c : /\ call' = [call EXCEPT ![t] = c]
               /\ WillClean(t, o) => \/ c.on = o /\ c.op \in Removing
                                     \/ /\ c.on = o /\ c.op \in {"stop", "stopping"}
                                        /\ c.then \in {"cleanup", "sweep"}
                                     \/ idOf[o] \notin dirs'
  <2>1. /\ \A name \in {"cleanup", "sweep", "clean"} : About(name, o).op = name /\ About(name, o).on = o
        /\ \A place \in {"cleanup", "sweep"} :
             LET c == [About("stop", o) EXCEPT !.then = place]
             IN  c.op = "stop" /\ c.on = o /\ c.then = place
    BY DEF About, Idle
  <2>2. CASE RemoveCompares(t)
    <3>1. CASE state[o] = Head(call[t].left)
      BY <2>1, <2>2, <3>1 DEF RemoveCompares, Goes
    <3>2. CASE state[o] # Head(call[t].left)
      <4> DEFINE c == [call[t] EXCEPT !.left = Tail(call[t].left)]
      <4>1. call' = [call EXCEPT ![t] = c] /\ c.op = "check" /\ c.on = o
        BY <1>2, <2>2, <3>2 DEF RemoveCompares, Goes, Calls, At, On
      <4> QED BY <4>1 DEF Removing
    <3> QED BY <3>1, <3>2
  <2>3. CASE RemoveGoesOn(t)
    BY <2>1, <2>3 DEF RemoveGoesOn, Goes, Removing
  <2>4. CASE Cleanup(t)
    <3>1. CASE state[o] \in Ongoing
      BY <2>1, <2>4, <3>1 DEF Cleanup, Goes
    <3>2. CASE state[o] \notin Ongoing
      BY <2>1, <2>4, <3>2 DEF Cleanup, Goes, Removing
    <3> QED BY <3>1, <3>2
  <2>5. CASE Sweep(t)
    BY <2>1, <2>5 DEF Sweep, Goes, Removing
  <2>6. CASE Clean(t)
    BY <2>6 DEF Clean, Goes, Removed
  <2>7. CASE Refused(t) \/ StopDone(t)
    <3>1. call' = [call EXCEPT ![t] = Then(t)] /\ call[t].op \notin Removing
      BY <2>7 DEF Refused, StopDone, Goes, At, Removing
    <3>2. WillClean(t, o) => Then(t).on = o /\ Then(t).op \in {"cleanup", "sweep"}
      BY <1>2, <3>1, ThenCall DEF WillClean, WillSweep, Removing, At
    <3> QED BY <3>1, <3>2 DEF Removing
  <2>8. CASE StopBegins(t)
    <3> DEFINE c == [call[t] EXCEPT !.op = "stopping"]
    <3>1. /\ call' = [call EXCEPT ![t] = c] /\ call[t].op = "stop" /\ c.op = "stopping" /\ c.on = o
          /\ c.then = call[t].then
      BY <1>2, <2>8 DEF StopBegins, Goes, Calls, At, On
    <3>2. WillClean(t, o) => call[t].then \in {"cleanup", "sweep"}
      BY <3>1 DEF WillClean, WillSweep, At
    <3> QED BY <3>1, <3>2
  <2> QED BY <2>2, <2>3, <2>4, <2>5, <2>6, <2>7, <2>8
<1>5. WillClean(t, o) => WillClean(t, o)' \/ idOf[o] \notin dirs'
  <2>1. call'[t] = c
    BY <1>2, <1>4
  <2> QED BY <1>4, <2>1 DEF WillClean, WillSweep, On, At, Removing
<1> QED BY <1>1, <1>3, <1>4, <1>5, DirsStep

\* The registry changes, or a session fails or is destroyed.
LEMMA RegistryDirs ==
  ASSUME SessionsInv, DirsInv, NEW t \in Threads,
         \/ ClearActive(t) \/ \E id \in Ids : SetActive(t, id)
         \/ \E o \in Objects : Fail(t, o)
         \/ \E id \in Ids : CreateSession(t, id) \/ Construct(t, id)
         \/ \E o \in Objects : RegisterSession(t, o)
  PROVE  DirsInv'
<1>1. call' = call /\ dirs' \subseteq dirs
  BY DEF ClearActive, SetActive, Fail, CreateSession, Construct, RegisterSession, Makes, resources,
         Removed
<1>2. RegistryInv
  BY DEF SessionsInv
<1>3. Born \subseteq Born' /\ \A o \in Born : idOf'[o] = idOf[o]
  <2>1. CASE \E id \in Ids : CreateSession(t, id) \/ Construct(t, id)
    BY <1>2, <2>1, MadeObject DEF CreateSession, Construct
  <2>2. CASE ~\E id \in Ids : CreateSession(t, id) \/ Construct(t, id)
    BY <2>2 DEF ClearActive, SetActive, Fail, RegisterSession, identity, Born
  <2> QED BY <2>1, <2>2
<1>4. Listed \subseteq Listed' /\ late \subseteq late' \cup Listed'
  <2>1. ASSUME NEW id \in Ids, NEW o \in Objects, sessions[id] = None, Lists(id, o)
        PROVE  Listed \subseteq Listed' /\ o \in Listed'
    <3>1. sessions'[id] = o /\ \A i \in Ids \ {id} : sessions'[i] = sessions[i]
      BY <1>2, <2>1 DEF Lists, RegistryInv
    <3> QED BY <2>1, <3>1, Basics DEF Listed
  <2>2. CASE \E id \in Ids : CreateSession(t, id)
    <3>1. late' = late
      BY <2>2 DEF CreateSession, Makes
    <3>2. PICK id \in Ids : sessions[id] = None /\ Lists(id, made + 1) /\ Makes(id)
      BY <2>2 DEF CreateSession
    <3>3. made + 1 \in Objects
      BY <1>2, <3>2, MadeObject
    <3> QED BY <2>1, <3>1, <3>2, <3>3
  <2>3. CASE \E o \in Objects : RegisterSession(t, o)
    <3>1. PICK o \in Objects : sessions[idOf[o]] = None /\ Lists(idOf[o], o) /\ late' = late \ {o}
      BY <2>3 DEF RegisterSession
    <3>2. idOf[o] \in Ids
      BY <1>2, <3>1 DEF RegistryInv
    <3> QED BY <2>1, <3>1, <3>2
  <2>4. CASE \/ ClearActive(t) \/ \E id \in Ids : SetActive(t, id) \/ Construct(t, id)
             \/ \E o \in Objects : Fail(t, o)
    <3>1. sessions' = sessions /\ late' = late
      BY <2>4 DEF ClearActive, SetActive, Fail, Construct, Makes, registry
    <3> QED BY <3>1 DEF Listed
  <2> QED BY <2>2, <2>3, <2>4
<1>5. \A o \in Born : Owned(o) => Owned(o)'
  BY <1>1, <1>4 DEF Owned, WillClean, WillSweep, On, At
<1> QED BY <1>1, <1>3, <1>5, OwnersKept

\* The thread that takes a session away cleans up after it.
LEMMA TakingDirs ==
  ASSUME SessionsInv, DirsInv, NEW t \in Threads,
         \/ \E id \in Ids : RemoveSession(t, id)
         \/ \E o \in Objects : Destroy(t, o)
  PROVE  DirsInv'
<1>1. /\ UNCHANGED <<idOf, made, dirs>> /\ call[t].op = "idle" /\ call \in [Threads -> Calls]
  BY DEF RemoveSession, Destroy, identity, resources, Asks, At, SessionsInv, Types
<1>2. PICK o \in Objects :
        /\ Listed \subseteq Listed' \cup {o} /\ late \subseteq late' \cup {o}
        /\ \E c : /\ call' = [call EXCEPT ![t] = c]
                  /\ c.on = o /\ c.op \in {"check", "cleanup"}
  <2>1. ASSUME NEW id \in Ids, RemoveSession(t, id)
        PROVE  \E o \in Objects :
                 /\ Listed \subseteq Listed' \cup {o} /\ late \subseteq late' \cup {o}
                 /\ \E c : /\ call' = [call EXCEPT ![t] = c]
                           /\ c.on = o /\ c.op \in {"check", "cleanup"}
    <3>1. PICK o \in Objects : o = sessions[id] /\ sessions' = [sessions EXCEPT ![id] = None]
      BY <2>1 DEF RemoveSession, SessionsInv, RegistryInv
    <3>2. Listed \subseteq Listed' \cup {o} /\ late \subseteq late'
      <4>1. \A i \in Ids \ {id} : sessions'[i] = sessions[i]
        BY <3>1 DEF SessionsInv, RegistryInv
      <4> QED BY <2>1, <3>1, <4>1 DEF Listed, RemoveSession
    <3> DEFINE c == [About("check", o) EXCEPT !.left = <<"RUNNING", "STARTING", "READY">>]
    <3>3. About("check", o) \in Calls /\ About("check", o).op = "check" /\ About("check", o).on = o
      BY AboutCall DEF Ops, Removing
    <3>4. c.op = "check" /\ c.on = o /\ call' = [call EXCEPT ![t] = c]
      BY <2>1, <3>1, <3>3 DEF RemoveSession, Goes, Calls
    <3> HIDE DEF c
    <3> QED BY <3>2, <3>4
  <2>2. ASSUME NEW o \in Objects, Destroy(t, o)
        PROVE  /\ Listed \subseteq Listed' \cup {o} /\ late \subseteq late' \cup {o}
               /\ \E c : /\ call' = [call EXCEPT ![t] = c]
                         /\ c.on = o /\ c.op \in {"check", "cleanup"}
    <3>1. About("cleanup", o).op = "cleanup" /\ About("cleanup", o).on = o
      BY AboutCall DEF Ops, Removing
    <3>2. Listed' = Listed
      BY <2>2 DEF Destroy, registry, Listed
    <3> QED BY <2>2, <3>1, <3>2 DEF Destroy, Goes
  <2> QED BY <2>1, <2>2
<1>3. PICK c : call' = [call EXCEPT ![t] = c] /\ c.on = o /\ c.op \in {"check", "cleanup"}
  BY <1>2
<1>4. /\ call'[t] = c /\ \A u \in Threads \ {t} : call'[u] = call[u]
  BY <1>1, <1>3
<1>5. WillClean(t, o)' /\ \A p \in Born : ~WillClean(t, p)
  BY <1>1, <1>3, <1>4, AtEase DEF WillClean, WillSweep, On, Removing
<1>6. \A u \in Threads \ {t}, p \in Born : WillClean(u, p)' <=> WillClean(u, p)
  BY <1>4 DEF WillClean, WillSweep, On, At
<1>7. \A p \in Born : Owned(p) => Owned(p)'
  BY <1>2, <1>5, <1>6 DEF Owned
<1> QED BY <1>1, <1>7, OwnersKept DEF Born

\* A client starts a session: what is neither listed nor late becomes late.
LEMMA AsksToStartDirs ==
  ASSUME SessionsInv, DirsInv, NEW t \in Threads, NEW o \in Objects, AsksToStart(t, o) PROVE DirsInv'
<1>1. /\ UNCHANGED <<sessions, idOf, made, dirs>> /\ call[t].op = "idle" /\ late \subseteq late'
  BY DEF AsksToStart, registry, identity, resources, Asks, At
<1>2. \A u \in Threads \ {t} :
        call'[u].op = call[u].op /\ call'[u].on = call[u].on /\ call'[u].then = call[u].then
  <2>1. \A u \in Threads \ {t} : call[u] \in Calls /\ call'[u] = [call[u] EXCEPT !.due = call[u].due \ {o}]
    BY DEF AsksToStart, SessionsInv, Types
  <2> QED BY <2>1 DEF Calls
<1>3. \A u \in Threads \ {t}, p \in Born : WillClean(u, p)' <=> WillClean(u, p)
  BY <1>2 DEF WillClean, WillSweep, On, At
<1>4. \A p \in Born : ~WillClean(t, p)
  BY <1>1, AtEase DEF Removing
<1>5. Listed' = Listed /\ Born' = Born
  BY <1>1 DEF Listed, Born
<1>6. \A p \in Born : Owned(p) => Owned(p)'
  BY <1>1, <1>3, <1>4, <1>5 DEF Owned
<1> QED BY <1>1, <1>5, <1>6, OwnersKept

LEMMA DirsNext == ASSUME SessionsInv, DirsInv, [Next]_vars PROVE DirsInv'
<1>1. CASE UNCHANGED vars
  BY <1>1 DEF vars, registry, identity, resources, DirsInv, Owned, WillClean, WillSweep, Born, Listed, On, At
<1>2. ASSUME NEW t \in Threads, Ask(t) PROVE DirsInv'
  <2>1. ASSUME NEW o \in Objects,
               \/ RegisterSession(t, o) \/ AsksToStart(t, o) \/ AsksToStop(t, o)
               \/ Fail(t, o) \/ Destroy(t, o)
        PROVE  DirsInv'
    BY <2>1, RegistryDirs, AsksToStartDirs, EaseDirs, TakingDirs
  <2>2. ASSUME NEW id \in Ids,
               \/ CreateSession(t, id) \/ Construct(t, id) \/ SetActive(t, id)
               \/ StopSession(t, id) \/ RemoveSession(t, id)
        PROVE  DirsInv'
    BY <2>2, RegistryDirs, EaseDirs, TakingDirs
  <2> QED BY <1>2, <2>1, <2>2, RegistryDirs, EaseDirs DEF Ask
<1>3. ASSUME NEW t \in Threads, Step(t) PROVE DirsInv'
  BY <1>3, EaseDirs, CleaningDirs DEF Step
<1> QED BY <1>1, <1>2, <1>3 DEF Next

\* No directories are left of a session that was removed or destroyed, except
\* when somebody started it after its removal, or while it was being removed
\* (Session::initialize, Session::cleanup, SessionManager::remove_session).
THEOREM NoDirectoryLeft == Spec => []NoStrayDirectory
<1>1. Init => DirsInv
  BY DEF Init, DirsInv
<1>2. SessionsInv /\ DirsInv /\ [Next]_vars => DirsInv'
  BY DirsNext
<1>3. DirsInv => NoStrayDirectory
  BY DEF DirsInv, Owned, WillClean, WillSweep, NoStrayDirectory, Born
<1> QED BY <1>1, <1>2, <1>3, SessionsSafe, PTL DEF Spec
==============================================================================
