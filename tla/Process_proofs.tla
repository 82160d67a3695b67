---------------------------- MODULE Process_proofs ----------------------------
(***************************************************************************)
(* What a Process object guarantees to any number of threads.  The         *)
(* inductive invariant says how state_, the kernel's child and the places  *)
(* of the threads go together, inside the methods too: it is the mutex,    *)
(* held across sleeps and waits, that makes the public states              *)
(* trustworthy.                                                            *)
(***************************************************************************)
EXTENDS Process, TLAPS

Leaving(t) == at[t] \in {"destroy", "destroying", "gone"}

\* state_ against the kernel.
StateOfChild ==
  /\ state \in {"CREATED", "STARTING", "FAILED"} => child = "none"
  /\ state \in {"RUNNING", "STOPPING"} => child \in {"alive", "zombie"}
  /\ state = "EXITED" => child \in {"none", "reaped"}
  /\ recorded <=> child = "reaped"

\* state_ against the thread that is inside a method.
StateOfThread ==
  /\ mutex = NoThread => state \notin {"STARTING", "STOPPING"}
  /\ \A t \in Threads :
       /\ at[t] = "spawning" => state = "STARTING"
       /\ at[t] \in {"grace", "killing", "destroying"} => state = "STOPPING"
       /\ at[t] = "waiting" => state = "RUNNING"

\* The destructor runs alone.
Alone ==
  \A t, u \in Threads : Leaving(t) /\ u # t => at[u] = "idle"

ProcessInv ==
  TypeOK /\ StateOfChild /\ StateOfThread /\ Alone /\ NothingOutlivesObject /\ ~stray
-----------------------------------------------------------------------------
\* The initial state.
LEMMA InvInit ==
  ASSUME Init  PROVE ProcessInv
BY ProcessAssumption
   DEF Init, ProcessInv, TypeOK, StateOfChild, StateOfThread, Alone, Leaving,
       NothingOutlivesObject, Inside, AllMethods, Group

\* Nobody is called, dropped or destroyed but by a thread that was idle.
LEMMA InvCalled ==
  ASSUME ProcessInv, NEW t \in Threads, Call(t) \/ Drop(t)
  PROVE  ProcessInv'
<1> USE ProcessAssumption DEF ProcessInv
<1>1. PICK m \in AllMethods \cup {"destroy"} : at' = [at EXCEPT ![t] = m]
  BY DEF Call, Drop, AllMethods
<1>2. /\ UNCHANGED <<state, recorded, mutex, child, helper, deaf, term, doomed, stray>>
      /\ calls' \in Nat /\ at[t] = "idle"
  BY DEF Call, Drop, kernel, TypeOK
<1>3. \A u \in Threads : at'[u] = IF u = t THEN m ELSE at[u]
  BY <1>1 DEF TypeOK
<1>4. TypeOK'
  BY <1>1, <1>2, <1>3 DEF TypeOK, Inside, AllMethods
<1>5. StateOfThread' /\ StateOfChild' /\ NothingOutlivesObject'
  BY <1>2, <1>3 DEF StateOfThread, StateOfChild, NothingOutlivesObject, AllMethods
<1>6. Alone'
  <2>1. CASE Call(t)
    <3>1. \A u \in Threads : ~Leaving(u)'
      BY <2>1, <1>3 DEF Call, Leaving, TypeOK, AllMethods
    <3> QED  BY <3>1 DEF Alone
  <2>2. CASE Drop(t)
    BY <2>2, <1>2, <1>3 DEF Drop, Alone, Leaving
  <2> QED  BY <2>1, <2>2
<1> QED  BY <1>2, <1>4, <1>5, <1>6

\* A thread that holds the mutex, or takes it, is the only one inside.
LEMMA OthersOutside ==
  ASSUME ProcessInv, NEW t \in Threads, mutex \in {NoThread, t}, NEW u \in Threads, u # t
  PROVE  ~Inside(u)
BY ProcessAssumption DEF ProcessInv, TypeOK

\* What a step of a method may do to the threads: it stays inside with the
\* mutex, or it returns and gives the mutex up.
Stays(t, place) ==
  /\ place \in {"spawning", "grace", "killing", "waiting", "destroying"}
  /\ at' = [at EXCEPT ![t] = place] /\ mutex' = t

Leaves(t, place) ==
  /\ place \in {"idle", "gone"}
  /\ at' = [at EXCEPT ![t] = place] /\ mutex' = NoThread

\* Places and mutex agree after such a step, and the destructor stays alone.
LEMMA PlacesKept ==
  ASSUME ProcessInv, NEW t \in Threads, mutex \in {NoThread, t}, at[t] \notin {"idle", "gone"},
         NEW place, Stays(t, place) \/ Leaves(t, place),
         Leaving(t) <=> place \in {"destroying", "gone"}
  PROVE  /\ at' \in [Threads -> AllMethods \cup
                     {"idle", "spawning", "grace", "killing", "waiting",
                      "destroy", "destroying", "gone"}]
         /\ mutex' \in Threads \cup {NoThread}
         /\ \A u \in Threads : Inside(u)' <=> mutex' = u
         /\ \A u \in Threads : at'[u] = IF u = t THEN place ELSE at[u]
         /\ \A u \in Threads \ {t} : ~Inside(u)
         /\ Alone'
<1> USE ProcessAssumption DEF ProcessInv
<1>1. \A u \in Threads : at'[u] = IF u = t THEN place ELSE at[u]
  BY DEF Stays, Leaves, TypeOK
<1>2. \A u \in Threads \ {t} : ~Inside(u)
  BY OthersOutside
<1>3. \A u \in Threads : Inside(u)' <=> mutex' = u
  BY <1>1, <1>2 DEF Stays, Leaves, Inside
<1>4. ASSUME NEW u \in Threads, Leaving(u)', NEW v \in Threads, v # u
      PROVE  at'[v] = "idle"
  <2>1. CASE u = t
    <3>1. Leaving(t) /\ at'[v] = at[v]
      BY <1>1, <1>4, <2>1 DEF Stays, Leaves, Leaving
    <3> QED  BY <3>1, <2>1, <1>4 DEF Alone
  <2>2. CASE u # t
    <3>1. Leaving(u)
      BY <1>1, <1>4, <2>2 DEF Leaving
    <3> QED  BY <3>1, <2>2 DEF Alone
  <2> QED  BY <2>1, <2>2
<1>5. /\ at' \in [Threads -> AllMethods \cup
                  {"idle", "spawning", "grace", "killing", "waiting",
                   "destroy", "destroying", "gone"}]
      /\ mutex' \in Threads \cup {NoThread}
  BY DEF Stays, Leaves, TypeOK
<1>6. Alone'
  BY <1>4 DEF Alone
<1> QED  BY <1>1, <1>2, <1>3, <1>5, <1>6

\* TypeOK without the places.
DataTyped ==
  /\ state \in {"CREATED", "STARTING", "RUNNING", "STOPPING", "EXITED", "FAILED"}
  /\ recorded \in BOOLEAN /\ stray \in BOOLEAN /\ calls \in Nat
  /\ child \in {"none", "alive", "zombie", "reaped"}
  /\ helper \in {"none", "alive", "dead"}
  /\ deaf \subseteq Group /\ term \subseteq Group /\ doomed \subseteq Group

\* Where state_ may be once thread t is at a place.
Fits(place) ==
  /\ place = "spawning" => state = "STARTING"
  /\ place \in {"grace", "killing", "destroying"} => state = "STOPPING"
  /\ place = "waiting" => state = "RUNNING"
  /\ place \in {"idle", "gone"} => state \notin {"STARTING", "STOPPING"}
  /\ place = "gone" => child \in {"none", "reaped"}

\* All that is left to show of a step of a method is where it leaves its own
\* thread, state_ and the child.
LEMMA StepKept ==
  ASSUME ProcessInv, NEW t \in Threads, mutex \in {NoThread, t}, at[t] \notin {"idle", "gone"},
         NEW place, Stays(t, place) \/ Leaves(t, place),
         Leaving(t) <=> place \in {"destroying", "gone"},
         DataTyped', StateOfChild', Fits(place)', ~stray'
  PROVE  ProcessInv'
<1>1. /\ at' \in [Threads -> AllMethods \cup
                  {"idle", "spawning", "grace", "killing", "waiting",
                   "destroy", "destroying", "gone"}]
      /\ mutex' \in Threads \cup {NoThread}
      /\ \A u \in Threads : Inside(u)' <=> mutex' = u
      /\ \A u \in Threads : at'[u] = IF u = t THEN place ELSE at[u]
      /\ \A u \in Threads \ {t} : ~Inside(u)
      /\ Alone'
  BY PlacesKept
<1>2. TypeOK'
  BY <1>1 DEF TypeOK, DataTyped
<1>3. StateOfThread'
  <2>1. mutex' = NoThread => state' \notin {"STARTING", "STOPPING"}
    BY ProcessAssumption DEF Stays, Leaves, Fits
  <2>2. ASSUME NEW u \in Threads
        PROVE  /\ at'[u] = "spawning" => state' = "STARTING"
               /\ at'[u] \in {"grace", "killing", "destroying"} => state' = "STOPPING"
               /\ at'[u] = "waiting" => state' = "RUNNING"
    <3>1. CASE u = t
      BY <1>1, <3>1 DEF Fits
    <3>2. CASE u # t
      BY <1>1, <3>2 DEF Inside
    <3> QED  BY <3>1, <3>2
  <2> QED  BY <2>1, <2>2 DEF StateOfThread
<1>4. NothingOutlivesObject'
  <2> SUFFICES ASSUME NEW u \in Threads, at'[u] = "gone"  PROVE child' \in {"none", "reaped"}
    BY DEF NothingOutlivesObject
  <2>1. u = t
    BY <1>1 DEF ProcessInv, Alone, Leaving
  <2> QED  BY <1>1, <2>1 DEF Fits
<1> QED  BY <1>1, <1>2, <1>3, <1>4 DEF ProcessInv

\* Where Goes and Returns take a thread.
LEMMA PlacesOfHelpers ==
  ASSUME ProcessInv, NEW t \in Threads
  PROVE  /\ \A place \in {"spawning", "grace", "killing", "waiting", "destroying"} :
              Goes(t, place) => Stays(t, place)
         /\ Returns(t) /\ at[t] = "destroy" => Leaves(t, "gone")
         /\ Returns(t) /\ at[t] # "destroy" => Leaves(t, "idle")
BY DEF ProcessInv, TypeOK, Goes, Stays, Returns, Leaves

\* A thread that takes the free mutex finds no transient state; a thread
\* inside holds the mutex and finds the state of its place.
LEMMA BeforeStep ==
  ASSUME ProcessInv, NEW t \in Threads
  PROVE  /\ mutex = NoThread => state \notin {"STARTING", "STOPPING"}
         /\ Inside(t) => mutex = t
         /\ at[t] = "spawning" => state = "STARTING"
         /\ at[t] \in {"grace", "killing", "destroying"} => state = "STOPPING"
         /\ at[t] = "waiting" => state = "RUNNING"
         /\ DataTyped /\ StateOfChild /\ ~stray
BY DEF ProcessInv, TypeOK, StateOfThread, DataTyped

\* start(): the entry, refused or not, and the return of spawn_process.
LEMMA InvStart ==
  ASSUME ProcessInv, NEW t \in Threads, StartEnter(t) \/ Spawned(t) \/ SpawnFails(t)
  PROVE  ProcessInv'
<1>1. CASE StartEnter(t) /\ StartRefused
  <2>1. Leaves(t, "idle") /\ UNCHANGED <<state, recorded, calls, kernel, stray>>
    BY <1>1, PlacesOfHelpers DEF StartEnter, Enter
  <2> QED  BY <1>1, <2>1, StepKept, BeforeStep
           DEF StartEnter, Enter, Leaving, Fits, DataTyped, StateOfChild, kernel
<1>2. CASE StartEnter(t) /\ ~StartRefused
  <2>1. /\ UNCHANGED <<recorded, calls, kernel, stray>>
        /\ \/ Stays(t, "spawning") /\ state' = "STARTING"
           \/ Leaves(t, "idle") /\ state' = "FAILED"
    BY <1>2, PlacesOfHelpers DEF StartEnter, Enter
  <2>2. PICK place \in {"spawning", "idle"} :
           (Stays(t, place) \/ Leaves(t, place)) /\ Fits(place)'
    BY <2>1 DEF Fits
  <2>3. DataTyped' /\ StateOfChild' /\ ~stray'
    BY <1>2, <2>1, BeforeStep DEF DataTyped, StateOfChild, kernel, StartRefused
  <2> QED  BY <1>2, <2>2, <2>3, StepKept DEF StartEnter, Enter, Leaving
<1>3. CASE Spawned(t) \/ SpawnFails(t)
  <2>1. /\ Leaves(t, "idle") /\ at[t] = "spawning" /\ mutex = t
        /\ state = "STARTING" /\ state' \in {"RUNNING", "FAILED"}
    BY <1>3, PlacesOfHelpers, BeforeStep DEF Spawned, SpawnFails, Inside
  <2>2. DataTyped' /\ StateOfChild' /\ ~stray'
    BY <1>3, <2>1, BeforeStep DEF DataTyped, StateOfChild, kernel, Spawned, SpawnFails
  <2>3. Fits("idle")'
    BY <2>1 DEF Fits
  <2> QED  BY <2>1, <2>2, <2>3, StepKept DEF Leaving
<1> QED  BY <1>1, <1>2, <1>3

\* The methods that return at once.
LEMMA InvAnswered ==
  ASSUME ProcessInv, NEW t \in Threads,
         NothingToStop(t) \/ NothingToDestroy(t) \/ WaitAnswered(t) \/ PollAnswered(t)
  PROVE  ProcessInv'
<1>1. CASE NothingToDestroy(t)
  <2>1. /\ Leaves(t, "gone") /\ at[t] = "destroy" /\ mutex = NoThread /\ ~Running
        /\ UNCHANGED <<state, recorded, calls, kernel, stray>>
    BY <1>1, PlacesOfHelpers DEF NothingToDestroy, Enter
  <2>2. Fits("gone")'
    BY <2>1, BeforeStep DEF Fits, Running, StateOfChild, DataTyped, kernel
  <2> QED  BY <2>1, <2>2, StepKept, BeforeStep DEF Leaving, DataTyped, StateOfChild, kernel
<1>2. CASE NothingToStop(t) \/ WaitAnswered(t) \/ PollAnswered(t)
  <2>1. /\ at[t] \in {"stop", "kill", "wait", "poll"} /\ mutex = NoThread
        /\ Returns(t)
        /\ UNCHANGED <<recorded, calls, kernel, stray>>
        /\ state' = state \/ (state' = "EXITED" /\ ~HasPid)
    BY <1>2 DEF NothingToStop, WaitAnswered, PollAnswered, Enter
  <2>2. Leaves(t, "idle")
    BY <2>1, PlacesOfHelpers
  <2>3. DataTyped' /\ StateOfChild' /\ ~stray' /\ Fits("idle")'
    BY <2>1, BeforeStep DEF DataTyped, StateOfChild, Fits, HasPid, kernel
  <2> QED  BY <2>1, <2>2, <2>3, StepKept DEF Leaving
<1> QED  BY <1>1, <1>2

\* SIGTERM, SIGKILL and the blocking wait: sent and begun only while the
\* child is still to be waited for.
LEMMA InvEnter ==
  ASSUME ProcessInv, NEW t \in Threads, StopEnter(t) \/ KillEnter(t) \/ WaitEnter(t)
  PROVE  ProcessInv'
<1>1. CASE StopEnter(t) \/ KillEnter(t)
  <2>1. /\ at[t] \in {"stop", "kill", "destroy", "grace"} /\ mutex \in {NoThread, t}
        /\ child \in {"alive", "zombie"} /\ state' = "STOPPING" /\ Names
        /\ UNCHANGED <<recorded, calls, child, helper, deaf>>
        /\ term' \in {term, term \cup Members} /\ doomed' \in {doomed, doomed \cup Members}
    BY <1>1, BeforeStep
       DEF StopEnter, KillEnter, Enter, Ended, HasPid, Running, StateOfChild, DataTyped,
           GracefulStop, ForceKill, Inside
  <2>2. PICK place \in {"grace", "killing", "destroying"} :
           Stays(t, place) /\ (place = "destroying" <=> at[t] = "destroy")
    BY <1>1, <2>1, PlacesOfHelpers DEF StopEnter, KillEnter, Enter
  <2>3. DataTyped' /\ StateOfChild' /\ ~stray' /\ Fits(place)'
    BY <2>1, BeforeStep DEF DataTyped, StateOfChild, Fits, Names, Members
  <2> QED  BY <2>1, <2>2, <2>3, StepKept DEF Leaving
<1>2. CASE WaitEnter(t)
  <2>1. /\ Stays(t, "waiting") /\ at[t] = "wait" /\ mutex = NoThread /\ ~recorded /\ HasPid
        /\ UNCHANGED <<state, recorded, calls, kernel>> /\ Names
    BY <1>2, PlacesOfHelpers DEF WaitEnter, Enter, Unwaited
  <2>2. child \in {"alive", "zombie"} /\ state = "RUNNING"
    BY <2>1, BeforeStep DEF StateOfChild, DataTyped, HasPid
  <2>3. DataTyped' /\ StateOfChild' /\ ~stray' /\ Fits("waiting")'
    BY <2>1, <2>2, BeforeStep DEF DataTyped, StateOfChild, Fits, Names, kernel
  <2> QED  BY <2>1, <2>3, StepKept DEF Leaving
<1> QED  BY <1>1, <1>2

\* waitpid answers, inside stop, kill, wait or the destructor, or in poll.
LEMMA InvCollect ==
  ASSUME ProcessInv, NEW t \in Threads, Collect(t) \/ Poll(t)
  PROVE  ProcessInv'
<1>1. CASE Collect(t)
  <2>1. /\ at[t] \in {"grace", "killing", "destroying", "waiting"} /\ mutex = t
        /\ child' = "reaped" /\ recorded' = TRUE /\ state' = "EXITED"
        /\ UNCHANGED <<calls, helper, deaf, term, doomed, stray>>
    BY <1>1, BeforeStep DEF Collect, Reap, Record, Inside
  <2>2. PICK place \in {"gone", "idle"} :
           Leaves(t, place) /\ (place = "gone" <=> at[t] = "destroying")
    BY <1>1 DEF Collect, Leaves, ProcessInv, TypeOK
  <2>3. DataTyped' /\ StateOfChild' /\ ~stray' /\ Fits(place)'
    BY <2>1, <2>2, BeforeStep DEF DataTyped, StateOfChild, Fits
  <2> QED  BY <2>1, <2>2, <2>3, StepKept DEF Leaving
<1>2. CASE Poll(t)
  <2>1. /\ at[t] = "poll" /\ mutex = NoThread /\ ~recorded /\ HasPid /\ Names
        /\ Leaves(t, "idle") /\ UNCHANGED calls
        /\ \/ child' = "reaped" /\ recorded' = TRUE /\ state' = "EXITED"
              /\ UNCHANGED <<helper, deaf, term, doomed>>
           \/ UNCHANGED <<state, recorded, kernel>>
    BY <1>2, PlacesOfHelpers DEF Poll, Enter, Unwaited, Reap, Record
  <2>2. child \in {"alive", "zombie"} /\ state = "RUNNING"
    BY <2>1, BeforeStep DEF StateOfChild, DataTyped, HasPid
  <2>3. stray' = FALSE
    BY <2>1, <2>2, BeforeStep DEF Names, DataTyped
  <2>4. DataTyped'
    BY <2>1, <2>3, BeforeStep DEF DataTyped, kernel
  <2>5. StateOfChild' /\ Fits("idle")'
    BY <2>1, <2>2, BeforeStep DEF StateOfChild, Fits, kernel
  <2> QED  BY <2>1, <2>3, <2>4, <2>5, StepKept DEF Leaving
<1> QED  BY <1>1, <1>2

\* The kernel and the child's program never reap.
LEMMA InvKernel ==
  ASSUME ProcessInv, Fork \/ ChildDies \/ HelperDies \/ UNCHANGED vars
  PROVE  ProcessInv'
<1>1. /\ UNCHANGED <<state, recorded, mutex, at, calls, deaf, term, doomed, stray>>
      /\ child' = child \/ (child = "alive" /\ child' = "zombie")
      /\ helper' \in {helper, "alive", "dead"}
  BY DEF Fork, ChildDies, HelperDies, vars, object, kernel
<1>2. TypeOK'
  BY <1>1 DEF ProcessInv, TypeOK, Inside
<1>3. StateOfChild' /\ NothingOutlivesObject' /\ ~stray'
  BY <1>1 DEF ProcessInv, StateOfChild, NothingOutlivesObject
<1>4. StateOfThread' /\ Alone'
  BY <1>1 DEF ProcessInv, StateOfThread, Alone, Leaving
<1> QED  BY <1>2, <1>3, <1>4 DEF ProcessInv

\* The invariant behind the theorems below.
THEOREM ProcessInvariant == Spec => []ProcessInv
<1>1. ASSUME ProcessInv, [Next]_vars  PROVE ProcessInv'
  <2>1. ASSUME NEW t \in Threads, Call(t) \/ Drop(t) \/ Step(t)  PROVE ProcessInv'
    BY <1>1, <2>1, InvCalled, InvStart, InvAnswered, InvEnter, InvCollect DEF Step
  <2> QED  BY <1>1, <2>1, InvKernel DEF Next
<1> QED  BY InvInit, <1>1, PTL DEF Spec

\* Types, and the mutex is held by the thread inside a method and no other.
THEOREM ProcessTypes == Spec => []TypeOK
<1>1. ProcessInv => TypeOK
  BY DEF ProcessInv
<1> QED  BY <1>1, ProcessInvariant, PTL

\* No signal and no waitpid names a pid that was given back to the kernel.
THEOREM PidIsOurs == Spec => []OnlyOwnChild
<1>1. ProcessInv => OnlyOwnChild
  BY DEF ProcessInv, OnlyOwnChild
<1> QED  BY <1>1, ProcessInvariant, PTL

\* A child is reaped exactly when its exit is recorded.
THEOREM ExitIsRecorded == Spec => []ExitRecorded
<1>1. ProcessInv => ExitRecorded
  BY DEF ProcessInv, TypeOK, StateOfChild, ExitRecorded
<1> QED  BY <1>1, ProcessInvariant, PTL

\* Between calls, a child that is not reaped is RUNNING.
THEOREM UnreapedRuns == Spec => []UnreapedIsRunning
<1>1. ProcessInv => UnreapedIsRunning
  BY DEF ProcessInv, TypeOK, StateOfChild, StateOfThread, UnreapedIsRunning
<1> QED  BY <1>1, ProcessInvariant, PTL

\* The destructor leaves no child and no zombie.
THEOREM ObjectCleansUp == Spec => []NothingOutlivesObject
<1>1. ProcessInv => NothingOutlivesObject
  BY DEF ProcessInv
<1> QED  BY <1>1, ProcessInvariant, PTL
-----------------------------------------------------------------------------
(* What SIGKILL leaves.                                                    *)

\* Inside kill_locked, after its SIGKILL.
Forced == {"killing", "destroying"}

\* The whole group is being killed, and will have no new member.
KillReached ==
  \A t \in Threads : at[t] \in Forced =>
    "child" \in doomed /\ (helper = "alive" => "helper" \in doomed)

\* A thread that leaves kill_locked has reaped the child, and of the group
\* nobody is left that is not being killed.
ForcedEnd(t) ==
  at[t] \in Forced /\ at'[t] # at[t] =>
    child' = "reaped" /\ (helper' = "alive" => Dying("helper")')

\* Only KillEnter takes a thread there, with the signal sent; no step takes a
\* SIGKILL back, and who is to die of one forks no more.
LEMMA KillReachedStep ==
  ASSUME ProcessInv, KillReached, [Next]_vars
  PROVE  KillReached'
<1> SUFFICES ASSUME NEW t \in Threads, at'[t] \in Forced
             PROVE  "child" \in doomed' /\ (helper' = "alive" => "helper" \in doomed')
  BY DEF KillReached
<1>1. ASSUME NEW u \in Threads, KillEnter(u)
      PROVE  "child" \in doomed' /\ (helper' = "alive" => "helper" \in doomed')
  <2>1. doomed' = doomed \cup Members /\ helper' = helper
    BY <1>1 DEF KillEnter, ForceKill
  <2> QED  BY <2>1 DEF Members, Group
<1>2. ASSUME NEW u \in Threads, Step(u), ~KillEnter(u)
      PROVE  at[t] \in Forced /\ UNCHANGED <<helper, doomed>>
  <2>1. PICK place \in {"idle", "gone", "spawning", "grace", "waiting"} :
           at' = [at EXCEPT ![u] = place]
    BY <1>2 DEF Step, StartEnter, Spawned, SpawnFails, NothingToStop, StopEnter,
                NothingToDestroy, Collect, WaitAnswered, WaitEnter, PollAnswered, Poll,
                Goes, Returns
  <2>2. UNCHANGED <<helper, doomed>>
    BY <1>2 DEF Step, StartEnter, Spawned, SpawnFails, NothingToStop, StopEnter,
                NothingToDestroy, Collect, WaitAnswered, WaitEnter, PollAnswered, Poll,
                Reap, GracefulStop, kernel
  <2>3. at[t] \in Forced
    BY <2>1 DEF ProcessInv, TypeOK, Forced
  <2> QED  BY <2>2, <2>3
<1>3. ASSUME NEW u \in Threads, Call(u) \/ Drop(u)
      PROVE  at[t] \in Forced /\ UNCHANGED <<helper, doomed>>
  <2>1. PICK place \in AllMethods \cup {"destroy"} : at' = [at EXCEPT ![u] = place]
    BY <1>3, ProcessAssumption DEF Call, Drop
  <2> QED  BY <1>3, <2>1 DEF Call, Drop, kernel, ProcessInv, TypeOK, Forced, AllMethods
<1>4. CASE Fork
  BY <1>4 DEF Fork, object, KillReached
<1>5. CASE ChildDies \/ HelperDies \/ UNCHANGED vars
  BY <1>5 DEF ChildDies, HelperDies, vars, object, kernel, KillReached
<1> QED  BY <1>1, <1>2, <1>3, <1>4, <1>5 DEF Next, KillReached

\* Only waitpid's answer takes a thread away from there.
LEMMA ForcedEndStep ==
  ASSUME ProcessInv, KillReached, [Next]_vars, NEW t \in Threads
  PROVE  ForcedEnd(t)
<1> SUFFICES ASSUME at[t] \in Forced, at'[t] # at[t]
             PROVE  child' = "reaped" /\ (helper' = "alive" => Dying("helper")')
  BY DEF ForcedEnd
<1>1. ~(Fork \/ ChildDies \/ HelperDies \/ UNCHANGED vars)
  BY DEF Fork, ChildDies, HelperDies, vars, object
<1>2. PICK u \in Threads : Call(u) \/ Drop(u) \/ Step(u)
  BY <1>1 DEF Next
<1>3. PICK place : at' = [at EXCEPT ![u] = place]
  BY <1>2 DEF Call, Drop, Step, StartEnter, Spawned, SpawnFails, NothingToStop, StopEnter,
              KillEnter, NothingToDestroy, Collect, WaitAnswered, WaitEnter, PollAnswered,
              Poll, Goes, Returns
<1>4. u = t
  BY <1>3 DEF ProcessInv, TypeOK
<1>5. Collect(t)
  BY <1>2, <1>4 DEF Forced, Call, Drop, Step, StartEnter, Spawned, SpawnFails, NothingToStop,
              StopEnter, KillEnter, NothingToDestroy, WaitAnswered, WaitEnter, PollAnswered,
              Poll, Enter, AllMethods
<1>6. child' = "reaped" /\ UNCHANGED <<helper, deaf, term, doomed>>
  BY <1>5 DEF Collect, Reap
<1> QED  BY <1>6 DEF KillReached, Dying

\* docs/process.md, on the escalation: where stop() fell back on SIGKILL, and
\* after kill() and the destructor of a running process, the child is reaped
\* and no member of its group, whatever signals it ignores and whenever it was
\* forked, is left that is not being killed.
THEOREM ForceLeavesNobody ==
  Spec => []KillReached /\ [][\A t \in Threads : ForcedEnd(t)]_vars
<1>1. Init => KillReached
  BY DEF Init, KillReached, Forced
<1>2. ProcessInv /\ KillReached /\ [Next]_vars => KillReached'
  BY KillReachedStep
<1>3. ProcessInv /\ KillReached /\ [Next]_vars => [\A t \in Threads : ForcedEnd(t)]_vars
  BY ForcedEndStep
<1> QED  BY <1>1, <1>2, <1>3, ProcessInvariant, PTL DEF Spec
-----------------------------------------------------------------------------
(* The refinement of ProcessContract.                                      *)

MovesTo(t, place) == at' = [at EXCEPT ![t] = place]

\* A thread that goes to a place is in the method of that place.
LEMMA DoingMoves ==
  ASSUME ProcessInv, NEW t \in Threads, NEW place, MovesTo(t, place)
  PROVE  /\ doingOf' = [doingOf EXCEPT ![t] = MethodAt(place)]
         /\ doingOf[t] = MethodAt(at[t])
<1>1. \A u \in Threads : at'[u] = IF u = t THEN place ELSE at[u]
  BY DEF ProcessInv, TypeOK, MovesTo
<1>2. doingOf' = [u \in Threads |-> IF u = t THEN MethodAt(place) ELSE MethodAt(at[u])]
  BY <1>1 DEF doingOf
<1>3. doingOf = [u \in Threads |-> MethodAt(at[u])]
  BY DEF doingOf
<1> QED BY <1>2, <1>3

\* The methods of the places.
LEMMA MethodsOfPlaces ==
  /\ MethodAt("idle") = "nothing" /\ MethodAt("gone") = "gone"
  /\ MethodAt("start") = "start" /\ MethodAt("spawning") = "start"
  /\ MethodAt("stop") = "stop" /\ MethodAt("kill") = "stop"
  /\ MethodAt("grace") = "stop" /\ MethodAt("killing") = "stop"
  /\ MethodAt("wait") = "wait" /\ MethodAt("waiting") = "wait" /\ MethodAt("poll") = "poll"
  /\ MethodAt("destroy") = "drop" /\ MethodAt("destroying") = "drop"
  BY DEF MethodAt

\* What the child and state_ mean for the abstract process.
LEMMA LifeFacts ==
  ASSUME StateOfChild, DataTyped
  PROVE  /\ child \in {"alive", "zombie"} => lifeOf = child
         /\ child = "reaped" \/ state = "EXITED" => lifeOf = "exited"
         /\ state = "FAILED" => lifeOf = "failed"
         /\ state \in {"CREATED", "STARTING"} => lifeOf = "created"
  BY DEF StateOfChild, DataTyped, lifeOf

\* Places inside one method are one to the contract.
LEMMA DoingStill ==
  ASSUME ProcessInv, NEW t \in Threads, NEW place, MovesTo(t, place),
         MethodAt(place) = MethodAt(at[t])
  PROVE  doingOf' = doingOf
<1>1. doingOf' = [doingOf EXCEPT ![t] = doingOf[t]]
  BY DoingMoves
<1> QED BY <1>1 DEF doingOf

LEMMA CalledIsAsked ==
  ASSUME ProcessInv, NEW t \in Threads, Call(t) \/ Drop(t)
  PROVE  Contract!Ask(t) \/ Contract!AskDrop(t)
<1>1. lifeOf' = lifeOf
  BY DEF Call, Drop, kernel, lifeOf
<1>2. CASE Call(t)
  <2>1. PICK m \in AllMethods : MovesTo(t, m)
    BY <1>2, ProcessAssumption DEF Call, MovesTo
  <2>2. MethodAt(m) \in Contract!SharedMethods
    BY MethodsOfPlaces DEF AllMethods, Contract!SharedMethods
  <2>3. doingOf' = [doingOf EXCEPT ![t] = MethodAt(m)] /\ doingOf[t] = "nothing"
    BY <1>2, <2>1, DoingMoves, MethodsOfPlaces DEF Call
  <2>4. \A u \in Threads : doingOf[u] \notin {"drop", "gone"}
    <3>1. \A u \in Threads : /\ at[u] \notin {"destroy", "destroying", "gone"}
                             /\ at[u] \in AllMethods \cup {"idle", "spawning", "grace", "killing", "waiting"}
      BY <1>2 DEF Call, ProcessInv, TypeOK
    <3> QED BY <3>1, MethodsOfPlaces DEF doingOf, AllMethods
  <2> QED BY <1>1, <2>2, <2>3, <2>4 DEF Contract!Ask
<1>3. CASE Drop(t)
  <2>1. doingOf' = [doingOf EXCEPT ![t] = "drop"]
    <3>1. MovesTo(t, "destroy")
      BY <1>3 DEF Drop, MovesTo
    <3> QED BY <3>1, DoingMoves, MethodsOfPlaces
  <2>2. \A u \in Threads : doingOf[u] = "nothing"
    BY <1>3, MethodsOfPlaces DEF Drop, doingOf
  <2> QED BY <1>1, <2>1, <2>2 DEF Contract!AskDrop
<1> QED BY <1>2, <1>3

LEMMA StartIsOneStep ==
  ASSUME ProcessInv, StateOfChild', DataTyped', NEW t \in Threads,
         StartEnter(t) \/ Spawned(t) \/ SpawnFails(t)
  PROVE  Contract!StartAnswers(t) \/ UNCHANGED <<lifeOf, doingOf>>
<1>1. /\ mutex = NoThread => state \notin {"STARTING", "STOPPING"}
      /\ at[t] = "spawning" => state = "STARTING"
      /\ StateOfChild /\ DataTyped
  BY BeforeStep
<1>2. at[t] \in {"start", "spawning"} /\ doingOf[t] = "start"
  BY MethodsOfPlaces DEF StartEnter, Spawned, SpawnFails, Enter, doingOf
<1>3. CASE StartEnter(t) /\ Goes(t, "spawning")
  <2>1. doingOf' = doingOf
    <3>1. MovesTo(t, "spawning")
      BY <1>3 DEF Goes, MovesTo
    <3> QED BY <1>2, <1>3, <3>1, DoingStill, MethodsOfPlaces DEF StartEnter, Enter
  <2>2. state \in {"CREATED", "STARTING"} /\ state' \in {"CREATED", "STARTING"}
    BY <1>3, ProcessAssumption DEF StartEnter, StartRefused, Goes, Returns, Enter
  <2>3. lifeOf = "created"
    BY <1>1, <2>2, LifeFacts
  <2>4. lifeOf' = "created"
    <3>1. child' = child
      BY <1>3 DEF StartEnter, kernel
    <3>2. child = "none"
      BY <1>1, <2>2 DEF StateOfChild
    <3> QED BY <2>2, <3>1, <3>2 DEF lifeOf
  <2> QED BY <2>1, <2>3, <2>4
<1>4. CASE Returns(t)
  <2>1. doingOf' = [doingOf EXCEPT ![t] = "nothing"]
    <3>1. MovesTo(t, "idle")
      BY <1>2, <1>4 DEF Returns, MovesTo
    <3> QED BY <3>1, DoingMoves, MethodsOfPlaces
  <2>2. CASE StartEnter(t) /\ StartRefused
    <3>1. UNCHANGED <<child, state>> /\ state \in {"RUNNING", "EXITED", "FAILED"}
      BY <1>1, <2>2 DEF StartEnter, StartRefused, kernel, Enter, DataTyped
    <3>2. lifeOf' = lifeOf
      BY <3>1 DEF lifeOf
    <3>3. lifeOf # "created"
      BY <1>1, <3>1, LifeFacts DEF StateOfChild
    <3> QED BY <1>2, <2>1, <3>2, <3>3 DEF Contract!StartAnswers, Contract!Answer
  <2>3. CASE ~(StartEnter(t) /\ StartRefused)
    <3>1. /\ state \in {"CREATED", "STARTING"}
          /\ \/ state' = "FAILED" /\ child' = child
             \/ state' = "RUNNING" /\ child' = "alive"
      BY <1>1, <1>4, <2>3, ProcessAssumption
         DEF StartEnter, StartRefused, Spawned, SpawnFails, kernel, Goes, Returns
    <3>2. child = "none" /\ lifeOf = "created"
      BY <1>1, <3>1, LifeFacts DEF StateOfChild
    <3>3. lifeOf' \in {"alive", "failed"}
      BY <3>1, <3>2 DEF lifeOf
    <3> QED BY <1>2, <2>1, <3>2, <3>3 DEF Contract!StartAnswers, Contract!Answer
  <2> QED BY <2>2, <2>3
<1>5. (StartEnter(t) /\ Goes(t, "spawning")) \/ Returns(t)
  BY DEF StartEnter, Spawned, SpawnFails
<1> QED BY <1>3, <1>4, <1>5

LEMMA AnsweredIsOneStep ==
  ASSUME ProcessInv, NEW t \in Threads,
         NothingToStop(t) \/ NothingToDestroy(t) \/ WaitAnswered(t) \/ PollAnswered(t)
  PROVE  \/ Contract!StopAnswers(t) \/ Contract!DropAnswers(t)
         \/ Contract!WaitAnswers(t) \/ Contract!PollAnswers(t)
<1>1. mutex = NoThread /\ state \notin {"STARTING", "STOPPING"} /\ StateOfChild /\ DataTyped
  BY BeforeStep DEF NothingToStop, NothingToDestroy, WaitAnswered, PollAnswered, Enter
<1>2. child' = child /\ Returns(t)
  BY DEF NothingToStop, NothingToDestroy, WaitAnswered, PollAnswered, kernel
<1>3. doingOf[t] = MethodAt(at[t])
  BY DEF doingOf
<1>4. at[t] # "destroy" => doingOf' = [doingOf EXCEPT ![t] = "nothing"]
  <2>1. at[t] # "destroy" => MovesTo(t, "idle")
    BY <1>2 DEF Returns, MovesTo
  <2> QED BY <2>1, DoingMoves, MethodsOfPlaces
<1>5. CASE NothingToStop(t)
  <2>1. doingOf[t] = "stop" /\ at[t] # "destroy"
    BY <1>3, <1>5, MethodsOfPlaces DEF NothingToStop, Enter
  <2>2. /\ state \in {"EXITED", "FAILED"} \/ (state = "CREATED" /\ state' = "EXITED")
        /\ state = "FAILED" => state' = state
        /\ state = "EXITED" => state' = state
    BY <1>1, <1>5 DEF NothingToStop, Ended, HasPid, StateOfChild, DataTyped
  <2>3. lifeOf' = IF lifeOf = "failed" THEN "failed" ELSE "exited"
    BY <1>1, <1>2, <2>2 DEF lifeOf, StateOfChild
  <2> QED BY <1>4, <2>1, <2>3 DEF Contract!StopAnswers, Contract!Answer
<1>6. CASE NothingToDestroy(t)
  <2>1. doingOf[t] = "drop" /\ doingOf' = [doingOf EXCEPT ![t] = "gone"]
    <3>1. at[t] = "destroy" /\ MovesTo(t, "gone")
      BY <1>2, <1>6 DEF NothingToDestroy, Returns, Enter, MovesTo
    <3> QED BY <1>3, <3>1, DoingMoves, MethodsOfPlaces
  <2>2. state' = state /\ state \in {"CREATED", "EXITED", "FAILED"}
    BY <1>1, <1>6 DEF NothingToDestroy, Running, DataTyped
  <2>3. lifeOf' = lifeOf /\ lifeOf \notin {"alive", "zombie"}
    BY <1>1, <1>2, <2>2 DEF lifeOf, StateOfChild
  <2> QED BY <2>1, <2>3 DEF Contract!DropAnswers
<1>7. CASE WaitAnswered(t) \/ PollAnswered(t)
  <2>1. /\ doingOf[t] \in {"wait", "poll"} /\ at[t] # "destroy" /\ state' = state
        /\ recorded \/ child = "none"
    BY <1>3, <1>7, MethodsOfPlaces DEF WaitAnswered, PollAnswered, Enter, Unwaited, HasPid
  <2>2. lifeOf' = lifeOf /\ lifeOf \notin {"alive", "zombie"}
    BY <1>1, <1>2, <2>1 DEF lifeOf, StateOfChild
  <2> QED BY <1>4, <2>1, <2>2 DEF Contract!WaitAnswers, Contract!PollAnswers, Contract!Answer
<1> QED BY <1>5, <1>6, <1>7

LEMMA EnteringIsSilent ==
  ASSUME ProcessInv, NEW t \in Threads, StopEnter(t) \/ KillEnter(t) \/ WaitEnter(t)
  PROVE  UNCHANGED <<lifeOf, doingOf>>
<1>1. PICK place \in {"grace", "killing", "destroying", "waiting"} :
        MovesTo(t, place) /\ MethodAt(place) = MethodAt(at[t])
  BY MethodsOfPlaces DEF StopEnter, KillEnter, WaitEnter, Enter, Goes, MovesTo
<1>2. doingOf' = doingOf
  BY <1>1, DoingStill
<1>3. StateOfChild /\ DataTyped /\ (mutex = NoThread => state \notin {"STARTING", "STOPPING"})
      /\ (at[t] = "grace" => state = "STOPPING")
  BY BeforeStep
<1>4. child \in {"alive", "zombie"} /\ child' = child
  BY <1>3 DEF StopEnter, KillEnter, WaitEnter, Enter, Ended, HasPid, Running, Unwaited, StateOfChild,
              DataTyped, kernel
<1>5. lifeOf' = lifeOf
  BY <1>4 DEF lifeOf
<1> QED BY <1>2, <1>5

LEMMA CollectIsOneStep ==
  ASSUME ProcessInv, NEW t \in Threads, Collect(t) \/ Poll(t)
  PROVE  \/ Contract!StopAnswers(t) \/ Contract!DropAnswers(t)
         \/ Contract!WaitAnswers(t) \/ Contract!PollAnswers(t)
<1>1. doingOf[t] = MethodAt(at[t]) /\ StateOfChild /\ DataTyped
  BY BeforeStep DEF doingOf
<1>2. CASE Collect(t)
  <2>1. lifeOf = "zombie" /\ lifeOf' = "exited"
    <3>1. child = "zombie" /\ child' = "reaped"
      BY <1>2 DEF Collect, Reap
    <3>2. lifeOf = "zombie"
      BY <1>1, <3>1, LifeFacts
    <3>3. lifeOf' = "exited"
      BY <3>1 DEF lifeOf
    <3> QED BY <3>2, <3>3
  <2>2. /\ at[t] \in {"grace", "killing", "waiting"} => MovesTo(t, "idle")
        /\ at[t] = "destroying" => MovesTo(t, "gone")
        /\ at[t] \in {"grace", "killing", "destroying", "waiting"}
    BY <1>2 DEF Collect, MovesTo
  <2>3. /\ at[t] \in {"grace", "killing", "waiting"} => doingOf' = [doingOf EXCEPT ![t] = "nothing"]
        /\ at[t] = "destroying" => doingOf' = [doingOf EXCEPT ![t] = "gone"]
    BY <2>2, DoingMoves, MethodsOfPlaces
  <2> QED BY <1>1, <2>1, <2>2, <2>3, MethodsOfPlaces
          DEF Contract!StopAnswers, Contract!DropAnswers, Contract!WaitAnswers, Contract!Answer
<1>3. CASE Poll(t)
  <2>1. at[t] = "poll" /\ MovesTo(t, "idle")
    BY <1>3 DEF Poll, Enter, Returns, MovesTo
  <2>2. doingOf[t] = "poll" /\ doingOf' = [doingOf EXCEPT ![t] = "nothing"]
    BY <1>1, <2>1, DoingMoves, MethodsOfPlaces
  <2>3. lifeOf' = IF lifeOf = "zombie" THEN "exited" ELSE lifeOf
    <3>1. CASE Reap /\ Record
      BY <3>1 DEF Reap, Record, lifeOf
    <3>2. CASE child # "zombie" /\ UNCHANGED <<state, recorded, kernel>>
      <4>1. lifeOf # "zombie"
        BY <1>1, <3>2 DEF lifeOf, DataTyped
      <4> QED BY <3>2, <4>1 DEF lifeOf, kernel
    <3> QED BY <1>3, <3>1, <3>2 DEF Poll
  <2> QED BY <2>2, <2>3 DEF Contract!PollAnswers, Contract!Answer
<1> QED BY <1>2, <1>3

LEMMA KernelIsDeath ==
  ASSUME ProcessInv, Fork \/ ChildDies \/ HelperDies \/ UNCHANGED vars
  PROVE  Contract!Dies \/ UNCHANGED <<lifeOf, doingOf>>
<1>1. UNCHANGED <<state, at>> /\ (child' = child \/ (child = "alive" /\ child' = "zombie"))
  BY DEF Fork, ChildDies, HelperDies, vars, object, kernel
<1>2. doingOf' = doingOf
  BY <1>1 DEF doingOf
<1> QED BY <1>1, <1>2 DEF lifeOf, Contract!Dies

\* Every method of a Process takes effect at once when it returns, for any
\* number of threads: stop() leaves nothing that runs or has to be reaped, a
\* process starts at most once, the destructor leaves nothing.
THEOREM ProcessContractKept == Spec => ProcessKeepsContract
<1>1. Init => Contract!ContractInit
  BY MethodsOfPlaces DEF Init, Contract!ContractInit, lifeOf, doingOf
<1>2. ProcessInv /\ ProcessInv' /\ [Next]_vars => [Contract!ContractNext]_(Contract!pvars)
  <2> SUFFICES ASSUME ProcessInv, ProcessInv', [Next]_vars
               PROVE  Contract!ContractNext \/ UNCHANGED <<lifeOf, doingOf>>
    BY DEF Contract!pvars
  <2>1. StateOfChild' /\ DataTyped'
    BY DEF ProcessInv, TypeOK, DataTyped
  <2>2. ASSUME NEW t \in Threads, Call(t) \/ Drop(t) \/ Step(t)
        PROVE  Contract!ContractNext \/ UNCHANGED <<lifeOf, doingOf>>
    BY <2>1, <2>2, CalledIsAsked, StartIsOneStep, AnsweredIsOneStep, EnteringIsSilent, CollectIsOneStep
       DEF Step, Contract!ContractNext
  <2> QED BY <2>2, KernelIsDeath DEF Next, Contract!ContractNext
<1> QED
  BY <1>1, <1>2, ProcessInvariant, PTL DEF Spec, ProcessKeepsContract, Contract!ContractSpec
=============================================================================
