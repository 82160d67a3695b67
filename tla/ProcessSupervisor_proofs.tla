----------------------- MODULE ProcessSupervisor_proofs -----------------------
(***************************************************************************)
(* What the registry and stop_all promise, for any number of threads,      *)
(* processes, pids and calls.                                              *)
(***************************************************************************)
EXTENDS ProcessSupervisor, TLAPS

Types ==
  /\ registry \subseteq Handles /\ raced \subseteq Handles
  /\ life \in [Handles -> Lives] /\ call \in [Threads -> Calls]

CallInv(t) ==
  /\ call[t].op \in {"register", "spawn"} =>
       /\ call[t].on \in Handles
       /\ call[t].op = "spawn" => call[t].on \in registry \cup raced
  /\ call[t].op \in StopAllOps => call[t].due \subseteq call[t].all

\* What a stop_all under way does not have in its copy, or has before it runs,
\* raced with it: clear() may forget it.
StopAllInv(t) ==
  call[t].op \in StopAllOps =>
    \A p \in Handles : InFlight(p) \/ (Running(p) /\ p \notin call[t].all) => p \in raced

SupervisorInv ==
  /\ Types /\ (\A t \in Threads : CallInv(t)) /\ (\A t \in Threads : StopAllInv(t))
  /\ SupervisedUnlessRaced

-----------------------------------------------------------------------------
\* A step that starts nothing, forgets nothing and begins no stop_all.
LEMMA QuietStep ==
  ASSUME SupervisorInv, NEW t \in Threads, NEW c \in Calls, call' = [call EXCEPT ![t] = c],
         c.op \notin {"register", "spawn"},
         c.op \in StopAllOps =>
           call[t].op \in StopAllOps /\ c.all = call[t].all /\ c.due = call[t].due,
         life' \in [Handles -> Lives], \A p \in Handles : Running(p)' => Running(p),
         registry' = registry, raced' = raced
  PROVE  SupervisorInv'
<1> USE DEF SupervisorInv, Types
<1>1. /\ call'[t] = c /\ \A u \in Threads \ {t} : call'[u] = call[u]
      /\ call' \in [Threads -> Calls]
  OBVIOUS
<1>2. \A p \in Handles : InFlight(p)' => InFlight(p)
  BY <1>1 DEF InFlight
<1>3. ASSUME NEW u \in Threads PROVE CallInv(u)'
  BY <1>1, <1>3 DEF CallInv
<1>4. ASSUME NEW u \in Threads PROVE StopAllInv(u)'
  BY <1>1, <1>2, <1>4 DEF StopAllInv
<1>5. SupervisedUnlessRaced'
  BY DEF SupervisedUnlessRaced
<1> QED BY <1>1, <1>3, <1>4, <1>5

\* A step that leaves the registry and the calls alone and starts nothing.
LEMMA DeathStep ==
  ASSUME SupervisorInv, UNCHANGED <<registry, raced, call>>,
         life' \in [Handles -> Lives], \A p \in Handles : Running(p)' => Running(p)
  PROVE  SupervisorInv'
<1> USE DEF SupervisorInv, Types
<1>1. \A t \in Threads : CallInv(t)'
  BY DEF CallInv
<1>2. \A t \in Threads : StopAllInv(t)'
  BY DEF StopAllInv, InFlight
<1>3. SupervisedUnlessRaced'
  BY DEF SupervisedUnlessRaced
<1> QED BY <1>1, <1>2, <1>3

LEMMA IdleCall == Idle \in Calls /\ Idle.op = "idle"
  BY DEF Idle, Calls, Ops

LEMMA AboutCall ==
  ASSUME NEW name \in Ops, NEW p \in Handles
  PROVE  About(name, p) \in Calls /\ About(name, p).op = name /\ About(name, p).on = p
  BY DEF About, Idle, Calls

-----------------------------------------------------------------------------
\* start_process: admission, registration, spawn.
LEMMA AdmittedStep ==
  ASSUME SupervisorInv, NEW t \in Threads, NEW p \in Handles, StartAdmitted(t, p)
  PROVE  SupervisorInv'
<1> USE DEF SupervisorInv, Types
<1>1. PICK c \in Calls : c = About("register", p) /\ c.op = "register" /\ c.on = p
  BY AboutCall DEF Ops
<1>2. /\ call[t].op = "idle" /\ life[p] = "unused" /\ ~closing
      /\ life' = [life EXCEPT ![p] = "created"] /\ call' = [call EXCEPT ![t] = c]
      /\ raced \subseteq raced' /\ raced' \subseteq Handles
      /\ StoppingAll => p \in raced'
      /\ registry' = registry
  BY <1>1 DEF StartAdmitted, At, Goes, tables, Refused
<1>3. /\ call'[t] = c /\ \A u \in Threads \ {t} : call'[u] = call[u]
      /\ call' \in [Threads -> Calls] /\ life' \in [Handles -> Lives]
      /\ \A q \in Handles : Running(q)' => Running(q)
  BY <1>2 DEF Running, Lives
<1>4. \A q \in Handles : InFlight(q)' => InFlight(q) \/ q = p
  BY <1>1, <1>3 DEF InFlight
<1>5. ASSUME NEW u \in Threads PROVE CallInv(u)'
  BY <1>1, <1>2, <1>3, <1>5 DEF CallInv, StopAllOps
<1>6. ASSUME NEW u \in Threads PROVE StopAllInv(u)'
  BY <1>1, <1>2, <1>3, <1>4, <1>6 DEF StopAllInv, StopAllOps, StoppingAll
<1>7. SupervisedUnlessRaced'
  BY <1>2, <1>3 DEF SupervisedUnlessRaced
<1> QED BY <1>2, <1>3, <1>5, <1>6, <1>7

LEMMA RegisterStep ==
  ASSUME SupervisorInv, NEW t \in Threads, Register(t) PROVE SupervisorInv'
<1> USE DEF SupervisorInv, Types
<1>1. call[t].op = "register" /\ call[t].on \in Handles
  BY DEF Register, At, CallInv
<1>2. PICK p \in Handles : p = call[t].on
  BY <1>1
<1>3. PICK c \in Calls : c = About("spawn", p) /\ c.op = "spawn" /\ c.on = p
  BY AboutCall DEF Ops
<1>4. /\ call' = [call EXCEPT ![t] = c] /\ registry' = registry \cup {p}
      /\ life' = life /\ raced' = raced
  BY <1>2, <1>3 DEF Register, Goes, object
<1>5. /\ call'[t] = c /\ \A u \in Threads \ {t} : call'[u] = call[u]
      /\ call' \in [Threads -> Calls]
      /\ \A q \in Handles : Running(q)' <=> Running(q)
  BY <1>4 DEF Running
<1>6. \A q \in Handles : InFlight(q)' => InFlight(q)
  BY <1>1, <1>2, <1>3, <1>5 DEF InFlight
<1>7. ASSUME NEW u \in Threads PROVE CallInv(u)'
  BY <1>3, <1>4, <1>5, <1>7 DEF CallInv, StopAllOps
<1>8. ASSUME NEW u \in Threads PROVE StopAllInv(u)'
  BY <1>3, <1>4, <1>5, <1>6, <1>8 DEF StopAllInv, StopAllOps
<1>9. SupervisedUnlessRaced'
  BY <1>4, <1>5 DEF SupervisedUnlessRaced
<1> QED BY <1>4, <1>5, <1>7, <1>8, <1>9

\* The child that runs now was in flight: a stop_all that does not have it in
\* its copy, or cleared it, raced with it.
LEMMA SpawnStep ==
  ASSUME SupervisorInv, NEW t \in Threads, Spawn(t) PROVE SupervisorInv'
<1> USE DEF SupervisorInv, Types
<1>1. call[t].op = "spawn" /\ call[t].on \in Handles
  BY DEF Spawn, At, CallInv
<1>2. PICK p \in Handles : p = call[t].on
  BY <1>1
<1>3. /\ call' = [call EXCEPT ![t] = Idle] /\ life' = [life EXCEPT ![p] = "alive"]
      /\ registry' = registry /\ raced' = raced
  BY <1>2 DEF Spawn, Returns, Goes, tables
<1>4. /\ call'[t] = Idle /\ \A u \in Threads \ {t} : call'[u] = call[u]
      /\ call' \in [Threads -> Calls] /\ life' \in [Handles -> Lives]
      /\ \A q \in Handles : Running(q)' => Running(q) \/ q = p
  BY <1>3, IdleCall DEF Running, Lives
<1>5. /\ \A q \in Handles : InFlight(q)' => InFlight(q)
      /\ InFlight(p) /\ p \in registry \cup raced
  BY <1>1, <1>2, <1>4, IdleCall DEF InFlight, CallInv
<1>6. ASSUME NEW u \in Threads PROVE CallInv(u)'
  BY <1>3, <1>4, <1>6, IdleCall DEF CallInv, StopAllOps
<1>7. ASSUME NEW u \in Threads PROVE StopAllInv(u)'
  BY <1>3, <1>4, <1>5, <1>7, IdleCall DEF StopAllInv, StopAllOps
<1>8. SupervisedUnlessRaced'
  BY <1>3, <1>4, <1>5 DEF SupervisedUnlessRaced
<1> QED BY <1>3, <1>4, <1>6, <1>7, <1>8

LEMMA SpawnFailsStep ==
  ASSUME SupervisorInv, NEW t \in Threads, SpawnFails(t) PROVE SupervisorInv'
<1> USE DEF SupervisorInv, Types
<1>1. call[t].on \in Handles
  BY DEF SpawnFails, At, CallInv
<1>2. PICK p \in Handles : p = call[t].on
  BY <1>1
<1>3. /\ call' = [call EXCEPT ![t] = Idle] /\ registry' = registry /\ raced' = raced
      /\ life' = [life EXCEPT ![p] = IF life[p] = "created" THEN "failed" ELSE life[p]]
  BY <1>2 DEF SpawnFails, Returns, Goes, tables
<1>4. life' \in [Handles -> Lives] /\ \A q \in Handles : Running(q)' => Running(q)
  BY <1>3 DEF Running, Lives
<1> QED BY <1>3, <1>4, IdleCall, QuietStep DEF StopAllOps

-----------------------------------------------------------------------------
\* stop_all.
LEMMA StopAllEnterStep ==
  ASSUME SupervisorInv, NEW t \in Threads, StopAllEnter(t) PROVE SupervisorInv'
<1> USE DEF SupervisorInv, Types
<1> DEFINE c == [Idle EXCEPT !.op = "stopAll", !.todo = Snapshot, !.all = Snapshot,
                             !.due = {p \in registry : Running(p)}]
<1>1. /\ c \in Calls /\ c.op = "stopAll" /\ c.all = registry /\ c.due \subseteq c.all
  BY DEF Snapshot, Idle, Calls, Ops, StopAllOps
<1>2. /\ call' = [call EXCEPT ![t] = c] /\ registry' = registry /\ life' = life
      /\ raced' = raced \cup {p \in Handles : InFlight(p)}
      /\ call[t].op = "idle"
  BY DEF StopAllEnter, Goes, object, Asks, At
<1> HIDE DEF c
<1>3. /\ call'[t] = c /\ \A u \in Threads \ {t} : call'[u] = call[u]
      /\ call' \in [Threads -> Calls]
      /\ \A q \in Handles : Running(q)' <=> Running(q)
  BY <1>1, <1>2 DEF Running
<1>4. \A q \in Handles : InFlight(q)' => InFlight(q)
  BY <1>1, <1>3 DEF InFlight
<1>5. ASSUME NEW u \in Threads PROVE CallInv(u)'
  BY <1>1, <1>2, <1>3, <1>5 DEF CallInv
<1>6. ASSUME NEW u \in Threads PROVE StopAllInv(u)'
  BY <1>1, <1>2, <1>3, <1>4, <1>6 DEF StopAllInv, SupervisedUnlessRaced
<1>7. SupervisedUnlessRaced'
  BY <1>2, <1>3 DEF SupervisedUnlessRaced
<1> QED BY <1>2, <1>3, <1>5, <1>6, <1>7

\* clear(): what runs now is not in the copy, and raced.
LEMMA StopAllReturnsStep ==
  ASSUME SupervisorInv, NEW t \in Threads, StopAllReturns(t) PROVE SupervisorInv'
<1> USE DEF SupervisorInv, Types
<1>1. /\ call[t].op = "stopAll" /\ call' = [call EXCEPT ![t] = Idle] /\ raced' = raced
      /\ registry' = IF call[t].all = {} THEN registry ELSE {}
      /\ life' = [p \in Handles |-> IF p \in call[t].all /\ Running(p) THEN Ended(p) ELSE life[p]]
  BY DEF StopAllReturns, At, Returns, Goes
<1>2. /\ life' \in [Handles -> Lives] /\ registry' \subseteq Handles
      /\ \A q \in Handles : Running(q)' => Running(q) /\ q \notin call[t].all
  BY <1>1 DEF Running, Ended, Lives
<1>3. /\ call'[t] = Idle /\ \A u \in Threads \ {t} : call'[u] = call[u]
      /\ call' \in [Threads -> Calls]
  BY <1>1, IdleCall
<1>4. /\ \A q \in Handles : InFlight(q)' => InFlight(q)
      /\ \A q \in Handles : InFlight(q) \/ Running(q)' => q \in raced
  BY <1>1, <1>2, <1>3, IdleCall DEF InFlight, StopAllInv, StopAllOps
<1>5. ASSUME NEW u \in Threads PROVE CallInv(u)'
  <2>1. CASE u = t
    BY <1>3, <2>1, IdleCall DEF CallInv, StopAllOps
  <2>2. CASE u # t
    <3>1. call[u].op \in {"register", "spawn"} => call[u].on \in Handles /\ InFlight(call[u].on)
      BY <1>5 DEF CallInv, InFlight
    <3> QED BY <1>1, <1>3, <1>4, <1>5, <2>2, <3>1 DEF CallInv
  <2> QED BY <2>1, <2>2
<1>6. ASSUME NEW u \in Threads PROVE StopAllInv(u)'
  BY <1>1, <1>4, <1>6 DEF StopAllInv
<1>7. SupervisedUnlessRaced'
  BY <1>1, <1>4 DEF SupervisedUnlessRaced
<1> QED BY <1>1, <1>2, <1>3, <1>5, <1>6, <1>7

LEMMA ResetStep ==
  ASSUME SupervisorInv, NEW t \in Threads, Reset(t) PROVE SupervisorInv'
<1> USE DEF SupervisorInv, Types
<1>1. /\ registry' = {} /\ raced' = raced \cup {p \in Handles : InFlight(p) \/ Running(p)}
      /\ life' = life /\ call' = call
  BY DEF Reset, object
<1>2. ASSUME NEW u \in Threads PROVE CallInv(u)'
  <2>1. call[u].op \in {"register", "spawn"} => call[u].on \in Handles /\ InFlight(call[u].on)
    BY <1>2 DEF CallInv, InFlight
  <2> QED BY <1>1, <1>2, <2>1 DEF CallInv
<1>3. ASSUME NEW u \in Threads PROVE StopAllInv(u)'
  BY <1>1, <1>3 DEF StopAllInv, InFlight, Running
<1>4. SupervisedUnlessRaced'
  BY <1>1 DEF SupervisedUnlessRaced, Running
<1> QED BY <1>1, <1>2, <1>3, <1>4

-----------------------------------------------------------------------------
\* The steps of stop_process and of a pass, and those of stop_all in between.
LEMMA StopProcessStep ==
  ASSUME SupervisorInv, NEW t \in Threads, NEW p \in Handles, StopProcess(t, p)
  PROVE  SupervisorInv'
<1> USE DEF SupervisorInv, Types
<1>1. PICK c \in Calls : c = About("mark", p) /\ c.op = "mark"
  BY AboutCall DEF Ops
<1>2. /\ call' = [call EXCEPT ![t] = c] /\ registry' = registry /\ raced' = raced
      /\ life' = [life EXCEPT ![p] = Ended(p)]
  BY <1>1 DEF StopProcess, Goes, tables
<1>3. life' \in [Handles -> Lives] /\ \A q \in Handles : Running(q)' => Running(q)
  BY <1>2 DEF Running, Ended, Lives
<1> QED BY <1>1, <1>2, <1>3, QuietStep DEF StopAllOps

LEMMA ReturnSteps ==
  ASSUME SupervisorInv, NEW t \in Threads, StopReturns(t) \/ ReapReturns(t)
  PROVE  SupervisorInv'
<1> USE DEF SupervisorInv, Types
<1>1. /\ call' = [call EXCEPT ![t] = Idle] /\ registry' = registry /\ raced' = raced
      /\ life' = life
  BY DEF StopReturns, ReapReturns, Returns, Goes, object, tables
<1>2. \A q \in Handles : Running(q)' => Running(q)
  BY <1>1 DEF Running
<1> QED BY <1>1, <1>2, IdleCall, QuietStep DEF StopAllOps

LEMMA BeginReapStep ==
  ASSUME SupervisorInv, NEW t \in Threads, BeginReap(t) PROVE SupervisorInv'
<1> USE DEF SupervisorInv, Types
<1> DEFINE c == [Idle EXCEPT !.op = "reap", !.todo = registry, !.all = registry]
<1>1. c \in Calls /\ c.op = "reap"
  BY DEF Idle, Calls, Ops
<1>2. /\ call' = [call EXCEPT ![t] = c] /\ registry' = registry /\ raced' = raced /\ life' = life
  BY DEF BeginReap, Goes, object, tables
<1> HIDE DEF c
<1>3. \A q \in Handles : Running(q)' => Running(q)
  BY <1>2 DEF Running
<1> QED BY <1>1, <1>2, <1>3, QuietStep DEF StopAllOps

LEMMA LoopSteps ==
  ASSUME SupervisorInv, NEW t \in Threads,
         \/ \E p \in Handles : \/ StopAllSkip(t, p) \/ StopAllStop(t, p)
                               \/ ReapSkip(t, p) \/ ReapPoll(t, p)
         \/ StopAllMark(t) \/ ReapReport(t)
  PROVE  SupervisorInv'
<1> USE DEF SupervisorInv, Types
<1>1. /\ call[t] \in Calls /\ registry' = registry /\ raced' = raced
  BY DEF StopAllSkip, StopAllStop, ReapSkip, ReapPoll, StopAllMark, ReapReport, tables
<1> DEFINE Looped(c) ==
      /\ call' = [call EXCEPT ![t] = c]
      /\ c.all = call[t].all /\ c.due = call[t].due
      /\ c.op \in {"stopAll", "stopAllMark", "reap", "report"}
      /\ c.op \in StopAllOps => call[t].op \in StopAllOps
<1>2. PICK c \in Calls : Looped(c)
  <2>1. ASSUME NEW p \in Handles, StopAllSkip(t, p) PROVE \E c \in Calls : Looped(c)
    <3> DEFINE c == [call[t] EXCEPT !.todo = call[t].todo \ {p}]
    <3>1. call' = [call EXCEPT ![t] = c] /\ call[t].op = "stopAll"
      BY <2>1 DEF StopAllSkip, At
    <3>2. c \in Calls /\ c.op = call[t].op /\ c.all = call[t].all /\ c.due = call[t].due
      BY <1>1 DEF Calls
    <3> QED BY <3>1, <3>2 DEF StopAllOps
  <2>2. ASSUME NEW p \in Handles, NEW name \in {"stopAllMark", "report"},
               call' = [call EXCEPT ![t] = [call[t] EXCEPT !.op = name, !.on = p]],
               name = "stopAllMark" => call[t].op = "stopAll"
        PROVE  \E c \in Calls : Looped(c)
    <3> DEFINE c == [call[t] EXCEPT !.op = name, !.on = p]
    <3>1. c \in Calls /\ c.op = name /\ c.all = call[t].all /\ c.due = call[t].due
      BY <1>1 DEF Calls, Ops, StopAllOps
    <3> QED BY <2>2, <3>1 DEF StopAllOps
  <2>3. ASSUME NEW p, NEW name \in {"stopAll", "reap"},
               call' = [call EXCEPT ![t] = [call[t] EXCEPT !.op = name, !.on = NoHandle,
                                                           !.todo = call[t].todo \ {p}]],
               name = "stopAll" => call[t].op = "stopAllMark"
        PROVE  \E c \in Calls : Looped(c)
    <3> DEFINE c == [call[t] EXCEPT !.op = name, !.on = NoHandle, !.todo = call[t].todo \ {p}]
    <3>1. c \in Calls /\ c.op = name /\ c.all = call[t].all /\ c.due = call[t].due
      BY <1>1 DEF Calls, Ops, StopAllOps
    <3> QED BY <2>3, <3>1 DEF StopAllOps
  <2>4. ASSUME NEW p \in Handles, StopAllStop(t, p) \/ ReapPoll(t, p)
        PROVE  \E c \in Calls : Looped(c)
    <3>1. CASE StopAllStop(t, p)
      BY <2>2, <3>1 DEF StopAllStop, At
    <3>2. CASE ReapPoll(t, p)
      BY <2>2, <3>2 DEF ReapPoll
    <3> QED BY <2>4, <3>1, <3>2
  <2>5. ASSUME NEW p \in Handles, ReapSkip(t, p) PROVE \E c \in Calls : Looped(c)
    BY <2>3, <2>5 DEF ReapSkip, Continue
  <2>6. CASE StopAllMark(t)
    BY <2>3, <2>6 DEF StopAllMark, At
  <2>7. CASE ReapReport(t)
    BY <2>3, <2>7 DEF ReapReport, Continue
  <2> QED BY <2>1, <2>4, <2>5, <2>6, <2>7
<1>3. life' \in [Handles -> Lives] /\ \A q \in Handles : Running(q)' => Running(q)
  <2>1. life' = life => \A q \in Handles : Running(q)' => Running(q)
    BY DEF Running
  <2>2. ASSUME NEW p \in Handles, life' = [life EXCEPT ![p] = "exited"] \/ life' = [life EXCEPT ![p] = Ended(p)]
        PROVE  life' \in [Handles -> Lives] /\ \A q \in Handles : Running(q)' => Running(q)
    BY <2>2 DEF Running, Ended, Lives
  <2>3. \/ life' = life
        \/ \E p \in Handles : \/ life' = [life EXCEPT ![p] = "exited"]
                             \/ life' = [life EXCEPT ![p] = Ended(p)]
    BY DEF StopAllSkip, StopAllStop, ReapSkip, ReapPoll, StopAllMark, ReapReport, object
  <2> QED BY <2>1, <2>2, <2>3
<1> QED BY <1>1, <1>2, <1>3, QuietStep

LEMMA ChildSteps ==
  ASSUME SupervisorInv, NEW p \in Handles, ChildDies(p) \/ Destroy(p)
  PROVE  SupervisorInv'
<1> USE DEF SupervisorInv, Types
<1>1. /\ UNCHANGED <<registry, raced, call>> /\ Running(p)
      /\ life' \in [Handles -> Lives] /\ \A q \in Handles : Running(q)' => Running(q)
  BY DEF ChildDies, Destroy, tables, Running, Lives
<1> QED BY <1>1, DeathStep

-----------------------------------------------------------------------------
LEMMA SupervisorInvInit == Init => SupervisorInv
  BY IdleCall DEF Init, SupervisorInv, Types, CallInv, StopAllInv, SupervisedUnlessRaced, Running,
                  InFlight, Lives, StopAllOps

LEMMA SupervisorInvNext == SupervisorInv /\ [Next]_vars => SupervisorInv'
<1> SUFFICES ASSUME SupervisorInv, [Next]_vars PROVE SupervisorInv'
  OBVIOUS
<1>1. ASSUME NEW t \in Threads, Enter(t) PROVE SupervisorInv'
  BY <1>1, AdmittedStep, StopProcessStep, StopAllEnterStep, ResetStep DEF Enter
<1>2. ASSUME NEW t \in Threads, BeginReap(t) PROVE SupervisorInv'
  BY <1>2, BeginReapStep
<1>3. ASSUME NEW t \in Threads, Step(t) PROVE SupervisorInv'
  BY <1>3, RegisterStep, SpawnStep, SpawnFailsStep, ReturnSteps, LoopSteps, StopAllReturnsStep
     DEF Step
<1>4. ASSUME NEW p \in Handles, ChildDies(p) \/ Destroy(p) PROVE SupervisorInv'
  BY <1>4, ChildSteps
<1>5. CASE UNCHANGED vars
  <2>1. UNCHANGED <<registry, raced, call, life>>
    BY <1>5 DEF vars, tables, object
  <2>2. \A q \in Handles : Running(q)' => Running(q)
    BY <2>1 DEF Running
  <2> QED BY <2>1, <2>2, DeathStep DEF SupervisorInv, Types
<1> QED BY <1>1, <1>2, <1>3, <1>4, <1>5 DEF Next

\* The supervisor's invariant, whatever is called by however many threads.
THEOREM SupervisorSafe == Spec => []SupervisorInv
  BY SupervisorInvInit, SupervisorInvNext, PTL DEF Spec

\* A child that runs is in the registry, unless its start overlapped a stop_all
\* or it was there at a reset(): start_process, stop_all and their locks.
THEOREM ChildrenSupervised == Spec => []SupervisedUnlessRaced
<1>1. SupervisorInv => SupervisedUnlessRaced
  BY DEF SupervisorInv
<1> QED BY <1>1, SupervisorSafe, PTL

-----------------------------------------------------------------------------
\* When a stop_all returns, what ran when it began has ended.
StopAllReturned ==
  \A t \in Threads : call[t].op = "stopAll" /\ call'[t].op = "idle"
    => \A p \in call[t].due : ~Running(p)'

\* Only its own return ends a stop_all.
LEMMA OnlyReturnEnds ==
  ASSUME SupervisorInv, [Next]_vars, NEW t \in Threads,
         call[t].op = "stopAll", call'[t].op = "idle"
  PROVE  StopAllReturns(t)
<1>1. call \in [Threads -> Calls] /\ call[t].op # "idle"
  BY DEF SupervisorInv, Types
<1>2. ASSUME NEW u \in Threads, Enter(u) \/ BeginReap(u) PROVE call'[t] = call[t]
  <2>1. call[u].op = "idle" /\ (call' = call \/ \E c : call' = [call EXCEPT ![u] = c])
    BY <1>2 DEF Enter, BeginReap, StartAdmitted, StopProcess, StopAllEnter, Reset, Asks, At, Goes
  <2> QED BY <1>1, <2>1
<1>3. ASSUME NEW u \in Threads, u # t, Step(u) PROVE call'[t] = call[t]
  BY <1>1, <1>3 DEF Step, Register, Spawn, SpawnFails, StopReturns, StopAllSkip, StopAllStop,
     StopAllMark, StopAllReturns, ReapSkip, ReapPoll, ReapReport, ReapReturns, Continue, Returns, Goes
<1>4. ASSUME Step(t), ~StopAllReturns(t) PROVE call'[t].op # "idle"
  BY <1>1, <1>4 DEF Step, Register, Spawn, SpawnFails, StopReturns, StopAllSkip, StopAllStop,
     StopAllMark, ReapSkip, ReapPoll, ReapReport, ReapReturns, Continue, Goes, At, Calls
<1>5. ASSUME NEW p \in Handles, ChildDies(p) \/ Destroy(p) PROVE call' = call
  BY <1>5 DEF ChildDies, Destroy
<1> QED BY <1>1, <1>2, <1>3, <1>4, <1>5 DEF Next, vars

LEMMA StopAllReturnedStep == SupervisorInv /\ [Next]_vars => StopAllReturned
<1> SUFFICES ASSUME SupervisorInv, [Next]_vars, NEW t \in Threads,
                    call[t].op = "stopAll", call'[t].op = "idle"
             PROVE  \A p \in call[t].due : ~Running(p)'
  BY DEF StopAllReturned
<1>1. StopAllReturns(t)
  BY OnlyReturnEnds
<1>2. call[t].due \subseteq call[t].all /\ call[t].due \subseteq Handles
  BY DEF SupervisorInv, Types, CallInv, StopAllOps, Calls
<1> QED BY <1>1, <1>2 DEF StopAllReturns, Running, Ended

\* stop_all returns when everything that ran when it was called has ended,
\* whatever other threads stop, reap, reset or start in the meantime.
THEOREM StopAllHolds == Spec => StopAllStops
<1>1. SupervisorInv /\ [Next]_vars => [StopAllReturned]_vars
  BY StopAllReturnedStep
<1>2. Spec => [][StopAllReturned]_vars
  BY <1>1, SupervisorSafe, PTL DEF Spec
<1> QED BY <1>2 DEF StopAllStops, StopAllReturned
-----------------------------------------------------------------------------
(* One thread reaps.  A child whose exit was reported has been started and  *)
(* reaped and its pid is in the table, so no pass looks at it again; and    *)
(* what the thread is about to report was not in the table when it looked. *)

SingleReaper == \A t, u \in Reapers : t = u

ToldInv ==
  \A p \in told : p \in Handles /\ life[p] = "exited" /\ pid[p] \in emitted

ReportInv ==
  \A t \in Threads :
    /\ call[t].op \in {"reap", "report"} => t \in Reapers /\ call[t].todo \subseteq Handles
    /\ call[t].op = "report" =>
         call[t].on \in Handles /\ life[call[t].on] = "exited" /\ call[t].on \notin told

OnceInv == pid \in [Handles -> Pids \cup {NoPid}] /\ ToldInv /\ ReportInv

\* Steps that report nothing: nothing exited comes back, pids stay, the table
\* and what was told only grow together or are cleared together.
LEMMA NothingTold ==
  ASSUME SupervisorInv, OnceInv, NEW t \in Threads, NEW c, call' = [call EXCEPT ![t] = c],
         c.op \in {"reap", "report"} => t \in Reapers /\ c.todo \subseteq Handles,
         c.op = "report" =>
           c.on \in Handles /\ life'[c.on] = "exited" /\ c.on \notin told,
         \A p \in Handles : life[p] = "exited" => life'[p] = "exited" /\ pid'[p] = pid[p],
         pid' \in [Handles -> Pids \cup {NoPid}],
         told' = {} \/ (told' = told /\ emitted \subseteq emitted')
  PROVE  OnceInv'
<1>1. call \in [Threads -> Calls]
  BY DEF SupervisorInv, Types
<1>2. call'[t] = c /\ \A u \in Threads \ {t} : call'[u] = call[u]
  BY <1>1
<1>3. ToldInv'
  BY DEF OnceInv, ToldInv
<1>4. ReportInv'
  BY <1>2 DEF OnceInv, ReportInv
<1> QED BY <1>3, <1>4 DEF OnceInv

LEMMA OnceSteps ==
  ASSUME SupervisorInv, OnceInv, NEW t \in Threads, Enter(t) \/ BeginReap(t) \/ Step(t),
         ~ReapReport(t)
  PROVE  OnceInv'
<1> USE DEF SupervisorInv, Types
<1>1. /\ call \in [Threads -> Calls] /\ life \in [Handles -> Lives] /\ registry \subseteq Handles
      /\ Idle.op = "idle"
      /\ \A name, p : About(name, p).op = name
  BY DEF Idle, About
<1>2. CASE \E p \in Handles : StartAdmitted(t, p) \/ StopProcess(t, p)
  <2>1. PICK p \in Handles : StartAdmitted(t, p) \/ StopProcess(t, p)
    BY <1>2
  <2>2. PICK c : call' = [call EXCEPT ![t] = c] /\ c.op \in {"register", "mark"}
    BY <1>1, <2>1 DEF StartAdmitted, StopProcess, Goes
  <2>3. /\ \A q \in Handles : life[q] = "exited" => life'[q] = "exited"
        /\ told' = told /\ emitted' = emitted /\ pid' = pid
    BY <1>1, <2>1 DEF StartAdmitted, StopProcess, Ended, object, tables
  <2> QED BY <2>2, <2>3, NothingTold DEF OnceInv
<1>3. CASE StopAllEnter(t)
  <2>1. PICK c : c = [Idle EXCEPT !.op = "stopAll", !.todo = Snapshot, !.all = Snapshot,
                                  !.due = {p \in registry : Running(p)}]
    OBVIOUS
  <2>2. c.op = "stopAll"
    BY <2>1 DEF Idle
  <2>3. call' = [call EXCEPT ![t] = c] /\ told' = told /\ emitted' = emitted /\ UNCHANGED <<life, pid>>
    BY <1>3, <2>1 DEF StopAllEnter, Goes, object
  <2> QED BY <2>2, <2>3, NothingTold DEF OnceInv
<1>4. CASE Reset(t)
  <2>1. call' = [call EXCEPT ![t] = call[t]] /\ told' = {} /\ UNCHANGED <<life, pid>>
    BY <1>1, <1>4 DEF Reset, object
  <2> QED BY <2>1, NothingTold DEF OnceInv, ReportInv
<1>5. CASE BeginReap(t)
  <2>1. PICK c : c = [Idle EXCEPT !.op = "reap", !.todo = registry, !.all = registry]
    OBVIOUS
  <2>2. c.op = "reap" /\ c.todo = registry
    BY <2>1 DEF Idle
  <2>3. /\ call' = [call EXCEPT ![t] = c] /\ t \in Reapers
        /\ told' = told /\ emitted' = emitted /\ UNCHANGED <<life, pid>>
    BY <1>5, <2>1 DEF BeginReap, Goes, object, tables
  <2> QED BY <1>1, <2>2, <2>3, NothingTold DEF OnceInv
<1>6. CASE Register(t)
  <2>1. PICK c : call' = [call EXCEPT ![t] = c] /\ c.op = "spawn"
    BY <1>1, <1>6 DEF Register, Goes
  <2> QED BY <1>6, <2>1, NothingTold DEF Register, object, OnceInv
<1>7. CASE Spawn(t) \/ SpawnFails(t)
  <2>1. call' = [call EXCEPT ![t] = Idle] /\ told' = told /\ emitted' = emitted
    BY <1>7 DEF Spawn, SpawnFails, Returns, Goes, tables
  <2>2. call[t].on \in Handles
    BY <1>7 DEF Spawn, SpawnFails, At, CallInv
  <2>3. \A q \in Handles : life[q] = "exited" => life'[q] = "exited" /\ pid'[q] = pid[q]
    BY <1>1, <1>7, <2>2 DEF Spawn, SpawnFails, OnceInv
  <2>4. pid' \in [Handles -> Pids \cup {NoPid}]
    BY <1>7, <2>2 DEF Spawn, SpawnFails, OnceInv
  <2> QED BY <1>1, <2>1, <2>3, <2>4, NothingTold
<1>8. CASE StopReturns(t) \/ ReapReturns(t)
  <2>1. call' = [call EXCEPT ![t] = Idle] /\ told' = told /\ emitted \subseteq emitted'
    BY <1>8 DEF StopReturns, ReapReturns, Returns, Goes, Mark, tables
  <2> QED BY <1>1, <1>8, <2>1, NothingTold DEF StopReturns, ReapReturns, object, OnceInv
<1>9. CASE StopAllReturns(t)
  <2>1. call' = [call EXCEPT ![t] = Idle] /\ told' = told /\ emitted' = emitted /\ pid' = pid
    BY <1>9 DEF StopAllReturns, Returns, Goes
  <2>2. \A q \in Handles : life[q] = "exited" => life'[q] = "exited"
    BY <1>9 DEF StopAllReturns, Ended
  <2> QED BY <1>1, <2>1, <2>2, NothingTold DEF OnceInv
<1>10. CASE StopAllMark(t) \/ \E p \in Handles : StopAllSkip(t, p) \/ StopAllStop(t, p)
  <2>1. PICK c : call' = [call EXCEPT ![t] = c] /\ c.op \in StopAllOps
    BY <1>1, <1>10 DEF StopAllMark, StopAllSkip, StopAllStop, At, StopAllOps, Calls
  <2>2. /\ told' = told /\ emitted \subseteq emitted' /\ pid' = pid
        /\ \A q \in Handles : life[q] = "exited" => life'[q] = "exited"
    BY <1>1, <1>10 DEF StopAllMark, StopAllSkip, StopAllStop, Mark, Ended, object, tables
  <2> QED BY <2>1, <2>2, NothingTold DEF StopAllOps, OnceInv
<1>11. ASSUME NEW p \in Handles, ReapSkip(t, p) PROVE OnceInv'
  <2>1. PICK c : c = [call[t] EXCEPT !.op = "reap", !.on = NoHandle, !.todo = @ \ {p}]
    OBVIOUS
  <2>3. c.op = "reap" /\ c.todo = call[t].todo \ {p}
    BY <1>1, <2>1 DEF Calls
  <2>4. call' = [call EXCEPT ![t] = c] /\ told' = told /\ emitted' = emitted /\ UNCHANGED <<life, pid>>
    BY <1>1, <1>11, <2>1 DEF ReapSkip, Continue, object, tables
  <2>2. t \in Reapers /\ call[t].todo \subseteq Handles
    BY <1>11 DEF ReapSkip, At, OnceInv, ReportInv
  <2> QED BY <2>2, <2>3, <2>4, NothingTold DEF OnceInv
<1>12. ASSUME NEW p \in Handles, ReapPoll(t, p) PROVE OnceInv'
  <2>1. PICK c : c = [call[t] EXCEPT !.op = "report", !.on = p]
    OBVIOUS
  <2>5. c.op = "report" /\ c.on = p /\ c.todo = call[t].todo
    BY <1>1, <2>1 DEF Calls
  <2>6. call' = [call EXCEPT ![t] = c]
    BY <1>1, <1>12, <2>1 DEF ReapPoll
  <2>2. t \in Reapers /\ call[t].todo \subseteq Handles
    BY <1>12 DEF ReapPoll, At, OnceInv, ReportInv
  <2>3. p \notin told
    BY <1>12 DEF ReapPoll, Marked, OnceInv, ToldInv
  <2>4. /\ life'[p] = "exited" /\ told' = told /\ emitted' = emitted /\ pid' = pid
        /\ \A q \in Handles : life[q] = "exited" => life'[q] = "exited"
    BY <1>1, <1>12 DEF ReapPoll, tables
  <2> QED BY <2>2, <2>3, <2>4, <2>5, <2>6, NothingTold DEF OnceInv
<1> QED BY <1>2, <1>3, <1>4, <1>5, <1>6, <1>7, <1>8, <1>9, <1>10, <1>11, <1>12 DEF Enter, Step

\* Nobody else is about to report, so what one thread tells no other repeats.
LEMMA ReportStep ==
  ASSUME SingleReaper, SupervisorInv, OnceInv, NEW t \in Threads, ReapReport(t)
  PROVE  OnceInv'
<1>1. call \in [Threads -> Calls] /\ call[t].op = "report"
  BY DEF SupervisorInv, Types, ReapReport, At
<1>2. PICK p \in Handles : p = call[t].on /\ life[p] = "exited"
  BY <1>1 DEF OnceInv, ReportInv
<1>3. /\ told' = told \cup {p} /\ emitted' = emitted \cup {pid[p]} /\ UNCHANGED <<life, pid>>
      /\ call' = Continue(t, p)
  BY <1>2 DEF ReapReport, Mark, object
<1>4. ToldInv'
  BY <1>2, <1>3 DEF OnceInv, ToldInv
<1>5. /\ call'[t].op = "reap" /\ call'[t].todo \subseteq call[t].todo
      /\ \A u \in Threads \ {t} : call'[u] = call[u] /\ call[u].op # "report"
  BY <1>1, <1>3 DEF Continue, Calls, OnceInv, ReportInv, SingleReaper
<1>6. ReportInv'
  BY <1>1, <1>3, <1>5 DEF OnceInv, ReportInv
<1> QED BY <1>3, <1>4, <1>6 DEF OnceInv

LEMMA OnceNext ==
  ASSUME SingleReaper, SupervisorInv, OnceInv, [Next]_vars PROVE OnceInv'
<1>1. ASSUME NEW p \in Handles, ChildDies(p) \/ Destroy(p) PROVE OnceInv'
  <2>1. /\ UNCHANGED <<call, told, emitted, pid>>
        /\ \A q \in Handles : life[q] = "exited" => life'[q] = "exited"
    BY <1>1 DEF ChildDies, Destroy, tables, Running, SupervisorInv, Types
  <2> QED BY <2>1 DEF OnceInv, ToldInv, ReportInv
<1>2. CASE UNCHANGED vars
  BY <1>2 DEF vars, tables, object, OnceInv, ToldInv, ReportInv
<1> QED BY <1>1, <1>2, OnceSteps, ReportStep DEF Next

OnlyNewsReported ==
  \A t \in Threads : call[t].op = "report" /\ call'[t].op # "report" => call[t].on \notin told

\* Between two calls of reset() the exit of a process is reported once, when one
\* thread reaps as the daemon does, whatever is started and stopped beside it
\* (ProcessSupervisor::reap_exited_processes and its table of pids).
THEOREM ExitReportedOnce == ASSUME SingleReaper PROVE Spec => ReportedOnce
<1>1. Init => OnceInv
  BY DEF Init, OnceInv, ToldInv, ReportInv, Idle
<1>2. SupervisorInv /\ OnceInv /\ [Next]_vars => OnceInv'
  BY OnceNext
<1>3. OnceInv => OnlyNewsReported
  BY DEF OnceInv, ReportInv, OnlyNewsReported
<1>4. OnceInv /\ [Next]_vars => [OnlyNewsReported]_vars
  BY <1>3
<1>5. Spec => [][OnlyNewsReported]_vars
  BY <1>1, <1>2, <1>4, SupervisorSafe, PTL DEF Spec
<1> QED BY <1>5 DEF ReportedOnce, OnlyNewsReported
-----------------------------------------------------------------------------
(* What a pass can miss.  emitted_exit_pids_ holds pids, not processes.     *)

\* Another child had the pid of p and has been waited for.
Reused(p) == \E q \in Handles \ {p} : pid[q] = pid[p] /\ life[q] = "exited"

\* A pid in the table is that of a child that was waited for, if it is one.
Explained(n) == n = NoPid \/ \E q \in Handles : pid[q] = n /\ life[q] = "exited"

Unstarted == {"unused", "created", "failed"}
Marking == {"mark", "stopAllMark", "report"}

PidInv ==
  /\ pid \in [Handles -> Pids \cup {NoPid}]
  /\ \A n \in emitted : Explained(n)
  /\ \A p \in Handles : (Running(p) => pid[p] # NoPid) /\ (life[p] \in Unstarted => pid[p] = NoPid)
  /\ \A p \in registry : life[p] # "unused"
  /\ \A t \in Threads :
       /\ call[t].op = "register" => life[call[t].on] # "unused"
       /\ call[t].op \in Marking =>
            call[t].on \in Handles /\ life[call[t].on] \in {"failed", "exited"}

\* What may become of a process that is not spawned.
Ages(p) ==
  \/ life'[p] = life[p]
  \/ life[p] = "unused" /\ life'[p] = "created"
  \/ life[p] = "created" /\ life'[p] \in {"failed", "exited"}
  \/ Running(p) /\ life'[p] \in {"zombie", "exited"}

\* A pid stays explained, and an object that is going to be marked stays so.
LEMMA AgingFacts ==
  ASSUME SupervisorInv, PidInv, pid' = pid, \A p \in Handles : Ages(p)
  PROVE  /\ \A n : Explained(n) => Explained(n)'
         /\ \A p \in Handles : /\ life[p] # "unused" => life'[p] # "unused"
                               /\ life[p] \in {"failed", "exited"} => life'[p] = life[p]
                               /\ Running(p)' => pid'[p] # NoPid
                               /\ life'[p] \in Unstarted => pid'[p] = NoPid
<1>1. \A p \in Handles : life[p] = "exited" => life'[p] = "exited"
  BY DEF Ages, Running
<1>2. \A n : Explained(n) => Explained(n)'
  BY <1>1 DEF Explained
<1>3. \A p \in Handles : /\ life[p] # "unused" => life'[p] # "unused"
                         /\ life[p] \in {"failed", "exited"} => life'[p] = life[p]
                         /\ Running(p)' => pid'[p] # NoPid
                         /\ life'[p] \in Unstarted => pid'[p] = NoPid
  BY DEF Ages, Running, PidInv, Unstarted
<1> QED BY <1>2, <1>3

\* A step of a thread that spawns nothing.
LEMMA PidKept ==
  ASSUME SupervisorInv, PidInv, NEW t \in Threads, NEW c, call' = [call EXCEPT ![t] = c],
         c.op = "register" => c.on \in Handles /\ life'[c.on] # "unused",
         c.op \in Marking => c.on \in Handles /\ life'[c.on] \in {"failed", "exited"},
         pid' = pid, \A p \in Handles : Ages(p),
         \A p \in registry' : p \in registry \/ (p \in Handles /\ life[p] # "unused"),
         \A n \in emitted' : n \in emitted \/ Explained(n)
  PROVE  PidInv'
<1>1. call'[t] = c /\ \A u \in Threads \ {t} : call'[u] = call[u]
  BY DEF SupervisorInv, Types
<1>2. \A n \in emitted' : Explained(n)'
  BY AgingFacts DEF PidInv
<1>3. \A p \in registry' : life'[p] # "unused"
  BY AgingFacts DEF PidInv, SupervisorInv, Types
<1>4. ASSUME NEW u \in Threads
      PROVE  /\ call'[u].op = "register" => life'[call'[u].on] # "unused"
             /\ call'[u].op \in Marking =>
                  call'[u].on \in Handles /\ life'[call'[u].on] \in {"failed", "exited"}
  <2>1. CASE u = t
    BY <1>1, <2>1
  <2>2. CASE u # t
    <3>1. call'[u] = call[u] /\ (call[u].op = "register" => call[u].on \in Handles)
      BY <1>1, <2>2 DEF SupervisorInv, CallInv
    <3> QED BY <3>1, AgingFacts DEF PidInv
  <2> QED BY <2>1, <2>2
<1> QED BY <1>2, <1>3, <1>4, AgingFacts DEF PidInv

\* What was stopped or polled has an explained pid, or none.
LEMMA MarkedExplained ==
  ASSUME PidInv, NEW t \in Threads, call[t].op \in Marking
  PROVE  Explained(pid[call[t].on])
BY DEF PidInv, Explained, Unstarted

LEMMA EndedAges ==
  ASSUME SupervisorInv, NEW p \in Handles, life[p] # "unused",
         life' = [life EXCEPT ![p] = Ended(p)]
  PROVE  (\A q \in Handles : Ages(q)) /\ life'[p] \in {"failed", "exited"}
BY DEF Ended, Ages, Running, SupervisorInv, Types, Lives

LEMMA PidSteps ==
  ASSUME SupervisorInv, PidInv, NEW t \in Threads, Enter(t) \/ BeginReap(t) \/ Step(t)
  PROVE  PidInv'
<1>1. /\ call \in [Threads -> Calls] /\ life \in [Handles -> Lives] /\ registry \subseteq Handles
      /\ Idle.op = "idle"
      /\ \A name, p : About(name, p).op = name /\ About(name, p).on = p
  BY DEF SupervisorInv, Types, Idle, About
<1>2. ASSUME NEW p \in Handles, StartAdmitted(t, p) PROVE PidInv'
  <2>1. PICK c : c = About("register", p)
    OBVIOUS
  <2>2. /\ call' = [call EXCEPT ![t] = c] /\ c.op = "register" /\ c.on = p
        /\ life' = [life EXCEPT ![p] = "created"] /\ life[p] = "unused"
        /\ UNCHANGED <<pid, registry, emitted>>
    BY <1>1, <1>2, <2>1 DEF StartAdmitted, Goes, tables
  <2>3. \A q \in Handles : Ages(q)
    BY <1>1, <2>2 DEF Ages
  <2> QED BY <1>1, <2>2, <2>3, PidKept DEF Marking
<1>3. ASSUME NEW p \in Handles, StopProcess(t, p) PROVE PidInv'
  <2>1. PICK c : c = About("mark", p)
    OBVIOUS
  <2>2. /\ call' = [call EXCEPT ![t] = c] /\ c.op = "mark" /\ c.on = p
        /\ life' = [life EXCEPT ![p] = Ended(p)]
        /\ UNCHANGED <<pid, registry, emitted>>
    BY <1>1, <1>3, <2>1 DEF StopProcess, Goes, tables
  <2>3. life[p] # "unused"
    BY <1>3 DEF StopProcess, PidInv, Unstarted
  <2> QED BY <2>2, <2>3, EndedAges, PidKept DEF Marking
<1>4. CASE StopAllEnter(t)
  <2>1. PICK c : c = [Idle EXCEPT !.op = "stopAll", !.todo = Snapshot, !.all = Snapshot,
                                  !.due = {p \in registry : Running(p)}]
    OBVIOUS
  <2>2. c.op = "stopAll"
    BY <2>1 DEF Idle
  <2>3. call' = [call EXCEPT ![t] = c] /\ UNCHANGED <<life, pid, registry, emitted>>
    BY <1>4, <2>1 DEF StopAllEnter, Goes, object
  <2> QED BY <2>2, <2>3, PidKept DEF Marking, Ages
<1>5. CASE Reset(t)
  BY <1>5 DEF Reset, object, PidInv, Running
<1>6. CASE BeginReap(t)
  <2>1. PICK c : c = [Idle EXCEPT !.op = "reap", !.todo = registry, !.all = registry]
    OBVIOUS
  <2>2. c.op = "reap"
    BY <2>1 DEF Idle
  <2>3. call' = [call EXCEPT ![t] = c] /\ UNCHANGED <<life, pid, registry, emitted>>
    BY <1>6, <2>1 DEF BeginReap, Goes, object, tables
  <2> QED BY <2>2, <2>3, PidKept DEF Marking, Ages
<1>7. CASE Register(t)
  <2>1. PICK c : c = About("spawn", call[t].on)
    OBVIOUS
  <2>2. /\ call' = [call EXCEPT ![t] = c] /\ c.op = "spawn"
        /\ registry' = registry \cup {call[t].on} /\ UNCHANGED <<life, pid, emitted>>
    BY <1>1, <1>7, <2>1 DEF Register, Goes, object
  <2>3. call[t].on \in Handles /\ life[call[t].on] # "unused"
    BY <1>7 DEF Register, At, SupervisorInv, CallInv, PidInv
  <2> QED BY <2>2, <2>3, PidKept DEF Marking, Ages
<1>8. CASE Spawn(t)
  <2>1. PICK p \in Handles, n \in Pids :
           /\ p = call[t].on /\ life[p] = "created"
           /\ pid' = [pid EXCEPT ![p] = n] /\ life' = [life EXCEPT ![p] = "alive"]
    BY <1>8 DEF Spawn, At, SupervisorInv, CallInv
  <2>2. call' = [call EXCEPT ![t] = Idle] /\ UNCHANGED <<registry, emitted>>
    BY <1>8 DEF Spawn, Returns, Goes, tables
  <2>3. /\ pid' \in [Handles -> Pids \cup {NoPid}]
        /\ pid'[p] = n /\ life'[p] = "alive" /\ n # NoPid
        /\ \A q \in Handles \ {p} : pid'[q] = pid[q] /\ life'[q] = life[q]
    BY <1>1, <2>1, SupervisorAssumption DEF PidInv
  <2>4. \A m \in emitted' : Explained(m)'
    BY <2>1, <2>2, <2>3 DEF Explained, PidInv
  <2>5. \A q \in Handles : /\ Running(q)' => pid'[q] # NoPid
                           /\ life'[q] \in Unstarted => pid'[q] = NoPid
    BY <2>3 DEF Running, PidInv, Unstarted
  <2>6. \A q \in registry' : life'[q] # "unused"
    BY <1>1, <2>2, <2>3 DEF PidInv
  <2>7. ASSUME NEW u \in Threads
        PROVE  /\ call'[u].op = "register" => life'[call'[u].on] # "unused"
               /\ call'[u].op \in Marking =>
                    call'[u].on \in Handles /\ life'[call'[u].on] \in {"failed", "exited"}
    <3>1. CASE u = t
      BY <1>1, <2>2, <3>1 DEF Marking
    <3>2. CASE u # t
      <4>1. call'[u] = call[u] /\ (call[u].op = "register" => call[u].on \in Handles)
        BY <1>1, <2>2, <3>2 DEF SupervisorInv, CallInv
      <4> QED BY <2>1, <2>3, <4>1 DEF PidInv
    <3> QED BY <3>1, <3>2
  <2> QED BY <2>3, <2>4, <2>5, <2>6, <2>7 DEF PidInv
<1>9. CASE SpawnFails(t)
  <2>1. /\ call' = [call EXCEPT ![t] = Idle] /\ UNCHANGED <<registry, emitted, pid>>
        /\ call[t].on \in Handles
        /\ life' = [life EXCEPT ![call[t].on] = IF @ = "created" THEN "failed" ELSE @]
    BY <1>9 DEF SpawnFails, Returns, Goes, tables, At, SupervisorInv, CallInv
  <2>2. \A q \in Handles : Ages(q)
    BY <1>1, <2>1 DEF Ages
  <2> QED BY <1>1, <2>1, <2>2, PidKept DEF Marking
<1>10. CASE StopReturns(t)
  <2>1. call' = [call EXCEPT ![t] = Idle] /\ UNCHANGED <<registry, pid, life>>
    BY <1>10 DEF StopReturns, Returns, Goes, object
  <2>2. \A n \in emitted' : n \in emitted \/ Explained(n)
    BY <1>10, MarkedExplained DEF StopReturns, At, Mark, Marking
  <2> QED BY <1>1, <2>1, <2>2, PidKept DEF Marking, Ages
<1>11. CASE StopAllReturns(t)
  <2>1. /\ call' = [call EXCEPT ![t] = Idle] /\ UNCHANGED <<emitted, pid>>
        /\ registry' \subseteq registry
        /\ life' = [p \in Handles |-> IF p \in call[t].all /\ Running(p) THEN Ended(p) ELSE life[p]]
    BY <1>11 DEF StopAllReturns, Returns, Goes
  <2>2. \A q \in Handles : Ages(q)
    BY <2>1 DEF Ages, Ended, Running
  <2> QED BY <1>1, <2>1, <2>2, PidKept DEF Marking
<1>12. ASSUME NEW p \in Handles, StopAllSkip(t, p) PROVE PidInv'
  <2>1. PICK c : c = [call[t] EXCEPT !.todo = @ \ {p}]
    OBVIOUS
  <2>2. call' = [call EXCEPT ![t] = c] /\ UNCHANGED <<registry, emitted, pid, life>>
    BY <1>1, <1>12, <2>1 DEF StopAllSkip, tables, object
  <2>3. c.op = "stopAll"
    BY <1>1, <1>12, <2>1 DEF StopAllSkip, At, Calls
  <2> QED BY <2>2, <2>3, PidKept DEF Marking, Ages
<1>13. ASSUME NEW p \in Handles, StopAllStop(t, p) PROVE PidInv'
  <2>1. PICK c : c = [call[t] EXCEPT !.op = "stopAllMark", !.on = p]
    OBVIOUS
  <2>2. /\ call' = [call EXCEPT ![t] = c] /\ UNCHANGED <<registry, emitted, pid>>
        /\ life' = [life EXCEPT ![p] = Ended(p)] /\ life[p] # "unused"
    BY <1>1, <1>13, <2>1 DEF StopAllStop, tables, Running
  <2>3. c.op = "stopAllMark" /\ c.on = p
    BY <1>1, <2>1 DEF Calls
  <2> QED BY <2>2, <2>3, EndedAges, PidKept DEF Marking
<1>14. CASE StopAllMark(t)
  <2>1. PICK c : c = [call[t] EXCEPT !.op = "stopAll", !.on = NoHandle, !.todo = @ \ {call[t].on}]
    OBVIOUS
  <2>2. call' = [call EXCEPT ![t] = c] /\ UNCHANGED <<registry, pid, life>>
    BY <1>1, <1>14, <2>1 DEF StopAllMark, object
  <2>3. c.op = "stopAll"
    BY <1>1, <2>1 DEF Calls
  <2>4. \A n \in emitted' : n \in emitted \/ Explained(n)
    BY <1>14, MarkedExplained DEF StopAllMark, At, Mark, Marking
  <2> QED BY <2>2, <2>3, <2>4, PidKept DEF Marking, Ages
<1>15. ASSUME NEW p \in Handles, ReapSkip(t, p) PROVE PidInv'
  <2>1. PICK c : c = [call[t] EXCEPT !.op = "reap", !.on = NoHandle, !.todo = @ \ {p}]
    OBVIOUS
  <2>2. call' = [call EXCEPT ![t] = c] /\ UNCHANGED <<registry, emitted, pid, life>>
    BY <1>1, <1>15, <2>1 DEF ReapSkip, Continue, tables, object
  <2>3. c.op = "reap"
    BY <1>1, <2>1 DEF Calls
  <2> QED BY <2>2, <2>3, PidKept DEF Marking, Ages
<1>16. ASSUME NEW p \in Handles, ReapPoll(t, p) PROVE PidInv'
  <2>1. PICK c : c = [call[t] EXCEPT !.op = "report", !.on = p]
    OBVIOUS
  <2>2. /\ call' = [call EXCEPT ![t] = c] /\ UNCHANGED <<registry, emitted, pid>>
        /\ life' = [life EXCEPT ![p] = "exited"] /\ life[p] \in {"zombie", "exited"}
    BY <1>1, <1>16, <2>1 DEF ReapPoll, Exited, tables
  <2>3. c.op = "report" /\ c.on = p
    BY <1>1, <2>1 DEF Calls
  <2>4. life'[p] = "exited" /\ \A q \in Handles : Ages(q)
    BY <1>1, <2>2 DEF Ages, Running
  <2> QED BY <2>2, <2>3, <2>4, PidKept DEF Marking
<1>17. CASE ReapReport(t)
  <2>1. PICK c : c = [call[t] EXCEPT !.op = "reap", !.on = NoHandle, !.todo = @ \ {call[t].on}]
    OBVIOUS
  <2>2. call' = [call EXCEPT ![t] = c] /\ UNCHANGED <<registry, pid, life>>
    BY <1>1, <1>17, <2>1 DEF ReapReport, Continue, object
  <2>3. c.op = "reap"
    BY <1>1, <2>1 DEF Calls
  <2>4. \A n \in emitted' : n \in emitted \/ Explained(n)
    BY <1>17, MarkedExplained DEF ReapReport, At, Mark, Marking
  <2> QED BY <2>2, <2>3, <2>4, PidKept DEF Marking, Ages
<1>18. CASE ReapReturns(t)
  <2>1. call' = [call EXCEPT ![t] = Idle] /\ UNCHANGED <<registry, emitted, pid, life>>
    BY <1>18 DEF ReapReturns, Returns, Goes, tables, object
  <2> QED BY <1>1, <2>1, PidKept DEF Marking, Ages
<1> QED BY <1>2, <1>3, <1>4, <1>5, <1>6, <1>7, <1>8, <1>9, <1>10, <1>11, <1>12, <1>13, <1>14,
           <1>15, <1>16, <1>17, <1>18 DEF Enter, Step

LEMMA PidNext ==
  ASSUME SupervisorInv, PidInv, [Next]_vars PROVE PidInv'
<1>1. ASSUME NEW p \in Handles, ChildDies(p) \/ Destroy(p) PROVE PidInv'
  <2>1. /\ UNCHANGED <<call, registry, emitted, pid>> /\ Running(p)
        /\ life' = [life EXCEPT ![p] = "zombie"] \/ life' = [life EXCEPT ![p] = "exited"]
    BY <1>1 DEF ChildDies, Destroy, tables, Running
  <2>2. \A q \in Handles : Ages(q)
    BY <2>1 DEF Ages, SupervisorInv, Types
  <2>3. \A t \in Threads : call[t].op = "register" => call[t].on \in Handles
    BY DEF SupervisorInv, CallInv
  <2> QED BY <2>1, <2>2, <2>3, AgingFacts DEF PidInv, SupervisorInv, Types
<1>2. CASE UNCHANGED vars
  BY <1>2 DEF vars, tables, object, PidInv, Explained, Running
<1> QED BY <1>1, <1>2, PidSteps DEF Next

\* A child that runs and that every pass is going to pass over.
MissedOnlyByReuse == \A p \in Handles : Running(p) /\ pid[p] \in emitted => Reused(p)

\* A pass is done with p and has left it a zombie.
Overlooked(t, p) ==
  /\ call[t].op \in {"reap", "report"} /\ p \in call[t].todo \ call'[t].todo
  /\ life[p] = "zombie" /\ life'[p] = "zombie"

OverlookedOnlyByReuse ==
  \A t \in Threads, p \in Handles : Overlooked(t, p) => Reused(p)

\* Only ReapSkip gives a zombie up, for its pid is in the table.
LEMMA OverlookedStep ==
  ASSUME SupervisorInv, PidInv, MissedOnlyByReuse, [Next]_vars,
         NEW t \in Threads, NEW p \in Handles, Overlooked(t, p)
  PROVE  Reused(p)
<1>1. call \in [Threads -> Calls] /\ p \in call[t].todo /\ call'[t] # call[t]
  BY DEF SupervisorInv, Types, Overlooked
<1>2. ASSUME NEW u \in Threads, u # t, Enter(u) \/ BeginReap(u) \/ Step(u)
      PROVE  call'[t] = call[t]
  BY <1>1, <1>2 DEF Enter, BeginReap, Step, StartAdmitted, StopProcess, StopAllEnter, Reset,
     Register, Spawn, SpawnFails, StopReturns, StopAllSkip, StopAllStop, StopAllMark,
     StopAllReturns, ReapSkip, ReapPoll, ReapReport, ReapReturns, Continue, Returns, Goes
<1>3. ~(Enter(t) \/ BeginReap(t))
  BY DEF Enter, BeginReap, StartAdmitted, StopProcess, StopAllEnter, Reset, Asks, At, Overlooked
<1>4. Step(t)
  BY <1>1, <1>2, <1>3 DEF Next, ChildDies, Destroy, vars
<1>5. CASE \E q \in Handles : ReapSkip(t, q) \/ ReapPoll(t, q)
  <2>1. PICK q \in Handles : ReapSkip(t, q) \/ ReapPoll(t, q)
    BY <1>5
  <2>2. ReapSkip(t, q) /\ q = p
    BY <1>1, <2>1 DEF ReapSkip, ReapPoll, Continue, Overlooked, Calls
  <2>3. Marked(p)
    BY <2>2 DEF ReapSkip, Exited, Overlooked
  <2> QED BY <2>3 DEF Marked, MissedOnlyByReuse, PidInv, Running, Overlooked
<1>6. CASE ReapReport(t)
  <2>1. call[t].on = p
    BY <1>1, <1>6 DEF ReapReport, Continue, Overlooked, Calls
  <2> QED BY <1>6, <2>1 DEF ReapReport, At, Overlooked, PidInv, Marking
<1>7. CASE ReapReturns(t)
  BY <1>1, <1>7 DEF ReapReturns
<1> QED BY <1>4, <1>5, <1>6, <1>7
   DEF Step, Register, Spawn, SpawnFails, StopReturns, StopAllSkip, StopAllStop, StopAllMark,
       StopAllReturns, At, Overlooked

\* The one reason for which passes miss a running child, and give up on a
\* zombie they have in their copy: another child had its pid, was waited for,
\* and is still in the table (reap_exited_processes looks up the pid only).
\* Without reuse of a pid between two reset()s every listed exit is found.
THEOREM DeathsMissedOnlyByReuse ==
  Spec => []MissedOnlyByReuse /\ [][OverlookedOnlyByReuse]_vars
<1>1. Init => PidInv
  BY DEF Init, PidInv, Running, Unstarted, Marking, Idle
<1>2. SupervisorInv /\ PidInv /\ [Next]_vars => PidInv'
  BY PidNext
<1>3. SupervisorInv /\ PidInv => MissedOnlyByReuse
  BY DEF PidInv, MissedOnlyByReuse, Explained, Reused, Running
<1>4. SupervisorInv /\ PidInv /\ [Next]_vars => [OverlookedOnlyByReuse]_vars
  BY <1>3, OverlookedStep DEF OverlookedOnlyByReuse
<1> QED BY <1>1, <1>2, <1>3, <1>4, SupervisorSafe, PTL DEF Spec
==============================================================================
