----------------------- MODULE GraphicalSession_proofs -----------------------
(***************************************************************************)
(* Proofs about the daemon's session, for every recovery configuration.    *)
(***************************************************************************)
EXTENDS GraphicalSession, TLAPS

(* Managers' table: the moves the code makes, accepted or refused.         *)
LEMMA ManagerMoveType ==
  ASSUME NEW c, NEW from \in ManagerStates, NEW to \in ManagerStates
  PROVE  ManagerMove(c, from, to) \in ManagerStates
  BY DEF ManagerMove

\* The moves the session's control flow relies on are in the managers' tables.
LEMMA ManagerMoves ==
  ASSUME NEW c \in Comp
  PROVE  /\ ManagerMove(c, "Running", "Stopping") = "Stopping"
         /\ ManagerMove(c, "Stopping", "Stopped") = "Stopped"
         /\ ManagerMove(c, "WaitingReady", "Running") = "Running"
         /\ ManagerMove(c, "WaitingReady", "Failed") = "Failed"
  BY DEF ManagerMove, ManagerEdges, WestonEdges, LddeEdges

\* A move ends where it was meant to or stays.
LEMMA ManagerMoveTargets ==
  ASSUME NEW c, NEW from, NEW to
  PROVE  ManagerMove(c, from, to) \in {from, to}
  BY DEF ManagerMove

\* The session's moves, of which the one from RECOVERING to STOPPED is refused.
LEMMA SessionMoves ==
  /\ SessionMove("CREATED", "INITIALIZING") = "INITIALIZING"
  /\ SessionMove("INITIALIZING", "READY") = "READY"
  /\ SessionMove("INITIALIZING", "FAILED") = "FAILED"
  /\ SessionMove("READY", "STARTING") = "STARTING"
  /\ SessionMove("STARTING", "RUNNING") = "RUNNING"
  /\ SessionMove("STARTING", "FAILED") = "FAILED"
  /\ SessionMove("RUNNING", "FAILED") = "FAILED"
  /\ SessionMove("RUNNING", "STOPPING") = "STOPPING"
  /\ SessionMove("RUNNING", "RECOVERING") = "RECOVERING"
  /\ SessionMove("RECOVERING", "RUNNING") = "RUNNING"
  /\ SessionMove("RECOVERING", "FAILED") = "FAILED"
  /\ SessionMove("RECOVERING", "INITIALIZING") = "INITIALIZING"
  /\ SessionMove("FAILED", "FAILED") = "FAILED"
  /\ SessionMove("RECOVERING", "STOPPED") = "RECOVERING"
  BY DEF SessionMove, SessionCan, SessionEdges

\* A move of the session ends in a session state.
LEMMA SessionMoveType ==
  ASSUME NEW from \in SessionStates, NEW to \in SessionStates
  PROVE  SessionMove(from, to) \in SessionStates
  BY DEF SessionMove

\* A move of the lifecycle ends in a lifecycle state.
LEMMA LifecycleMoveType ==
  ASSUME NEW from \in LifecycleStates, NEW to \in LifecycleStates
  PROVE  LifecycleMove(from, to) \in LifecycleStates
  BY DEF LifecycleMove

-----------------------------------------------------------------------------
(* What the supervisor and the managers do to a component's record.        *)

\* Stopping a child reaps it and leaves the manager's side alone.
LEMMA StopChildFacts ==
  ASSUME NEW r \in Component
  PROVE  /\ StopChild(r) \in Component
         /\ StopChild(r).mgr = r.mgr /\ StopChild(r).held = r.held
         /\ StopChild(r).listed = r.listed /\ StopChild(r).beacon = r.beacon
         /\ r.listed => StopChild(r).child \notin {"alive", "zombie"}
         /\ r.child \notin {"alive", "zombie"} => StopChild(r).child = r.child
         /\ StopChild(r).child \in {r.child, "gone"}
  BY DEF StopChild, Reap, Component, ChildStates

\* A manager's stop() of the process it holds.
LEMMA StopHeldFacts ==
  ASSUME NEW r \in Component
  PROVE  /\ StopHeld(r) \in Component
         /\ StopHeld(r).mgr = r.mgr
         /\ StopHeld(r).listed = r.listed
         /\ r.held /\ r.listed => StopHeld(r).child \notin {"alive", "zombie"}
         /\ r.child \notin {"alive", "zombie"} => StopHeld(r).child = r.child
  BY StopChildFacts DEF StopHeld

\* stop_all's stop of a process it finds running.
LEMMA StopRunningFacts ==
  ASSUME NEW r \in Component
  PROVE  /\ StopRunning(r) \in Component
         /\ StopRunning(r).mgr = r.mgr
         /\ r.listed => StopRunning(r).child \notin {"alive", "zombie"}
         /\ r.child \notin {"alive", "zombie"} => StopRunning(r) = r
         /\ StopRunning(r).beacon = "stale" => r.child \in {"alive", "zombie"} \/ r.beacon = "stale"
  BY StopChildFacts DEF StopRunning, Component, BeaconStates, Others

\* stop() on a manager that runs a supervised child, or lost it: stopped.
LEMMA StopManagerRunning ==
  ASSUME NEW c \in Comp, NEW r \in Component, r.mgr = "Running",
         (r.held /\ r.listed) \/ r.child \notin {"alive", "zombie"}
  PROVE  /\ StopManager(c, r) \in Component
         /\ StopManager(c, r).mgr = "Stopped"
         /\ StopManager(c, r).child \notin {"alive", "zombie"}
  BY StopHeldFacts, ManagerMoves DEF StopManager, Component, ManagerStates, BeaconStates, Others

\* stop() on a manager without a child never brings one back.
LEMMA StopManagerQuiet ==
  ASSUME NEW c \in Comp, NEW r \in Component,
         r.mgr \notin {"WaitingReady", "Running"}, r.child \notin {"alive", "zombie"}
  PROVE  /\ StopManager(c, r) \in Component
         /\ StopManager(c, r).mgr \notin {"WaitingReady", "Running"}
         /\ StopManager(c, r).child \notin {"alive", "zombie"}
<1> DEFINE m1 == ManagerMove(c, r.mgr, "Stopping")
           m2 == ManagerMove(c, m1, "Stopped")
<1>1. m1 \in {r.mgr, "Stopping"} /\ m2 \in {m1, "Stopped"}
  BY ManagerMoveTargets
<1>2. m2 \in ManagerStates \ {"WaitingReady", "Running"}
  BY <1>1 DEF Component, ManagerStates
<1>3. /\ StopHeld(r) \in Component /\ StopHeld(r).mgr = r.mgr
      /\ StopHeld(r).child \notin {"alive", "zombie"}
  BY StopHeldFacts
<1>4. CASE r.mgr \in {"Stopped", "Stopping"}
  BY <1>4 DEF StopManager
<1>5. CASE r.mgr \notin {"Stopped", "Stopping"}
  <2>1. StopManager(c, r) = [StopHeld(r) EXCEPT !.mgr = m2, !.held = FALSE, !.beacon = "absent"]
    BY <1>5, <1>3 DEF StopManager
  <2> QED BY <2>1, <1>2, <1>3 DEF Component, BeaconStates, Others
<1> QED BY <1>4, <1>5

\* reset() leaves a manager in Created, and no child the registry lists.
LEMMA ResetManagerFacts ==
  ASSUME NEW r \in Component, (r.held /\ r.listed) \/ r.child \notin {"alive", "zombie"}
  PROVE  /\ ResetManager(r) \in Component
         /\ ResetManager(r).mgr = "Created"
         /\ ResetManager(r).child \notin {"alive", "zombie"}
  BY StopHeldFacts DEF ResetManager, Component, ManagerStates, BeaconStates, Others

\* A manager whose readiness wait failed has stopped its child.
LEMMA FailReadinessFacts ==
  ASSUME NEW c \in Comp, NEW r \in Component, r.mgr = "WaitingReady", r.held, r.listed
  PROVE  /\ FailReadiness(c, r) \in Component
         /\ FailReadiness(c, r).mgr = "Failed"
         /\ FailReadiness(c, r).child \notin {"alive", "zombie"}
<1>1. /\ StopHeld(r) \in Component /\ StopHeld(r).mgr = "WaitingReady"
      /\ StopHeld(r).child \notin {"alive", "zombie"}
  BY StopHeldFacts
<1>2. ManagerMove(c, StopHeld(r).mgr, "Failed") = "Failed"
  BY <1>1, ManagerMoves
<1>3. FailReadiness(c, r) = [StopHeld(r) EXCEPT !.mgr = "Failed", !.beacon = "absent"]
  BY <1>1, <1>2 DEF FailReadiness
<1> QED BY <1>1, <1>3 DEF Component, ManagerStates, BeaconStates, Others

-----------------------------------------------------------------------------
(* Steps that leave the components alone.                                  *)

\* The invariant only looks at these variables.
LEMMA ComponentsFrame ==
  ASSUME UNCHANGED <<comp, closing, leaked>>, BeaconInv, NoLeakedChild
  PROVE  /\ BeaconInv' /\ NoLeakedChild'
         /\ \A c \in Comp : Supervised(c)' = Supervised(c)
         /\ \A c \in Comp : Lost(c)' = Lost(c)
         /\ \A c \in Comp : Quiet(c)' = Quiet(c)
  BY DEF BeaconInv, NoLeakedChild, Supervised, Lost, Quiet, Unreaped

\* Start-up up to the first spawn.
LEMMA BootSteps ==
  ASSUME SessionInv, Boot \/ BootEnds \/ InitializeSession \/ StartSession
  PROVE  SessionInv'
<1> USE DEF Boot, BootEnds, InitializeSession, StartSession, Exit
<1>0. session' \in SessionStates
  <2>1. {"INITIALIZING", "READY", "STARTING"} \subseteq SessionStates
    BY DEF SessionStates
  <2> QED BY <2>1, SessionMoveType DEF SessionInv, TypeOK, sessionVars
<1>t. target' \in Comp
  BY DEF SessionInv, TypeOK, Comp, startVars
<1>1. TypeOK'
  BY <1>0, <1>t DEF SessionInv, TypeOK, PCs, LifecycleStates, Published,
     startVars, daemonVars, sessionVars, childVars, recoveryVars, passVars
<1>2. BudgetInv'
  BY SessionMoves DEF SessionInv, BudgetInv, ControlInv, sessionVars, recoveryVars
<1>3. /\ BeaconInv' /\ NoLeakedChild' /\ \A c \in Comp : Quiet(c)' = Quiet(c)
  BY ComponentsFrame DEF SessionInv, childVars
<1>4. ControlInv'
  BY <1>3, SessionMoves DEF SessionInv, ControlInv, StartingUp, OthersInOrder,
     CauseReplaced, Comp, startVars, childVars, sessionVars
<1>5. StateFileInv'
  BY DEF StateFileInv
<1> QED BY <1>1, <1>2, <1>3, <1>4, <1>5 DEF SessionInv

\* The event loop and the reap pass while they only look.
LEMMA ReapSteps ==
  ASSUME SessionInv, BeginReap \/ ReapDone \/ \E c \in Comp : ReapSkip(c)
  PROVE  SessionInv'
<1> USE DEF BeginReap, ReapDone, ReapSkip
<1>1. TypeOK'
  BY DEF SessionInv, TypeOK, PCs, startVars, daemonVars, sessionVars, childVars, recoveryVars, passVars
<1>2. BudgetInv'
  BY DEF SessionInv, BudgetInv, sessionVars, recoveryVars
<1>3. BeaconInv' /\ NoLeakedChild' /\ \A c \in Comp : /\ Quiet(c)' = Quiet(c)
                                                     /\ Supervised(c)' = Supervised(c)
  BY ComponentsFrame DEF SessionInv, childVars
<1>4. ControlInv'
  BY <1>3 DEF SessionInv, ControlInv, Operational, GivenUp, childVars, sessionVars
<1>5. StateFileInv'
  BY DEF SessionInv, StateFileInv, sessionVars
<1> QED BY <1>1, <1>2, <1>3, <1>4, <1>5 DEF SessionInv

\* A recovery that is refused or exhausted begins to fail the session.
LEMMA RecoveryGivesUp ==
  ASSUME SessionInv, RecoveryRefused \/ RecoveryExhausted \/ RecoveryFails
  PROVE  SessionInv'
<1> USE DEF RecoveryRefused, RecoveryExhausted, RecoveryFails, FailSession, PublishFailure
<1>1. /\ session \in {"RUNNING", "RECOVERING", "FAILED"}
      /\ pc = "recover" => session = "RUNNING"
  BY DEF SessionInv, ControlInv, Operational
<1>2. session' = "FAILED"
  BY <1>1, SessionMoves
<1>3. attempts' \in 0..(MaxAttempts + 1)
  BY <1>1, ConfigAssumption DEF SessionInv, TypeOK, BudgetInv
<1>4. TypeOK'
  BY <1>2, <1>3 DEF SessionInv, TypeOK, PCs, RecoveryStates, SessionStates, Published,
     PublishFailure, startVars, daemonVars, passVars
<1>5. BudgetInv' /\ StateFileInv'
  BY <1>2 DEF BudgetInv, StateFileInv
<1>6. BeaconInv' /\ NoLeakedChild'
  BY DEF SessionInv, BeaconInv, NoLeakedChild
<1>7. \A c \in Comp : /\ Quiet(c)' = Quiet(c) /\ Supervised(c)' = Supervised(c)
                      /\ Lost(c)' = Lost(c)
  BY DEF Quiet, Supervised, Lost, Unreaped
<1>8. /\ \A c \in Comp : Supervised(c) \/ Lost(c) \/ Quiet(c)
      /\ comp["ldde"].mgr = "Running" => comp["weston"].mgr = "Running"
  BY DEF SessionInv, ControlInv, Operational, PreviouslyRunning, Supervised, Lost, Quiet, Comp
<1>9. ControlInv'
  BY <1>2, <1>7, <1>8 DEF ControlInv
<1> QED BY <1>4, <1>5, <1>6, <1>9 DEF SessionInv

\* A recovery that is admitted starts with both components as the exit left them.
LEMMA RecoveryGoesOn ==
  ASSUME SessionInv, RecoveryAdmitted \/ RecoverySucceeds
  PROVE  SessionInv'
<1> USE DEF RecoveryAdmitted, RecoverySucceeds
<1>1. /\ pc = "recover" => session = "RUNNING"
      /\ pc = "verify" => session \in {"RECOVERING", "RUNNING"}
  BY DEF SessionInv, ControlInv, Operational
<1>2. /\ RecoveryAdmitted => session' = "RECOVERING"
      /\ RecoverySucceeds => session' = "RUNNING"
  BY <1>1, SessionMoves
<1>3. attempts' \in 0..MaxAttempts
  BY <1>1, ConfigAssumption DEF SessionInv, TypeOK, BudgetInv, OverBudget
<1>4. TypeOK'
  BY <1>2, <1>3, ConfigAssumption DEF SessionInv, TypeOK, PCs, RecoveryStates, SessionStates,
     Published, Policy, startVars, daemonVars, childVars, passVars
<1>5. BudgetInv' /\ StateFileInv'
  BY <1>2, <1>3 DEF BudgetInv, StateFileInv
<1>6. /\ BeaconInv' /\ NoLeakedChild'
      /\ \A c \in Comp : Supervised(c)' = Supervised(c) /\ Lost(c)' = Lost(c)
  BY ComponentsFrame DEF SessionInv, childVars
<1>7. ControlInv'
  BY <1>2, <1>6 DEF SessionInv, ControlInv, Operational, PreviouslyRunning, Policy, childVars, passVars
<1> QED BY <1>4, <1>5, <1>6, <1>7 DEF SessionInv

\* The steps that touch neither child nor manager.
LEMMA OtherSteps ==
  ASSUME SessionInv, BeginShutdown \/ Sigterm \/ UNCHANGED vars
  PROVE  SessionInv'
<1>1. CASE BeginShutdown
  <2> USE <1>1 DEF BeginShutdown
  <2>1. session' = IF session = "FAILED" THEN "FAILED" ELSE "STOPPING"
    BY SessionMoves DEF SessionInv, ControlInv, Operational, GivenUp
  <2>2. TypeOK'
    BY <2>1, LifecycleMoveType DEF SessionInv, TypeOK, PCs, SessionStates, LifecycleStates,
       Published, startVars, childVars, recoveryVars, passVars
  <2>3. BudgetInv' /\ StateFileInv'
    BY <2>1 DEF SessionInv, BudgetInv, StateFileInv, recoveryVars
  <2>4. BeaconInv' /\ NoLeakedChild' /\ \A c \in Comp : /\ Quiet(c)' = Quiet(c)
                                                       /\ Supervised(c)' = Supervised(c)
    BY ComponentsFrame DEF SessionInv, childVars
  <2>5. ControlInv'
    BY <2>1, <2>4 DEF SessionInv, ControlInv, Operational, GivenUp, childVars
  <2> QED BY <2>2, <2>3, <2>4, <2>5 DEF SessionInv
<1>2. CASE Sigterm \/ UNCHANGED vars
  <2> USE <1>2 DEF Sigterm, vars, startVars, sessionVars, childVars, recoveryVars, passVars, daemonVars
  <2>1. TypeOK'
    BY DEF SessionInv, TypeOK
  <2>2. BudgetInv' /\ StateFileInv'
    BY DEF SessionInv, BudgetInv, StateFileInv
  <2>3. BeaconInv' /\ NoLeakedChild'
    BY ComponentsFrame DEF SessionInv
  <2>4. ControlInv'
    BY DEF SessionInv, ControlInv, Operational, GivenUp, StartingUp, OthersInOrder, CauseReplaced,
       PreviouslyRunning, Awaited, Supervised, Lost, Quiet, Unreaped
  <2> QED BY <2>1, <2>2, <2>3, <2>4 DEF SessionInv
<1> QED BY <1>1, <1>2
-----------------------------------------------------------------------------
(* Starting a component.                                                   *)

\* main() returns early: the session is torn down by destructors.
LEMMA InitializeFailsStep ==
  ASSUME SessionInv, InitializeFails PROVE SessionInv'
<1> USE DEF InitializeFails, Abort, PublishFailure
<1>1. comp \in [Comp -> Component] /\ \A c \in Comp : Quiet(c)
  BY DEF SessionInv, TypeOK, ControlInv
<1>2. session' = "FAILED"
  BY SessionMoves DEF SessionInv, ControlInv
<1>3. /\ comp' \in [Comp -> Component]
      /\ \A c \in Comp : Quiet(c)' /\ comp'[c].child = comp[c].child
  <2>1. CASE comp' = comp
    BY <2>1, <1>1 DEF Quiet, Unreaped
  <2>2. ASSUME NEW d \in Comp, comp' = [comp EXCEPT ![d].mgr = ManagerMove(d, @, "Failed")]
        PROVE  <1>3
    <3>1. ManagerMove(d, comp[d].mgr, "Failed") \in ManagerStates \ {"WaitingReady", "Running"}
      BY <1>1, ManagerMoveTargets DEF Quiet, Component, ManagerStates
    <3>2. comp'[d] = [comp[d] EXCEPT !.mgr = ManagerMove(d, comp[d].mgr, "Failed")]
      BY <2>2, <1>1
    <3> QED BY <3>1, <3>2, <2>2, <1>1 DEF Quiet, Unreaped, Component
  <2> QED BY <2>1, <2>2
<1>4. TypeOK'
  BY <1>2, <1>3 DEF SessionInv, TypeOK, PCs, SessionStates, LifecycleStates, Published,
     startVars, recoveryVars, passVars
<1>5. ControlInv'
  BY <1>2, <1>3 DEF ControlInv, GivenUp
<1>6. BudgetInv' /\ NoLeakedChild' /\ StateFileInv'
  BY <1>2 DEF SessionInv, BudgetInv, NoLeakedChild, StateFileInv
<1>7. BeaconInv'
  BY <1>3 DEF BeaconInv, Quiet, Unreaped
<1> QED BY <1>4, <1>5, <1>6, <1>7 DEF SessionInv

\* A component is spawned only where none is left.
LEMMA SpawnComponentStep ==
  ASSUME SessionInv, SpawnComponent PROVE SessionInv'
<1> USE DEF SpawnComponent
<1>1. /\ comp \in [Comp -> Component] /\ target \in Comp
      /\ StartingUp /\ Quiet(target) /\ OthersInOrder /\ CauseReplaced
  BY DEF SessionInv, TypeOK, ControlInv
<1>2. /\ comp'[target] = [mgr |-> "WaitingReady", held |-> TRUE, child |-> "alive",
                          listed |-> TRUE, reported |-> FALSE,
                          beacon |-> PreparedBeacon(target)]
      /\ PreparedBeacon(target) \in {"absent", "foreign"}
      /\ \A c \in Comp \ {target} : comp'[c] = comp[c]
  BY <1>1 DEF PreparedBeacon
<1>3. comp' \in [Comp -> Component]
  BY <1>1, <1>2 DEF Component, ManagerStates, ChildStates, BeaconStates, Others
<1>4. Awaited(target)'
  BY <1>1, <1>2 DEF Awaited, Unreaped, startVars
<1>5. TypeOK'
  BY <1>1, <1>3 DEF SessionInv, TypeOK, PCs, NoLeakedChild, Quiet, startVars, daemonVars, sessionVars, recoveryVars
<1>6. OthersInOrder' /\ CauseReplaced' /\ StartingUp'
  BY <1>1, <1>2 DEF OthersInOrder, CauseReplaced, StartingUp, Quiet, Supervised, Unreaped,
     Comp, startVars, sessionVars, recoveryVars
<1>7. ControlInv'
  BY <1>4, <1>6 DEF ControlInv
<1>8. BeaconInv'
  BY <1>1, <1>2 DEF SessionInv, BeaconInv
<1>9. BudgetInv' /\ NoLeakedChild' /\ StateFileInv'
  BY <1>1 DEF SessionInv, BudgetInv, NoLeakedChild, StateFileInv, Quiet, sessionVars, recoveryVars
<1> QED BY <1>5, <1>7, <1>8, <1>9 DEF SessionInv

\* Both ways a start can fail leave the other component as it was.
LEMMA StartFailsStep ==
  ASSUME SessionInv, SpawnFails \/ ReadinessFails PROVE SessionInv'
<1> USE DEF SpawnFails, ReadinessFails
<1>1. /\ comp \in [Comp -> Component] /\ target \in Comp
      /\ StartingUp /\ OthersInOrder
      /\ Quiet(target) \/ (Awaited(target) /\ ReadinessFails)
  BY DEF SessionInv, TypeOK, ControlInv
<1> DEFINE r == comp'[target]
<1>2. /\ r \in Component /\ r.mgr \notin {"WaitingReady", "Running"}
      /\ r.child \notin {"alive", "zombie"}
      /\ comp' = [comp EXCEPT ![target] = r]
  <2>1. CASE SpawnFails
    <3>1. Quiet(target)
      BY <2>1 DEF SessionInv, ControlInv
    <3>2. r = [comp[target] EXCEPT !.mgr = IF @ = "Created" THEN "Failed" ELSE @]
      BY <2>1, <1>1
    <3>3. comp' = [comp EXCEPT ![target] = r]
      BY <2>1, <1>1, <3>2
    <3>4. r \in Component /\ r.mgr \in {"Failed", comp[target].mgr} /\ r.child = comp[target].child
      BY <3>2, <1>1 DEF Component, ManagerStates
    <3> QED BY <3>1, <3>3, <3>4 DEF Quiet, Unreaped
  <2>2. CASE ReadinessFails
    <3>1. Awaited(target)
      BY <2>2 DEF SessionInv, ControlInv
    <3>2. comp' = [comp EXCEPT ![target] = FailReadiness(target, comp[target])]
      BY <2>2
    <3>3. r = FailReadiness(target, comp[target])
      BY <3>2, <1>1
    <3> QED BY <3>1, <3>2, <3>3, <1>1, FailReadinessFacts DEF Awaited
  <2> QED BY <2>1, <2>2
<1>3. comp' \in [Comp -> Component] /\ \A c \in Comp \ {target} : comp'[c] = comp[c]
  BY <1>1, <1>2
<1>4. TypeOK'
  BY <1>3 DEF SessionInv, TypeOK, PCs, StartFailed, startVars, daemonVars, sessionVars, recoveryVars, passVars
<1>5. Quiet(target)' /\ OthersInOrder' /\ StartingUp'
  BY <1>1, <1>2, <1>3 DEF OthersInOrder, StartingUp, Quiet, Supervised, Unreaped,
     Comp, startVars, sessionVars
<1>6. ControlInv'
  <2>1. CASE op = "component"
    BY <2>1, <1>1, <1>5 DEF ControlInv, StartFailed, StartingUp, OthersInOrder, Comp, startVars, sessionVars
  <2>2. CASE op # "component"
    BY <2>2, <1>5 DEF ControlInv, StartFailed, startVars
  <2> QED BY <2>1, <2>2
<1>7. BeaconInv'
  BY <1>1, <1>2, <1>3 DEF SessionInv, BeaconInv
<1>8. BudgetInv' /\ NoLeakedChild' /\ StateFileInv'
  BY DEF SessionInv, BudgetInv, NoLeakedChild, StateFileInv, StartFailed, sessionVars, recoveryVars
<1> QED BY <1>4, <1>6, <1>7, <1>8 DEF SessionInv

\* Weston's readiness wait ends.
LEMMA CompositorReadyStep ==
  ASSUME SessionInv, CompositorReady PROVE SessionInv'
<1> USE DEF CompositorReady
<1>1. /\ comp \in [Comp -> Component] /\ "weston" \in Comp /\ "ldde" \in Comp
      /\ StartingUp /\ Awaited("weston") /\ Quiet("ldde")
      /\ comp["weston"].child = "alive" /\ comp["weston"].beacon \in Connectable
  BY DEF SessionInv, TypeOK, ControlInv, OthersInOrder, Ready, Comp
<1> DEFINE d == IF op = "component" THEN ResetManager(comp["ldde"]) ELSE comp["ldde"]
<1>2. d \in Component /\ d.mgr \notin {"WaitingReady", "Running"} /\ d.child \notin {"alive", "zombie"}
  BY <1>1, ResetManagerFacts DEF Quiet, Unreaped
<1>3. ManagerMove("weston", comp["weston"].mgr, "Running") = "Running"
  BY <1>1, ManagerMoves DEF Awaited
<1>4. comp' = [comp EXCEPT !["weston"].mgr = "Running", !["ldde"] = d]
  BY <1>3
<1> HIDE DEF d
<1>5. /\ comp' \in [Comp -> Component] /\ comp'["ldde"] = d
      /\ comp'["weston"] = [comp["weston"] EXCEPT !.mgr = "Running"]
  BY <1>1, <1>2, <1>4 DEF Component, ManagerStates
<1>6. Supervised("weston")' /\ Quiet("ldde")' /\ comp'["weston"].beacon \in Connectable
  BY <1>1, <1>2, <1>5 DEF Supervised, Quiet, Unreaped, Awaited, Component
<1>7. TypeOK'
  BY <1>1, <1>5 DEF SessionInv, TypeOK, PCs, Published, daemonVars, recoveryVars, passVars
<1>8. ControlInv'
  BY <1>1, <1>6 DEF ControlInv, StartingUp, OthersInOrder, CauseReplaced, Awaited, recoveryVars, passVars
<1>9. BeaconInv' /\ BudgetInv' /\ NoLeakedChild' /\ StateFileInv'
  BY <1>6 DEF SessionInv, BeaconInv, BudgetInv, NoLeakedChild, StateFileInv, Quiet, Unreaped, Comp,
     Connectable, Others, recoveryVars
<1> QED BY <1>7, <1>8, <1>9 DEF SessionInv

\* LDDE's readiness wait ends.
LEMMA DesktopReadyStep ==
  ASSUME SessionInv, DesktopReady PROVE SessionInv'
<1> USE DEF DesktopReady
<1>1. /\ comp \in [Comp -> Component] /\ "weston" \in Comp /\ "ldde" \in Comp
      /\ StartingUp /\ Awaited("ldde") /\ Supervised("weston") /\ CauseReplaced
      /\ comp["ldde"].child = "alive" /\ comp["ldde"].beacon = "good"
  BY DEF SessionInv, TypeOK, ControlInv, BeaconInv, OthersInOrder, Ready, Comp
<1>2. ManagerMove("ldde", comp["ldde"].mgr, "Running") = "Running"
  BY <1>1, ManagerMoves DEF Awaited
<1>3. comp' = [comp EXCEPT !["ldde"].mgr = "Running"]
  BY <1>2
<1>4. /\ comp' \in [Comp -> Component] /\ comp'["weston"] = comp["weston"]
      /\ comp'["ldde"] = [comp["ldde"] EXCEPT !.mgr = "Running"]
  BY <1>1, <1>3 DEF Component, ManagerStates
<1>5. /\ \A c \in Comp : Supervised(c)'
      /\ comp'["ldde"].beacon = "good"
  BY <1>1, <1>4 DEF Supervised, Unreaped, Awaited, Component, Comp
<1>6. session' = IF op = "component" THEN "RECOVERING" ELSE "RUNNING"
  BY <1>1, SessionMoves DEF StartingUp
<1>7. TypeOK'
  BY <1>1, <1>4, <1>6 DEF SessionInv, TypeOK, PCs, Published, SessionStates, LifecycleStates,
     startVars, recoveryVars, passVars
<1>8. op # "boot" => cause \in stale
  BY <1>1 DEF SessionInv, TypeOK, CauseReplaced, Awaited, Comp
<1>9. ControlInv'
  BY <1>1, <1>5, <1>6, <1>8 DEF ControlInv, Operational, StartingUp, startVars, recoveryVars, passVars
<1>10. BeaconInv' /\ NoLeakedChild' /\ StateFileInv'
  BY <1>1, <1>4, <1>5, <1>6 DEF SessionInv, BeaconInv, NoLeakedChild, StateFileInv, Comp
<1>11. BudgetInv'
  BY <1>1 DEF SessionInv, BudgetInv, StartingUp, recoveryVars
<1> QED BY <1>7, <1>9, <1>10, <1>11 DEF SessionInv

\* A start that failed stops what it had started.
LEMMA RollbackStep ==
  ASSUME SessionInv, Rollback PROVE SessionInv'
<1> USE DEF Rollback
<1>1. /\ comp \in [Comp -> Component] /\ "weston" \in Comp /\ "ldde" \in Comp /\ target \in Comp
      /\ op # "component" /\ session = "STARTING"
      /\ Quiet("ldde") /\ (target = "weston" => Quiet("weston"))
      /\ target = "ldde" => Supervised("weston")
  BY DEF SessionInv, TypeOK, ControlInv, StartingUp, OthersInOrder, Comp
<1>2. session' = "FAILED"
  BY <1>1, SessionMoves
<1>3. comp' \in [Comp -> Component] /\ Quiet("ldde")' /\ Quiet("weston")'
  <2>1. CASE target = "weston"
    BY <2>1, <1>1 DEF Quiet, Unreaped
  <2>2. CASE target = "ldde"
    <3>1. /\ StopManager("weston", comp["weston"]) \in Component
          /\ StopManager("weston", comp["weston"]).mgr = "Stopped"
          /\ StopManager("weston", comp["weston"]).child \notin {"alive", "zombie"}
      BY <2>2, <1>1, StopManagerRunning DEF Supervised
    <3> QED BY <3>1, <2>2, <1>1 DEF Quiet, Unreaped
  <2> QED BY <2>1, <2>2, <1>1 DEF Comp
<1>4. TypeOK'
  BY <1>2, <1>3 DEF SessionInv, TypeOK, PCs, Published, PublishFailure, Abort, SessionStates,
     LifecycleStates, startVars, recoveryVars, passVars
<1>5. ControlInv'
  BY <1>2, <1>3 DEF ControlInv, Abort, GivenUp, Comp
<1>6. BeaconInv' /\ NoLeakedChild' /\ BudgetInv' /\ StateFileInv'
  BY <1>2, <1>3 DEF SessionInv, BeaconInv, NoLeakedChild, BudgetInv, StateFileInv, Abort,
     Quiet, Unreaped, Comp
<1> QED BY <1>4, <1>5, <1>6 DEF SessionInv
\* reset() of the supervisor forgets processes, not children.
LEMMA ForgetFacts ==
  ASSUME NEW r \in Component
  PROVE  /\ Forget(r) \in Component /\ Unlist(r) \in Component
         /\ Forget(r).child = r.child /\ Unlist(r).child = r.child
         /\ Unlist(r).mgr = r.mgr /\ Unlist(r).held = r.held
  BY DEF Forget, Unlist, Component

-----------------------------------------------------------------------------
(* Exits, and what recovery does about them.                               *)

\* An exit is reaped, reported, and heard by the managers.
LEMMA ReapExitStep ==
  ASSUME SessionInv, NEW c \in Comp, ReapExit(c) PROVE SessionInv'
<1>1. /\ comp \in [Comp -> Component]
      /\ Operational("RUNNING") \/ GivenUp
  BY DEF ReapExit, SessionInv, TypeOK, ControlInv
<1> DEFINE r == [Reap(comp[c]) EXCEPT !.reported = TRUE]
<1>2. /\ r \in Component /\ r.mgr = comp[c].mgr /\ r.beacon = comp[c].beacon
      /\ r.child \notin {"alive", "zombie"}
  BY <1>1 DEF Reap, Component, ChildStates
<1>3. comp' = comp \/ comp' = [comp EXCEPT ![c] = r]
  BY DEF ReapExit
<1> HIDE DEF r
<1>4. /\ comp' \in [Comp -> Component]
      /\ \A x \in Comp : comp'[x] = comp[x] \/ (comp'[x] = r /\ x = c)
  <2>1. CASE comp' = comp
    BY <2>1, <1>1
  <2>2. CASE comp' = [comp EXCEPT ![c] = r]
    BY <2>2, <1>1, <1>2
  <2> QED BY <2>1, <2>2, <1>3
<1>5. TypeOK'
  BY <1>4 DEF ReapExit, Recoverable, SessionInv, TypeOK, PCs, Published, startVars, daemonVars
<1>6. ControlInv'
  <2>1. CASE Operational("RUNNING")
    <3>1. PreviouslyRunning'
      BY <2>1, <1>2, <1>4 DEF ReapExit, Operational, PreviouslyRunning, Supervised, Lost, Unreaped
    <3> QED BY <3>1, <2>1 DEF ReapExit, Recoverable, ControlInv, Operational
  <2>2. CASE GivenUp
    <3>1. GivenUp'
      BY <2>2, <1>2, <1>4 DEF ReapExit, GivenUp, Quiet, Unreaped
    <3> QED BY <3>1, <2>2 DEF ReapExit, Recoverable, ControlInv, GivenUp
  <2> QED BY <1>1, <2>1, <2>2
<1>7. BeaconInv'
  BY <1>2, <1>4 DEF SessionInv, BeaconInv
<1>8. BudgetInv' /\ NoLeakedChild' /\ StateFileInv'
  BY DEF ReapExit, Recoverable, SessionInv, BudgetInv, NoLeakedChild, StateFileInv
<1> QED BY <1>5, <1>6, <1>7, <1>8 DEF SessionInv

\* The managers' listeners never take the event of a replaced process for
\* one about the process they run now.
LEMMA DeliverStep ==
  ASSUME SessionInv, Deliver PROVE SessionInv'
<1>1. /\ comp \in [Comp -> Component] /\ cause \in Comp
      /\ (Operational("RUNNING") /\ cause \in stale) \/ GivenUp
  BY DEF Deliver, SessionInv, TypeOK, ControlInv
<1>2. comp' = comp \/ (GivenUp /\ comp' = [comp EXCEPT ![cause].mgr =
                        IF @ \in {"Starting", "WaitingReady", "Running"}
                          THEN ManagerMove(cause, @, "Failed") ELSE @])
  BY <1>1 DEF Deliver, Concerns
<1>3. /\ comp' \in [Comp -> Component]
      /\ \A c \in Comp : comp'[c].child = comp[c].child /\ comp'[c].beacon = comp[c].beacon
      /\ GivenUp => \A c \in Comp : Quiet(c)'
      /\ ~GivenUp => comp' = comp
  <2>1. CASE comp' = comp
    BY <2>1, <1>1 DEF GivenUp, Quiet, Unreaped
  <2>2. CASE comp' # comp
    <3> DEFINE m == IF comp[cause].mgr \in {"Starting", "WaitingReady", "Running"}
                      THEN ManagerMove(cause, comp[cause].mgr, "Failed") ELSE comp[cause].mgr
    <3>1. GivenUp /\ comp' = [comp EXCEPT ![cause].mgr = m]
      BY <2>2, <1>2
    <3>2. m \in ManagerStates \ {"WaitingReady", "Running"}
      BY <3>1, <1>1, ManagerMoveTargets DEF GivenUp, Quiet, Component, ManagerStates
    <3> HIDE DEF m
    <3> QED BY <3>1, <3>2, <1>1 DEF GivenUp, Quiet, Unreaped, Component
  <2> QED BY <2>1, <2>2
<1>4. TypeOK'
  BY <1>3 DEF Deliver, SessionInv, TypeOK, PCs, startVars, daemonVars, sessionVars, recoveryVars, passVars
<1>5. ControlInv'
  BY <1>1, <1>3 DEF Deliver, ControlInv, Operational, GivenUp, Supervised, Unreaped, sessionVars
<1>6. BeaconInv'
  <2>1. CASE GivenUp
    BY <2>1, <1>3 DEF BeaconInv, Quiet, Unreaped
  <2>2. CASE ~GivenUp
    BY <2>2, <1>3 DEF SessionInv, BeaconInv
  <2> QED BY <2>1, <2>2
<1>7. BudgetInv' /\ NoLeakedChild' /\ StateFileInv'
  BY DEF Deliver, SessionInv, BudgetInv, NoLeakedChild, StateFileInv, sessionVars, recoveryVars
<1> QED BY <1>4, <1>5, <1>6, <1>7 DEF SessionInv

\* LDDE is replaced under a running compositor.
LEMMA RestartDesktopStep ==
  ASSUME SessionInv, RestartDesktop PROVE SessionInv'
<1> USE DEF RestartDesktop
<1>1. /\ comp \in [Comp -> Component] /\ "weston" \in Comp /\ "ldde" \in Comp
      /\ session = "RECOVERING" /\ ~closing
      /\ Supervised("weston")
      /\ Supervised("ldde") \/ Lost("ldde")
  BY DEF SessionInv, TypeOK, ControlInv, PreviouslyRunning, Comp
<1> DEFINE s == StopManager("ldde", comp["ldde"])
           d == ResetManager(s)
<1>2. s \in Component /\ s.child \notin {"alive", "zombie"}
  BY <1>1, StopManagerRunning DEF Supervised, Lost, Unreaped
<1>3. d \in Component /\ d.mgr = "Created" /\ d.child \notin {"alive", "zombie"}
  BY <1>2, ResetManagerFacts
<1>4. comp' = [comp EXCEPT !["ldde"] = d]
  OBVIOUS
<1> HIDE DEF s, d
<1>5. comp' \in [Comp -> Component] /\ comp'["ldde"] = d /\ comp'["weston"] = comp["weston"]
  BY <1>1, <1>3, <1>4
<1>6. TypeOK'
  BY <1>1, <1>5 DEF SessionInv, TypeOK, PCs, Published, RecoveryStates, daemonVars, passVars
<1>7. Quiet("ldde")' /\ Supervised("weston")'
  BY <1>1, <1>3, <1>5 DEF Quiet, Supervised, Unreaped
<1>8. ControlInv'
  BY <1>1, <1>7 DEF ControlInv, StartingUp, OthersInOrder, CauseReplaced
<1>9. BeaconInv'
  BY <1>1, <1>3, <1>5 DEF SessionInv, BeaconInv, Comp
<1>10. BudgetInv' /\ NoLeakedChild' /\ StateFileInv'
  BY DEF SessionInv, BudgetInv, NoLeakedChild, StateFileInv
<1> QED BY <1>6, <1>8, <1>9, <1>10 DEF SessionInv

\* LDDE is stopped before Weston is replaced.
LEMMA QuiesceDesktopStep ==
  ASSUME SessionInv, QuiesceDesktop PROVE SessionInv'
<1> USE DEF QuiesceDesktop
<1>1. /\ comp \in [Comp -> Component] /\ "weston" \in Comp /\ "ldde" \in Comp
      /\ session = "RECOVERING" /\ ~closing /\ op # "boot"
      /\ Supervised("weston") \/ Lost("weston")
      /\ Supervised("ldde") \/ Lost("ldde")
  BY DEF SessionInv, TypeOK, ControlInv, PreviouslyRunning, Comp
<1> DEFINE d == StopManager("ldde", comp["ldde"])
<1>2. d \in Component /\ d.mgr = "Stopped" /\ d.child \notin {"alive", "zombie"}
  BY <1>1, StopManagerRunning DEF Supervised, Lost, Unreaped
<1>3. comp' = [comp EXCEPT !["ldde"] = d]
  OBVIOUS
<1> HIDE DEF d
<1>4. comp' \in [Comp -> Component] /\ comp'["ldde"] = d /\ comp'["weston"] = comp["weston"]
  BY <1>1, <1>2, <1>3
<1>5. TypeOK'
  BY <1>4 DEF SessionInv, TypeOK, PCs, startVars, daemonVars, sessionVars, recoveryVars, passVars
<1>6. Quiet("ldde")' /\ (Supervised("weston")' \/ Lost("weston")')
  BY <1>1, <1>2, <1>4 DEF Quiet, Supervised, Lost, Unreaped
<1>7. ControlInv'
  BY <1>1, <1>6 DEF ControlInv, startVars, sessionVars
<1>8. BeaconInv'
  BY <1>1, <1>2, <1>4 DEF SessionInv, BeaconInv, Comp
<1>9. BudgetInv' /\ NoLeakedChild' /\ StateFileInv'
  BY DEF SessionInv, BudgetInv, NoLeakedChild, StateFileInv, sessionVars, recoveryVars
<1> QED BY <1>5, <1>7, <1>8, <1>9 DEF SessionInv

\* Weston is replaced.
LEMMA RestartCompositorStep ==
  ASSUME SessionInv, RestartCompositor PROVE SessionInv'
<1> USE DEF RestartCompositor, StartCompositor
<1>1. /\ comp \in [Comp -> Component] /\ "weston" \in Comp /\ "ldde" \in Comp
      /\ session = "RECOVERING" /\ ~closing
      /\ Supervised("weston") \/ Lost("weston")
      /\ Quiet("ldde")
  BY DEF SessionInv, TypeOK, ControlInv, Comp
<1> DEFINE s == StopManager("weston", comp["weston"])
           w == ResetManager(s)
<1>2. s \in Component /\ s.child \notin {"alive", "zombie"}
  BY <1>1, StopManagerRunning DEF Supervised, Lost, Unreaped
<1>3. w \in Component /\ w.mgr = "Created" /\ w.child \notin {"alive", "zombie"}
  BY <1>2, ResetManagerFacts
<1>4. comp' = [comp EXCEPT !["weston"] = w]
  OBVIOUS
<1> HIDE DEF s, w
<1>5. comp' \in [Comp -> Component] /\ comp'["weston"] = w /\ comp'["ldde"] = comp["ldde"]
  BY <1>1, <1>3, <1>4
<1>6. TypeOK'
  BY <1>1, <1>5 DEF SessionInv, TypeOK, PCs, Published, RecoveryStates, daemonVars
<1>7. Quiet("ldde")' /\ Quiet("weston")'
  BY <1>1, <1>3, <1>5 DEF Quiet, Unreaped
<1>8. ControlInv'
  BY <1>1, <1>7 DEF ControlInv, StartingUp, OthersInOrder, CauseReplaced
<1>9. BeaconInv' /\ BudgetInv' /\ NoLeakedChild' /\ StateFileInv'
  BY <1>7 DEF SessionInv, BeaconInv, BudgetInv, NoLeakedChild, StateFileInv, Quiet, Unreaped, Comp
<1> QED BY <1>6, <1>8, <1>9 DEF SessionInv

\* Everything is stopped and reset for a session restart.
LEMMA RestartSessionStep ==
  ASSUME SessionInv, RestartSession PROVE SessionInv'
<1> USE DEF RestartSession, StartCompositor
<1>1. /\ comp \in [Comp -> Component] /\ "weston" \in Comp /\ "ldde" \in Comp
      /\ session = "RECOVERING"
      /\ Supervised("weston") \/ Lost("weston")
      /\ Quiet("ldde")
  BY DEF SessionInv, TypeOK, ControlInv, Comp
<1>2. session' = "STARTING"
  BY <1>1, SessionMoves
<1> DEFINE stopped(c) == IF c = "weston" THEN StopManager(c, comp[c]) ELSE comp[c]
           idle(c) == Forget(StopRunning(stopped(c)))
<1>3. ASSUME NEW c \in Comp
      PROVE  stopped(c) \in Component /\ stopped(c).child \notin {"alive", "zombie"}
  <2>1. CASE c = "weston"
    BY <2>1, <1>1, StopManagerRunning DEF Supervised, Lost, Unreaped
  <2>2. CASE c = "ldde"
    BY <2>2, <1>1 DEF Quiet, Unreaped
  <2> QED BY <2>1, <2>2 DEF Comp
<1>4. ASSUME NEW c \in Comp
      PROVE  idle(c) \in Component /\ idle(c).child \notin {"alive", "zombie"}
  <2> HIDE DEF stopped
  <2>1. /\ StopRunning(stopped(c)) \in Component
        /\ StopRunning(stopped(c)).child \notin {"alive", "zombie"}
    BY <1>3, StopRunningFacts
  <2> QED BY <2>1, ForgetFacts
<1>5. ASSUME NEW c \in Comp
      PROVE  /\ ResetManager(idle(c)) \in Component
             /\ ResetManager(idle(c)).mgr = "Created"
             /\ ResetManager(idle(c)).child \notin {"alive", "zombie"}
  BY <1>4, ResetManagerFacts
<1>6. comp' = [c \in Comp |-> ResetManager(idle(c))]
  OBVIOUS
<1> HIDE DEF idle, stopped
<1>7. comp' \in [Comp -> Component] /\ \A c \in Comp : Quiet(c)'
  BY <1>5, <1>6 DEF Quiet, Unreaped
<1>8. TypeOK'
  BY <1>1, <1>2, <1>7 DEF SessionInv, TypeOK, PCs, Published, RecoveryStates, SessionStates, daemonVars
<1>9. ControlInv'
  BY <1>1, <1>2, <1>7 DEF ControlInv, StartingUp, OthersInOrder, CauseReplaced
<1>10. BeaconInv' /\ NoLeakedChild' /\ StateFileInv'
  BY <1>7 DEF SessionInv, BeaconInv, NoLeakedChild, StateFileInv, Quiet, Unreaped
<1>11. BudgetInv'
  BY <1>1 DEF SessionInv, BudgetInv
<1> QED BY <1>8, <1>9, <1>10, <1>11 DEF SessionInv
-----------------------------------------------------------------------------
(* Session::fail and Session::stop.                                        *)

\* stop_all inside Session::fail stops one child.
LEMMA FailStopsChildStep ==
  ASSUME SessionInv, NEW c \in Comp, FailStopsChild(c) PROVE SessionInv'
<1> DEFINE r == StopRunning(comp[c])
<1>1. /\ comp \in [Comp -> Component] /\ session = "FAILED"
      /\ \A x \in Comp : Supervised(x) \/ Lost(x) \/ Quiet(x)
      /\ comp["ldde"].mgr = "Running" => comp["weston"].mgr = "Running"
      /\ comp' = [comp EXCEPT ![c] = r]
      /\ comp[c].listed
  BY DEF FailStopsChild, SessionInv, TypeOK, ControlInv
<1>2. r \in Component /\ r.mgr = comp[c].mgr /\ r.child \notin {"alive", "zombie"}
  BY <1>1, StopRunningFacts
<1> HIDE DEF r
<1>3. comp' \in [Comp -> Component] /\ comp'[c] = r /\ \A x \in Comp \ {c} : comp'[x] = comp[x]
  BY <1>1, <1>2
<1>4. \A x \in Comp : Supervised(x)' \/ Lost(x)' \/ Quiet(x)'
  BY <1>1, <1>2, <1>3 DEF Supervised, Lost, Quiet, Unreaped
<1>5. comp'["ldde"].mgr = "Running" => comp'["weston"].mgr = "Running"
  BY <1>1, <1>2, <1>3 DEF Comp
<1>6. TypeOK'
  BY <1>3 DEF FailStopsChild, SessionInv, TypeOK, startVars, daemonVars, sessionVars, recoveryVars, passVars
<1>7. ControlInv'
  BY <1>1, <1>4, <1>5 DEF FailStopsChild, ControlInv, sessionVars
<1>8. BeaconInv'
  BY <1>1, <1>2, <1>3 DEF SessionInv, BeaconInv
<1>9. BudgetInv' /\ NoLeakedChild' /\ StateFileInv'
  BY DEF FailStopsChild, SessionInv, BudgetInv, NoLeakedChild, StateFileInv, sessionVars, recoveryVars
<1> QED BY <1>6, <1>7, <1>8, <1>9 DEF SessionInv

\* stop() of the managers that run, once the registry is cleared.
LEMMA StopIfRunningFacts ==
  ASSUME NEW c \in Comp, NEW r \in Component, r.mgr # "WaitingReady",
         (r.held /\ r.listed) \/ r.child \notin {"alive", "zombie"}
  PROVE  /\ StopIfRunning(c, r) \in Component
         /\ StopIfRunning(c, r).mgr \notin {"WaitingReady", "Running"}
         /\ r.mgr = "Running" \/ r.child \notin {"alive", "zombie"}
              => StopIfRunning(c, r).child \notin {"alive", "zombie"}
  BY StopManagerRunning DEF StopIfRunning

\* Removing the runtime directory takes the beacons and no child.
LEMMA RemoveFilesFacts ==
  ASSUME NEW r \in Component
  PROVE  /\ RemoveFiles(r) \in Component
         /\ RemoveFiles(r).mgr = r.mgr /\ RemoveFiles(r).child = r.child
  BY DEF RemoveFiles, Component, BeaconStates, Others

\* Session::fail ends with both managers stopped.
LEMMA FailDoneStep ==
  ASSUME SessionInv, FailDone PROVE SessionInv'
<1>1. /\ comp \in [Comp -> Component] /\ session = "FAILED" /\ session' = session
      /\ \A c \in Comp : Supervised(c) \/ Lost(c) \/ Quiet(c)
      /\ \A c \in Comp : ~(comp[c].listed /\ Unreaped(c))
      /\ comp' = [c \in Comp |-> RemoveFiles(StopIfRunning(c, Unlist(comp[c])))]
  BY DEF FailDone, SessionInv, TypeOK, ControlInv
<1>2. ASSUME NEW c \in Comp
      PROVE  /\ Unlist(comp[c]) \in Component /\ Unlist(comp[c]).mgr # "WaitingReady"
             /\ Unlist(comp[c]).child \notin {"alive", "zombie"}
  BY <1>1, ForgetFacts DEF Supervised, Lost, Quiet, Unreaped
<1>3. ASSUME NEW c \in Comp PROVE comp'[c] \in Component /\ Quiet(c)'
  <2>1. StopIfRunning(c, Unlist(comp[c])) \in Component
        /\ StopIfRunning(c, Unlist(comp[c])).mgr \notin {"WaitingReady", "Running"}
        /\ StopIfRunning(c, Unlist(comp[c])).child \notin {"alive", "zombie"}
    BY <1>2, StopIfRunningFacts
  <2> QED BY <1>1, <2>1, RemoveFilesFacts DEF Quiet, Unreaped
<1>4. TypeOK'
  BY <1>1, <1>3 DEF FailDone, PublishFailure, SessionInv, TypeOK, PCs, Published,
     startVars, daemonVars, recoveryVars, passVars
<1>5. ControlInv'
  BY <1>1, <1>3 DEF FailDone, ControlInv, GivenUp
<1>6. BeaconInv'
  BY <1>3 DEF BeaconInv, Quiet, Unreaped
<1>7. BudgetInv' /\ NoLeakedChild' /\ StateFileInv'
  BY <1>1 DEF FailDone, PublishFailure, SessionInv, BudgetInv, NoLeakedChild, StateFileInv, recoveryVars
<1> QED BY <1>4, <1>5, <1>6, <1>7 DEF SessionInv

\* Shutdown stops LDDE, then Weston.
LEMMA ShutComponentSteps ==
  ASSUME SessionInv, NEW c \in Comp,
         (c = "ldde" /\ ShutDesktop) \/ (c = "weston" /\ ShutCompositor)
  PROVE  SessionInv'
<1> DEFINE r == StopIfRunning(c, comp[c])
<1>1. /\ comp \in [Comp -> Component]
      /\ comp' = [comp EXCEPT ![c] = r]
      /\ c = "ldde" => pc' = "stopCompositor"
      /\ c = "weston" => pc' = "stopRest" /\ Quiet("ldde")
      /\ \A x \in Comp : Supervised(x) \/ Quiet(x)
  BY DEF ShutDesktop, ShutCompositor, ShutComponent, SessionInv, TypeOK, ControlInv, Operational, GivenUp, Comp
<1>2. /\ r \in Component /\ r.mgr \notin {"WaitingReady", "Running"}
      /\ r.child \notin {"alive", "zombie"}
  BY <1>1, StopIfRunningFacts DEF Supervised, Quiet, Unreaped
<1> HIDE DEF r
<1>3. comp' \in [Comp -> Component] /\ comp'[c] = r /\ \A x \in Comp \ {c} : comp'[x] = comp[x]
  BY <1>1, <1>2
<1>4. Quiet(c)' /\ \A x \in Comp \ {c} : Quiet(x)' = Quiet(x) /\ Supervised(x)' = Supervised(x)
  BY <1>2, <1>3, <1>1 DEF Quiet, Supervised, Unreaped
<1>5. TypeOK'
  BY <1>1, <1>3 DEF ShutDesktop, ShutCompositor, ShutComponent, SessionInv, TypeOK, PCs,
     startVars, daemonVars, sessionVars, recoveryVars, passVars
<1>6. ControlInv'
  BY <1>1, <1>4 DEF ControlInv, Comp
<1>7. BeaconInv'
  BY <1>1, <1>2, <1>3 DEF SessionInv, BeaconInv
<1>8. BudgetInv' /\ NoLeakedChild' /\ StateFileInv'
  BY <1>1 DEF ShutDesktop, ShutCompositor, ShutComponent, SessionInv, BudgetInv, NoLeakedChild,
     StateFileInv, sessionVars, recoveryVars
<1> QED BY <1>5, <1>6, <1>7, <1>8 DEF SessionInv

\* Shutdown ends with nothing left.
LEMMA ShutRestStep ==
  ASSUME SessionInv, ShutRest PROVE SessionInv'
<1>1. /\ comp \in [Comp -> Component] /\ \A c \in Comp : Quiet(c)
      /\ comp' = [c \in Comp |-> RemoveFiles(Unlist(StopRunning(comp[c])))]
  BY DEF ShutRest, SessionInv, TypeOK, ControlInv
<1>2. ASSUME NEW c \in Comp PROVE comp'[c] \in Component /\ Quiet(c)'
  <2>1. StopRunning(comp[c]) = comp[c]
    BY <1>1 DEF StopRunning, Quiet, Unreaped
  <2>2. Unlist(comp[c]) \in Component /\ Unlist(comp[c]).mgr = comp[c].mgr
        /\ Unlist(comp[c]).child = comp[c].child
    BY <1>1, ForgetFacts
  <2> QED BY <1>1, <2>1, <2>2, RemoveFilesFacts DEF Quiet, Unreaped
<1>3. session' \in SessionStates /\ lifecycle' \in LifecycleStates
  <2>1. "STOPPED" \in SessionStates /\ "STOPPED" \in LifecycleStates
    BY DEF SessionStates, LifecycleStates
  <2> QED BY <2>1, SessionMoveType, LifecycleMoveType DEF ShutRest, Exit, SessionInv, TypeOK
<1>4. TypeOK'
  BY <1>1, <1>2, <1>3 DEF ShutRest, Exit, SessionInv, TypeOK, PCs, startVars, recoveryVars, passVars
<1>5. ControlInv'
  BY <1>2 DEF ShutRest, Exit, ControlInv
<1>6. BeaconInv'
  BY <1>2 DEF BeaconInv, Quiet, Unreaped
<1>7. session' = "FAILED" \/ session # "FAILED"
  BY SessionMoves DEF ShutRest, SessionMove, SessionCan, SessionEdges
<1>8. BudgetInv' /\ NoLeakedChild' /\ StateFileInv'
  BY <1>7 DEF ShutRest, Exit, SessionInv, BudgetInv, NoLeakedChild, StateFileInv, recoveryVars
<1> QED BY <1>4, <1>5, <1>6, <1>8 DEF SessionInv

-----------------------------------------------------------------------------
(* The environment: children crash and announce themselves at any point.   *)

\* The children's own steps: an announcement or a death.
LEMMA ChildSteps ==
  ASSUME SessionInv, NEW c \in Comp, Crash(c) \/ Announce(c) PROVE SessionInv'
<1>1. comp \in [Comp -> Component]
  BY DEF SessionInv, TypeOK
<1> DEFINE redrawn(ch, b) == [comp[c] EXCEPT !.child = ch, !.beacon = b]
<1>a. comp[c].child = "alive"
  BY DEF Crash, Announce
<1>2. \E ch \in {"alive", "zombie"}, b \in BeaconStates :
           /\ comp' = [comp EXCEPT ![c] = redrawn(ch, b)]
           /\ ch = "alive" => b # "stale" /\ (comp[c].mgr = "Running" => b = "good" \/ (c = "weston" /\ b \in Others))
  <2>1. CASE Crash(c)
    <3> DEFINE b == IF comp[c].beacon = "good" THEN "stale" ELSE comp[c].beacon
    <3>1. b \in BeaconStates
      BY <1>1 DEF Component, BeaconStates, Others
    <3>2. comp' = [comp EXCEPT ![c] = redrawn("zombie", b)]
      BY <2>1, <1>1 DEF Crash, Component
    <3> HIDE DEF redrawn, b
    <3> QED BY <3>1, <3>2
  <2>2. CASE Announce(c)
    <3>1. PICK b \in (IF c = "ldde" THEN {"good", "bad"} ELSE {"good"}) :
               comp' = [comp EXCEPT ![c].beacon = b]
      BY <2>2 DEF Announce
    <3>2. /\ comp[c].child = "alive"
          /\ comp[c].mgr = "Running" => b = "good"
      BY <2>2, <3>1 DEF Announce, SessionInv, BeaconInv
    <3>3. comp' = [comp EXCEPT ![c] = redrawn("alive", b)]
      BY <3>1, <3>2, <1>1 DEF Component
    <3>4. b \in BeaconStates /\ b # "stale"
      BY DEF BeaconStates, Others
    <3> HIDE DEF redrawn
    <3> QED BY <3>2, <3>3, <3>4
  <2> HIDE DEF redrawn
  <2> QED BY <2>1, <2>2
<1> HIDE DEF redrawn
<1>3. PICK ch \in {"alive", "zombie"}, b \in BeaconStates :
           /\ comp' = [comp EXCEPT ![c] = redrawn(ch, b)]
           /\ ch = "alive" => b # "stale" /\ (comp[c].mgr = "Running" => b = "good" \/ (c = "weston" /\ b \in Others))
  BY <1>2
<1>b. /\ redrawn(ch, b) \in Component
      /\ redrawn(ch, b).mgr = comp[c].mgr /\ redrawn(ch, b).held = comp[c].held
      /\ redrawn(ch, b).listed = comp[c].listed /\ redrawn(ch, b).reported = comp[c].reported
      /\ redrawn(ch, b).child = ch /\ redrawn(ch, b).beacon = b
  BY <1>1 DEF redrawn, Component, ChildStates
<1>4. /\ comp' \in [Comp -> Component] /\ comp'[c] = redrawn(ch, b)
      /\ \A x \in Comp \ {c} : comp'[x] = comp[x]
  BY <1>1, <1>3, <1>b
<1>5. \A x \in Comp : /\ Unreaped(x)' = Unreaped(x) /\ Supervised(x)' = Supervised(x)
                      /\ Lost(x)' = Lost(x) /\ Quiet(x)' = Quiet(x)
                      /\ comp'[x].mgr = comp[x].mgr
  BY <1>1, <1>a, <1>b, <1>4 DEF Supervised, Lost, Quiet, Unreaped
<1>6. UNCHANGED <<pc, op, target, lifecycle, sigterm, session, published, closing, leaked,
                  recovery, attempts, cause, snap, stale, forgot>>
  BY DEF Crash, Announce, startVars, daemonVars, sessionVars, recoveryVars, passVars
<1>7. TypeOK'
  BY <1>4, <1>6 DEF SessionInv, TypeOK
<1>8. Awaited(target)' = Awaited(target)
  BY <1>1, <1>a, <1>b, <1>4, <1>6 DEF SessionInv, TypeOK, Awaited, Unreaped
<1>9. ControlInv'
  BY <1>5, <1>6, <1>8 DEF SessionInv, TypeOK, ControlInv, StartingUp, OthersInOrder, CauseReplaced,
     Operational, GivenUp, PreviouslyRunning, Comp
<1>10. BeaconInv'
  BY <1>1, <1>3, <1>b, <1>4 DEF SessionInv, BeaconInv
<1>11. BudgetInv' /\ NoLeakedChild' /\ StateFileInv'
  BY <1>6 DEF SessionInv, BudgetInv, NoLeakedChild, StateFileInv
<1> QED BY <1>7, <1>9, <1>10, <1>11 DEF SessionInv

\* The other server's death changes what a connection to its socket gets.
LEMMA ForeignDiesStep ==
  ASSUME SessionInv, ForeignDies PROVE SessionInv'
<1>1. comp \in [Comp -> Component] /\ "weston" \in Comp
  BY DEF SessionInv, TypeOK, Comp
<1>2. /\ comp["weston"].beacon = "foreign"
      /\ comp'["weston"] = [comp["weston"] EXCEPT !.beacon = "vacated"]
      /\ \A c \in Comp \ {"weston"} : comp'[c] = comp[c]
  BY <1>1 DEF ForeignDies
<1>3. comp' \in [Comp -> Component]
  BY <1>1 DEF ForeignDies, Component, BeaconStates, Others
<1>4. UNCHANGED <<pc, op, target, lifecycle, sigterm, session, published, closing, leaked,
                  recovery, attempts, cause, snap, stale, forgot>>
  BY DEF ForeignDies, startVars, daemonVars, sessionVars, recoveryVars, passVars
<1>5. \A x \in Comp : /\ Unreaped(x)' = Unreaped(x) /\ Supervised(x)' = Supervised(x)
                      /\ Lost(x)' = Lost(x) /\ Quiet(x)' = Quiet(x)
                      /\ Awaited(x)' = Awaited(x) /\ comp'[x].mgr = comp[x].mgr
  BY <1>1, <1>2, <1>4 DEF Supervised, Lost, Quiet, Awaited, Unreaped, Component
<1>6. TypeOK'
  BY <1>3, <1>4 DEF SessionInv, TypeOK
<1>7. ControlInv'
  BY <1>4, <1>5 DEF SessionInv, TypeOK, ControlInv, StartingUp, OthersInOrder, CauseReplaced,
     Operational, GivenUp, PreviouslyRunning, Comp
<1>8. BeaconInv'
  BY <1>1, <1>2 DEF SessionInv, BeaconInv, Component, Others
<1>9. BudgetInv' /\ NoLeakedChild' /\ StateFileInv'
  BY <1>4 DEF SessionInv, BudgetInv, NoLeakedChild, StateFileInv
<1> QED BY <1>6, <1>7, <1>8, <1>9 DEF SessionInv

-----------------------------------------------------------------------------
(* The theorems.                                                           *)

\* The invariant holds of every behaviour, for every recovery configuration.
THEOREM SessionInvariant == Spec => []SessionInv
<1>1. Init => SessionInv
  <2> SUFFICES ASSUME Init PROVE SessionInv
    OBVIOUS
  <2> USE DEF Init
  <2>0. comp \in [Comp -> {[mgr |-> "Created", held |-> FALSE, child |-> "none",
                           listed |-> FALSE, reported |-> FALSE, beacon |-> b] :
                            b \in {"absent", "stale", "foreign"}}]
    OBVIOUS
  <2>1. \A c \in Comp : /\ comp[c] \in Component
                        /\ comp[c].mgr = "Created" /\ comp[c].child = "none"
    <3> TAKE c \in Comp
    <3>1. PICK b \in {"absent", "stale", "foreign"} :
            comp[c] = [mgr |-> "Created", held |-> FALSE, child |-> "none",
                       listed |-> FALSE, reported |-> FALSE, beacon |-> b]
      BY ONLY <2>0
    <3> QED BY ONLY <3>1 DEF Component, ManagerStates, ChildStates, BeaconStates, Others
  <2>2. comp \in [Comp -> Component]
    BY ONLY <2>0, <2>1
  <2>a. target \in Comp /\ cause \in Comp /\ attempts \in 0..(MaxAttempts + 1)
    BY ConfigAssumption DEF Comp
  <2>3. TypeOK
    BY <2>2, <2>a DEF TypeOK, PCs, LifecycleStates, SessionStates, Published, RecoveryStates
  <2>4. ControlInv
    BY <2>1 DEF ControlInv, Quiet, Unreaped
  <2>5. BeaconInv /\ BudgetInv /\ NoLeakedChild /\ StateFileInv
    BY <2>1, ConfigAssumption DEF BeaconInv, BudgetInv, NoLeakedChild, StateFileInv
  <2> QED BY <2>3, <2>4, <2>5 DEF SessionInv
<1>2. SessionInv /\ [Next]_vars => SessionInv'
  <2> SUFFICES ASSUME SessionInv, [Next]_vars PROVE SessionInv'
    OBVIOUS
  <2>1. CASE DaemonStep
    BY <2>1, BootSteps, InitializeFailsStep, SpawnComponentStep, StartFailsStep,
       CompositorReadyStep, DesktopReadyStep, RollbackStep, ReapSteps, DeliverStep, ReapExitStep,
       FailStopsChildStep, RecoveryGivesUp, RecoveryGoesOn, RestartDesktopStep, QuiesceDesktopStep,
       RestartCompositorStep, RestartSessionStep, FailDoneStep, OtherSteps, ShutComponentSteps,
       ShutRestStep DEF DaemonStep, Comp
  <2>2. CASE EnvironmentStep
    BY <2>2, OtherSteps, ChildSteps, ForeignDiesStep DEF EnvironmentStep
  <2>3. CASE Exited \/ UNCHANGED vars
    BY <2>3, OtherSteps DEF Exited
  <2> QED BY <2>1, <2>2, <2>3 DEF Next
<1> QED BY <1>1, <1>2, PTL DEF Spec

\* Type correctness.
THEOREM TypeCorrect == Spec => []TypeOK
  BY SessionInvariant, PTL DEF SessionInv

\* No path of the daemon starts a child over one that is not reaped.
THEOREM NoChildLeaks == Spec => []NoLeakedChild
  BY SessionInvariant, PTL DEF SessionInv

\* Whichever way main() returns, no child is left.
THEOREM NothingIsLeftBehind == Spec => []NothingOutlivesDaemon
<1>1. SessionInv => NothingOutlivesDaemon
  BY DEF SessionInv, ControlInv, NothingOutlivesDaemon, Quiet
<1> QED BY <1>1, SessionInvariant, PTL

\* A failed session keeps no child while the daemon waits for its signal.
THEOREM FailedIsQuiet == Spec => []FailedMeansQuiet
<1>1. SessionInv => FailedMeansQuiet
  BY DEF SessionInv, ControlInv, FailedMeansQuiet, Operational, GivenUp, Quiet
<1> QED BY <1>1, SessionInvariant, PTL

\* A RUNNING session is supervised completely.
THEOREM RunningIsSupervised == Spec => []RunningMeansSupervised
<1>1. SessionInv => RunningMeansSupervised
  BY DEF SessionInv, ControlInv, RunningMeansSupervised, Operational, GivenUp, Supervised
<1> QED BY <1>1, SessionInvariant, PTL

\* LDDE is awaited or runs only under a running compositor.
THEOREM DesktopHasCompositor == Spec => []DesktopNeedsCompositor
<1>1. SessionInv => DesktopNeedsCompositor
  <2> SUFFICES ASSUME SessionInv PROVE DesktopNeedsCompositor
    OBVIOUS
  <2>1. pc \in PCs /\ target \in Comp
    BY DEF SessionInv, TypeOK
  <2> QED BY <2>1 DEF SessionInv, ControlInv, DesktopNeedsCompositor, PCs, Operational, GivenUp, OthersInOrder,
       PreviouslyRunning, Supervised, Lost, Quiet, Awaited, Comp
<1> QED BY <1>1, SessionInvariant, PTL

-----------------------------------------------------------------------------
(* Another server's socket: no step of the daemon brings one, and the      *)
(* first recovery of Weston removes it.                                    *)

\* What the supervisor and the managers do to a beacon.
LEMMA BeaconsKept ==
  ASSUME NEW r \in Component, NEW c \in Comp
  PROVE  /\ StopRunning(r).beacon \in {r.beacon, "stale"}
         /\ StopManager(c, r) \in Component /\ StopManager(c, r).beacon \in {r.beacon, "absent"}
         /\ StopIfRunning(c, r).beacon \in {r.beacon, "absent"}
         /\ FailReadiness(c, r).beacon = "absent"
         /\ ResetManager(r).beacon = "absent"
<1> DEFINE m1 == ManagerMove(c, r.mgr, "Stopping")
           m2 == ManagerMove(c, m1, "Stopped")
<1>1. m2 \in ManagerStates
  BY ManagerMoveTargets DEF Component, ManagerStates
<1>2. StopHeld(r) \in Component /\ StopHeld(r).mgr = r.mgr /\ StopHeld(r).beacon = r.beacon
  BY StopHeldFacts, StopChildFacts DEF StopHeld
<1>3. /\ StopManager(c, r) \in Component /\ StopManager(c, r).beacon \in {r.beacon, "absent"}
  <2>1. CASE r.mgr \in {"Stopped", "Stopping"}
    BY <2>1 DEF StopManager
  <2>2. CASE r.mgr \notin {"Stopped", "Stopping"}
    <3>1. StopManager(c, r) = [StopHeld(r) EXCEPT !.mgr = m2, !.held = FALSE, !.beacon = "absent"]
      BY <2>2, <1>2 DEF StopManager
    <3> HIDE DEF m2
    <3> QED BY <3>1, <1>1, <1>2 DEF Component, BeaconStates, Others
  <2> QED BY <2>1, <2>2
<1>4. StopRunning(r).beacon \in {r.beacon, "stale"}
  BY StopChildFacts DEF StopRunning, Component
<1>5. FailReadiness(c, r).beacon = "absent" /\ ResetManager(r).beacon = "absent"
  BY <1>2 DEF FailReadiness, ResetManager, Component
<1> QED BY <1>3, <1>4, <1>5 DEF StopIfRunning

\* Only the start finds a socket of another server.
LEMMA OthersAreOld ==
  ASSUME SessionInv, [Next]_vars, comp'["weston"].beacon \in Others
  PROVE  comp["weston"].beacon \in Others
<1> DEFINE w == comp["weston"]
<1>1. /\ comp \in [Comp -> Component] /\ "weston" \in Comp /\ w \in Component
      /\ target \in Comp
  BY DEF SessionInv, TypeOK, Comp
<1>2. "absent" \notin Others /\ "good" \notin Others /\ "bad" \notin Others /\ "stale" \notin Others
  BY DEF Others
<1>3. ASSUME UNCHANGED comp PROVE comp["weston"].beacon \in Others
  BY <1>3
<1>5. CASE DaemonStep
  <2>1. CASE Boot \/ BootEnds \/ InitializeSession \/ StartSession \/ BeginReap \/ ReapDone
             \/ (\E c \in Comp : ReapSkip(c)) \/ RecoveryRefused \/ RecoveryExhausted
             \/ RecoveryAdmitted \/ RecoverySucceeds \/ RecoveryFails \/ BeginShutdown
    <3>1. CASE Boot \/ BootEnds \/ InitializeSession \/ StartSession
      BY <3>1, <1>3 DEF Boot, BootEnds, InitializeSession, StartSession, childVars
    <3>2. CASE BeginReap \/ ReapDone \/ (\E c \in Comp : ReapSkip(c)) \/ BeginShutdown
      <4>1. UNCHANGED childVars
        BY <3>2 DEF BeginReap, ReapDone, ReapSkip, BeginShutdown
      <4> QED BY <4>1, <1>3 DEF childVars
    <3>3. CASE RecoveryRefused \/ RecoveryExhausted \/ RecoveryFails
      BY <3>3, <1>3 DEF RecoveryRefused, RecoveryExhausted, RecoveryFails
    <3>4. CASE RecoveryAdmitted \/ RecoverySucceeds
      BY <3>4, <1>3 DEF RecoveryAdmitted, RecoverySucceeds, childVars
    <3> QED BY <2>1, <3>1, <3>2, <3>3, <3>4
  <2>2. CASE InitializeFails \/ Deliver
    BY <2>2, <1>1 DEF InitializeFails, Deliver, Component
  <2>3. CASE SpawnComponent
    BY <2>3, <1>1, <1>2 DEF SpawnComponent, PreparedBeacon, Others
  <2>4. CASE SpawnFails
    BY <2>4, <1>1 DEF SpawnFails, Component
  <2>5. CASE CompositorReady
    BY <2>5, <1>1 DEF CompositorReady, Component, Comp
  <2>6. CASE DesktopReady
    BY <2>6, <1>1 DEF DesktopReady, Component, Comp
  <2>7. CASE ReadinessFails
    BY <2>7, <1>1, <1>2, BeaconsKept DEF ReadinessFails
  <2>8. CASE Rollback
    BY <2>8, <1>1, <1>2, BeaconsKept DEF Rollback
  <2>9. CASE (\E c \in Comp : ReapExit(c))
    BY <2>9, <1>1 DEF ReapExit, Reap, Component
  <2>10. CASE (\E c \in Comp : FailStopsChild(c))
    <3>1. PICK c \in Comp : comp' = [comp EXCEPT ![c] = StopRunning(@)]
      BY <2>10 DEF FailStopsChild
    <3>2. comp'["weston"].beacon \in {w.beacon, StopRunning(w).beacon}
      BY <3>1, <1>1
    <3> QED BY <3>2, <1>1, <1>2, BeaconsKept
  <2>11. CASE RestartDesktop \/ QuiesceDesktop
    BY <2>11, <1>1 DEF RestartDesktop, QuiesceDesktop, Comp
  <2>12. CASE RestartCompositor
    BY <2>12, <1>1, <1>2, BeaconsKept DEF RestartCompositor
  <2>13. CASE RestartSession
    <3> DEFINE stopped == StopManager("weston", w)
               forgotten == Forget(StopRunning(stopped))
    <3>1. comp'["weston"] = ResetManager(forgotten)
      BY <2>13, <1>1 DEF RestartSession
    <3>2. stopped \in Component
      BY <1>1, BeaconsKept
    <3>3. StopRunning(stopped) \in Component
      BY <3>2, StopRunningFacts
    <3>4. forgotten \in Component
      BY <3>3 DEF Forget, Component
    <3> HIDE DEF forgotten
    <3> QED BY <3>1, <3>4, <1>1, <1>2, BeaconsKept
  <2>14. CASE FailDone \/ ShutRest
    <3>1. PICK r : comp'["weston"] = [r EXCEPT !.beacon = "absent"] /\ r \in Component
      <4>1. Unlist(w) \in Component /\ StopIfRunning("weston", Unlist(w)) \in Component
        <5>1. Unlist(w) \in Component
          BY <1>1 DEF Unlist, Component
        <5> QED BY <1>1, <5>1, BeaconsKept DEF StopIfRunning
      <4>2. StopRunning(w) \in Component /\ Unlist(StopRunning(w)) \in Component
        BY <1>1, StopRunningFacts DEF Unlist, Component
      <4> QED BY <2>14, <4>1, <4>2, <1>1 DEF FailDone, ShutRest, RemoveFiles
    <3> QED BY <3>1, <1>2 DEF Component
  <2>15. CASE ShutDesktop \/ ShutCompositor
    BY <2>15, <1>1, <1>2, BeaconsKept DEF ShutDesktop, ShutCompositor, ShutComponent, Comp
  <2> QED BY <1>5, <2>1, <2>2, <2>3, <2>4, <2>5, <2>6, <2>7, <2>8, <2>9, <2>10, <2>11, <2>12,
             <2>13, <2>14, <2>15 DEF DaemonStep
<1>6. CASE EnvironmentStep
  <2>1. CASE Sigterm
    BY <2>1, <1>3 DEF Sigterm, childVars
  <2>2. CASE ForeignDies
    BY <2>2, <1>1 DEF ForeignDies, Others
  <2>3. ASSUME NEW c \in Comp, Crash(c) PROVE comp["weston"].beacon \in Others
    BY <2>3, <1>1, <1>2 DEF Crash, Component
  <2>4. ASSUME NEW c \in Comp, Announce(c) PROVE comp["weston"].beacon \in Others
    BY <2>4, <1>1, <1>2 DEF Announce, Component, Comp
  <2> QED BY <1>6, <2>1, <2>2, <2>3, <2>4 DEF EnvironmentStep
<1>7. CASE Exited \/ UNCHANGED vars
  BY <1>7, <1>3 DEF Exited, vars, childVars
<1> QED BY <1>5, <1>6, <1>7 DEF Next

\* A restart of Weston leaves no socket to find.
LEMMA RestartTakesSocket ==
  ASSUME SessionInv, RestartCompositor \/ RestartSession
  PROVE  comp'["weston"].beacon = "absent"
<1> DEFINE stopped == StopManager("weston", comp["weston"])
           forgotten == Forget(StopRunning(stopped))
<1>1. comp \in [Comp -> Component] /\ "weston" \in Comp
  BY DEF SessionInv, TypeOK, Comp
<1>2. stopped \in Component
  BY <1>1, BeaconsKept
<1>3. forgotten \in Component
  BY <1>2, StopRunningFacts DEF Forget, Component
<1>4. comp'["weston"] \in {ResetManager(stopped), ResetManager(forgotten)}
  BY <1>1 DEF RestartCompositor, RestartSession
<1> HIDE DEF stopped, forgotten
<1> QED BY <1>1, <1>2, <1>3, <1>4, BeaconsKept

\* Every step keeps another server's socket to the time before that.
LEMMA OthersStep == ASSUME SessionInv, OthersInv, [Next]_vars PROVE OthersInv'
<1> SUFFICES ASSUME comp'["weston"].beacon \in Others PROVE OthersInv'
  BY DEF OthersInv
<1>1. comp["weston"].beacon \in Others
  BY OthersAreOld
<1>2. CASE DaemonStep
  <2>1. CASE Boot \/ BootEnds \/ InitializeSession \/ InitializeFails \/ StartSession
    BY <2>1, <1>1 DEF OthersInv, SessionInv, ControlInv, Boot, BootEnds, InitializeSession,
       InitializeFails, StartSession, Abort, Exit, startVars, passVars
  <2>2. CASE SpawnComponent \/ SpawnFails \/ CompositorReady \/ DesktopReady \/ ReadinessFails \/ Rollback
    BY <2>2, <1>1 DEF OthersInv, SessionInv, ControlInv, SpawnComponent, SpawnFails, CompositorReady,
       DesktopReady, ReadinessFails, Rollback, StartFailed, Abort, startVars, passVars
  <2>3. CASE BeginReap \/ ReapDone \/ Deliver \/ (\E c \in Comp : ReapSkip(c) \/ ReapExit(c) \/ FailStopsChild(c))
    BY <2>3, <1>1 DEF OthersInv, BeginReap, ReapDone, Deliver, ReapSkip, ReapExit, FailStopsChild,
       startVars, passVars
  <2>4. CASE RecoveryRefused \/ RecoveryExhausted \/ RecoveryAdmitted \/ RecoverySucceeds \/ RecoveryFails
    BY <2>4, <1>1 DEF OthersInv, SessionInv, ControlInv, RecoveryRefused, RecoveryExhausted,
       RecoveryAdmitted, RecoverySucceeds, RecoveryFails, FailSession, Policy, startVars, passVars
  <2>5. CASE RestartDesktop \/ QuiesceDesktop
    BY <2>5, <1>1 DEF OthersInv, SessionInv, ControlInv, RestartDesktop, QuiesceDesktop, startVars, passVars
  <2>6. CASE RestartCompositor \/ RestartSession
    BY <2>6, RestartTakesSocket DEF Others
  <2>7. CASE FailDone \/ BeginShutdown \/ ShutDesktop \/ ShutCompositor \/ ShutRest
    BY <2>7, <1>1 DEF OthersInv, FailDone, BeginShutdown, ShutDesktop, ShutCompositor, ShutComponent,
       ShutRest, Exit, startVars, passVars
  <2> QED BY <1>2, <2>1, <2>2, <2>3, <2>4, <2>5, <2>6, <2>7 DEF DaemonStep
<1>3. CASE EnvironmentStep \/ Exited \/ UNCHANGED vars
  BY <1>1, <1>3 DEF OthersInv, EnvironmentStep, Sigterm, ForeignDies, Crash, Announce, Exited, vars,
     startVars, passVars
<1> QED BY <1>2, <1>3 DEF Next

\* Another server's socket is found by the first Weston only.
LEMMA OthersInvariant == Spec => []OthersInv
<1>1. Init => OthersInv
  BY DEF Init, OthersInv
<1> QED BY <1>1, OthersStep, SessionInvariant, PTL DEF Spec

\* Readiness is never judged by what an earlier process left, and by another
\* server's socket only until recovery restarts Weston.
THEOREM ReadinessFresh == Spec => []ReadinessIsFresh
<1>1. SessionInv /\ OthersInv => ReadinessIsFresh
  BY DEF SessionInv, BeaconInv, OthersInv, ReadinessIsFresh
<1> QED BY <1>1, SessionInvariant, OthersInvariant, PTL

-----------------------------------------------------------------------------

\* The state file tells the truth between two passes.
THEOREM StateFileTrue == Spec => []StateFileIsTrue
<1>1. SessionInv => StateFileIsTrue
  BY DEF SessionInv, StateFileInv, StateFileIsTrue
<1> QED BY <1>1, SessionInvariant, PTL

-----------------------------------------------------------------------------
(***************************************************************************)
(* The daemon never stops Weston under a live LDDE, outside Session::fail  *)
(* without component restarts; and with component restarts recovery only   *)
(* starts from an unexpected exit.  The second fact is needed for the      *)
(* first: it says which component is gone when Session::fail begins.       *)
(***************************************************************************)

(* Strengthening.  With component restarts no session restart ever forgets *)
(* the exits reported, so that what recovery is called for is gone; and    *)
(* when Session::fail begins, one of the two is, or LDDE alone was         *)
(* restarted.                                                              *)
UnexpectedInv ==
  AllowComponentRestart =>
    /\ op # "session" /\ ~forgot
    /\ pc = "recover" => cause \notin stale /\ Lost(cause)
    /\ pc = "failing" => stale = {"ldde"} \/ \E c \in Comp : comp[c].child # "alive"

-----------------------------------------------------------------------------
\* A step that changes neither the pass nor the cause, and does not enter
\* recovery or failure.
LEMMA UnexpectedElsewhere ==
  ASSUME UnexpectedInv, UNCHANGED config, op' = op \/ op' # "session",
         forgot' \in {forgot, FALSE}, pc' \notin {"recover", "failing"}
  PROVE  UnexpectedInv'
  BY DEF UnexpectedInv, AllowComponentRestart

\* A component restart never becomes a session restart.
LEMMA UnexpectedAdmitted ==
  ASSUME UnexpectedInv, UNCHANGED config, RecoveryAdmitted
  PROVE  UnexpectedInv'
  BY DEF UnexpectedInv, AllowComponentRestart, RecoveryAdmitted, Policy, passVars

\* The exit that recovery is called for was reaped, and not a stale copy's.
LEMMA UnexpectedExit ==
  ASSUME SessionInv, UnexpectedInv, UNCHANGED config, NEW c \in Comp, ReapExit(c)
  PROVE  UnexpectedInv'
<1> SUFFICES ASSUME AllowComponentRestart', pc' = "recover"
             PROVE  cause' \notin stale' /\ Lost(cause)'
  BY DEF UnexpectedInv, AllowComponentRestart, ReapExit, startVars
<1>1. /\ comp \in [Comp -> Component] /\ comp[c].mgr = "Running"
      /\ AllowComponentRestart /\ ~forgot
  BY DEF SessionInv, TypeOK, ControlInv, ReapExit, Recoverable, Operational, GivenUp, Supervised,
     AllowComponentRestart, UnexpectedInv
<1>2. c \notin stale /\ cause' = c /\ stale' = stale
  BY <1>1 DEF ReapExit, Reports
<1> DEFINE r == [Reap(comp[c]) EXCEPT !.reported = TRUE]
<1>3. r.mgr = comp[c].mgr /\ r.child \notin {"alive", "zombie"}
  BY ONLY <1>1 DEF Reap, Component, ChildStates
<1>4. comp' = [comp EXCEPT ![c] = r]
  BY <1>2 DEF ReapExit
<1> HIDE DEF r
<1>5. comp'[c] = r
  BY <1>1, <1>4
<1> QED BY <1>1, <1>2, <1>3, <1>5 DEF Lost, Unreaped

\* Session::fail begins with LDDE quiet, or with one of the two lost, or with
\* Weston's server dead that was another's.
LEMMA UnexpectedFailure ==
  ASSUME SessionInv, OthersInv, UnexpectedInv, UNCHANGED config,
         RecoveryRefused \/ RecoveryExhausted \/ RecoveryFails
  PROVE  UnexpectedInv'
<1> USE DEF RecoveryRefused, RecoveryExhausted, RecoveryFails, FailSession
<1> SUFFICES ASSUME AllowComponentRestart
             PROVE  stale = {"ldde"} \/ \E c \in Comp : comp[c].child # "alive"
  BY DEF UnexpectedInv, AllowComponentRestart, startVars, passVars
<1>1. cause \in Comp /\ "ldde" \in Comp /\ "weston" \in Comp
  BY DEF SessionInv, TypeOK, Comp
<1>2. CASE pc = "recover"
  BY <1>1, <1>2 DEF UnexpectedInv, Lost, Unreaped
<1>3. CASE pc = "recoveryFailed"
  BY <1>1, <1>3 DEF SessionInv, ControlInv, Quiet, Unreaped
<1>4. CASE pc = "verify" /\ ~Verified
  <2> SUFFICES ASSUME comp["weston"].child = "alive" PROVE stale = {"ldde"}
    BY <1>1
  <2>1. op # "boot" /\ cause \in stale /\ \A c \in Comp : comp[c].mgr = "Running"
    BY <1>4 DEF SessionInv, ControlInv, Operational, Supervised
  <2>2. comp["weston"].beacon \in Others
    BY <1>1, <1>4, <2>1 DEF SessionInv, BeaconInv, Verified, CompositorUsable, Connectable
  <2>3. "weston" \notin stale
    BY <2>1, <2>2 DEF OthersInv
  <2> QED BY <2>1, <2>3 DEF SessionInv, TypeOK, Comp
<1> QED BY <1>2, <1>3, <1>4

\* A child in the middle of Session::fail does not come back to life.
LEMMA UnexpectedStop ==
  ASSUME SessionInv, UnexpectedInv, UNCHANGED config, NEW d \in Comp, FailStopsChild(d)
  PROVE  UnexpectedInv'
<1> SUFFICES ASSUME AllowComponentRestart
             PROVE  stale = {"ldde"} \/ \E c \in Comp : comp'[c].child # "alive"
  BY DEF UnexpectedInv, AllowComponentRestart, FailStopsChild, startVars, passVars
<1>1. /\ comp \in [Comp -> Component]
      /\ comp' = [comp EXCEPT ![d] = StopRunning(@)] /\ comp[d].listed
  BY DEF SessionInv, TypeOK, FailStopsChild
<1>2. comp'[d] = StopRunning(comp[d]) /\ StopRunning(comp[d]).child # "alive"
  BY <1>1, StopRunningFacts
<1> QED BY <1>2

\* The environment: children die, none comes back.
LEMMA UnexpectedEnvironment ==
  ASSUME SessionInv, UnexpectedInv, UNCHANGED config,
         Sigterm \/ ForeignDies \/ \E c \in Comp : Crash(c) \/ Announce(c)
  PROVE  UnexpectedInv'
<1> USE DEF Sigterm, ForeignDies, Crash, Announce
<1>1. /\ comp \in [Comp -> Component] /\ cause \in Comp
      /\ UNCHANGED <<pc, op, forgot, cause, stale>>
  BY DEF SessionInv, TypeOK, startVars, recoveryVars, passVars
<1>2. ASSUME NEW c \in Comp
      PROVE  /\ comp'[c].mgr = comp[c].mgr
             /\ (comp'[c].child \in {"alive", "zombie"}) <=> (comp[c].child \in {"alive", "zombie"})
             /\ comp[c].child # "alive" => comp'[c].child # "alive"
  <2>1. CASE Sigterm
    BY <2>1 DEF childVars
  <2>2. ASSUME NEW d \in Comp, Crash(d) PROVE <1>2!2
    <3>1. \A x \in Comp \ {d} : comp'[x] = comp[x]
      BY <1>1, <2>2
    <3>2. comp[d].child = "alive" /\ comp'[d].child = "zombie" /\ comp'[d].mgr = comp[d].mgr
      BY <1>1, <2>2 DEF Component
    <3> QED BY <3>1, <3>2
  <2>3. ASSUME NEW d \in Comp, Announce(d) \/ (ForeignDies /\ d = "weston") PROVE <1>2!2
    <3>1. PICK b \in BeaconStates : comp' = [comp EXCEPT ![d].beacon = b]
      BY <2>3 DEF BeaconStates, Others
    <3>2. /\ \A x \in Comp \ {d} : comp'[x] = comp[x]
          /\ comp'[d].child = comp[d].child /\ comp'[d].mgr = comp[d].mgr
      BY <1>1, <3>1 DEF Component
    <3> QED BY <3>2
  <2> QED BY <2>1, <2>2, <2>3 DEF Comp
<1> QED BY <1>1, <1>2 DEF UnexpectedInv, AllowComponentRestart, Lost, Unreaped

\* Every step preserves it.
LEMMA UnexpectedStep ==
  ASSUME SessionInv, OthersInv, UnexpectedInv, [Next]_vars
  PROVE  UnexpectedInv'
<1>1. CASE DaemonStep
  <2>1. UNCHANGED config
    BY <1>1 DEF DaemonStep
  <2>2. CASE Boot \/ BootEnds \/ InitializeSession \/ InitializeFails \/ StartSession
             \/ SpawnComponent \/ SpawnFails \/ CompositorReady \/ DesktopReady
             \/ ReadinessFails \/ Rollback
    BY <2>1, <2>2, UnexpectedElsewhere
       DEF Boot, BootEnds, InitializeSession, InitializeFails, StartSession, SpawnComponent,
           SpawnFails, CompositorReady, DesktopReady, ReadinessFails, Rollback, Abort, Exit,
           StartFailed, startVars, passVars
  <2>3. CASE BeginReap \/ ReapDone \/ Deliver \/ (\E c \in Comp : ReapSkip(c))
             \/ RestartDesktop \/ QuiesceDesktop \/ RestartCompositor \/ RecoverySucceeds
    BY <2>1, <2>3, UnexpectedElsewhere
       DEF BeginReap, ReapDone, Deliver, ReapSkip, RestartDesktop, QuiesceDesktop,
           RestartCompositor, StartCompositor, RecoverySucceeds, startVars, passVars
  <2>4. CASE FailDone \/ BeginShutdown \/ ShutDesktop \/ ShutCompositor \/ ShutRest
    BY <2>1, <2>4, UnexpectedElsewhere
       DEF FailDone, BeginShutdown, ShutDesktop, ShutCompositor, ShutComponent, ShutRest, Exit,
           startVars, passVars
  <2>5. CASE RestartSession
    BY <2>1, <2>5 DEF RestartSession, UnexpectedInv, AllowComponentRestart
  <2> QED
    BY <1>1, <2>1, <2>2, <2>3, <2>4, <2>5, UnexpectedAdmitted, UnexpectedExit, UnexpectedFailure,
       UnexpectedStop DEF DaemonStep
<1>2. CASE EnvironmentStep
  BY <1>2, UnexpectedEnvironment DEF EnvironmentStep
<1>3. CASE Exited \/ UNCHANGED vars
  BY <1>3 DEF Exited, vars, startVars, childVars, recoveryVars, passVars, UnexpectedInv,
     AllowComponentRestart, Lost, Unreaped
<1> QED BY <1>1, <1>2, <1>3 DEF Next

\* The strengthening holds of every behaviour.
LEMMA UnexpectedInvariant == Spec => []UnexpectedInv
<1>1. Init => UnexpectedInv
  BY DEF Init, UnexpectedInv
<1> QED BY <1>1, UnexpectedStep, OthersInvariant, SessionInvariant, PTL DEF Spec

\* With component restarts allowed, recovery starts from the exit of the
\* process the component has, never from that of one recovery replaced.
THEOREM OnlyUnexpectedExits == Spec => []RecoveryOnlyOnUnexpectedExit
<1>1. UnexpectedInv => RecoveryOnlyOnUnexpectedExit
  BY DEF UnexpectedInv, RecoveryOnlyOnUnexpectedExit
<1> QED BY <1>1, UnexpectedInvariant, PTL

-----------------------------------------------------------------------------
(* The order of the teardown.                                              *)

\* Two ways a step is in order: it leaves Weston's process alone, or it ends
\* without one of LDDE's.
LEMMA InOrder ==
  ASSUME comp'["weston"].child = comp["weston"].child \/ comp'["weston"].child # "gone"
           \/ Quiet("ldde")'
  PROVE  DesktopFirst
  BY DEF DesktopFirst, Quiet, Unreaped

\* Starting up, and taking back a start that failed.
LEMMA StartInOrder ==
  ASSUME SessionInv, SessionInv',
         Boot \/ BootEnds \/ InitializeSession \/ InitializeFails \/ StartSession
           \/ SpawnComponent \/ SpawnFails \/ CompositorReady \/ DesktopReady
           \/ ReadinessFails \/ Rollback
  PROVE  DesktopFirst
<1>1. /\ comp \in [Comp -> Component] /\ target \in Comp /\ "weston" \in Comp
      /\ "ldde" \in Comp
  BY DEF SessionInv, TypeOK, Comp
<1>2. CASE Boot \/ BootEnds \/ InitializeSession \/ StartSession
  BY <1>2, InOrder DEF Boot, BootEnds, InitializeSession, StartSession, childVars
<1>3. CASE InitializeFails \/ SpawnFails \/ CompositorReady \/ DesktopReady
  <2>1. comp'["weston"].child = comp["weston"].child
    BY <1>1, <1>3 DEF InitializeFails, SpawnFails, CompositorReady, DesktopReady, Component
  <2> QED BY <2>1, InOrder
<1>4. CASE SpawnComponent
  <2>1. comp'["weston"] = comp["weston"] \/ comp'["weston"].child = "alive"
    BY <1>1, <1>4 DEF SpawnComponent
  <2> QED BY <2>1, InOrder
<1>5. CASE ReadinessFails
  <2>1. CASE target = "ldde"
    BY <1>1, <1>5, <2>1, InOrder DEF ReadinessFails
  <2>2. CASE target = "weston"
    <3>1. Quiet("ldde")'
      BY <1>5, <2>2 DEF ReadinessFails, StartFailed, SessionInv, ControlInv, OthersInOrder, startVars
    <3> QED BY <3>1, InOrder
  <2> QED BY <1>1, <2>1, <2>2 DEF Comp
<1>6. CASE Rollback
  <2>1. Quiet("ldde")'
    BY <1>6 DEF Rollback, Abort, SessionInv, ControlInv, Operational, GivenUp, Comp, SessionMove,
       SessionCan, SessionEdges, StartingUp
  <2> QED BY <2>1, InOrder
<1> QED BY <1>2, <1>3, <1>4, <1>5, <1>6

\* A reap pass touches only what is dead already.
LEMMA ReapInOrder ==
  ASSUME SessionInv,
         BeginReap \/ ReapDone \/ Deliver \/ \E c \in Comp : ReapSkip(c) \/ ReapExit(c)
  PROVE  DesktopFirst
<1>1. comp \in [Comp -> Component] /\ cause \in Comp
  BY DEF SessionInv, TypeOK
<1>2. CASE BeginReap \/ ReapDone \/ \E c \in Comp : ReapSkip(c)
  BY <1>2, InOrder DEF BeginReap, ReapDone, ReapSkip, childVars
<1>3. CASE Deliver
  <2>1. \A c \in Comp : comp'[c].child = comp[c].child
    BY <1>1, <1>3 DEF Deliver, Component
  <2> QED BY <2>1, InOrder DEF Comp
<1>4. ASSUME NEW c \in Comp, ReapExit(c) PROVE DesktopFirst
  <2>1. c \in stale => comp' = comp
    BY <1>4 DEF ReapExit
  <2>2. c \notin stale => comp[c].child # "alive"
    BY <1>4 DEF ReapExit, Reports
  <2>3. \A x \in Comp \ {c} : comp'[x] = comp[x]
    BY <1>1, <1>4 DEF ReapExit
  <2> QED BY <2>1, <2>2, <2>3 DEF DesktopFirst, Comp
<1> QED BY <1>2, <1>3, <1>4

\* Recovery stops LDDE before it replaces Weston.
LEMMA RecoveryInOrder ==
  ASSUME SessionInv, SessionInv',
         RecoveryRefused \/ RecoveryExhausted \/ RecoveryAdmitted \/ RestartDesktop
           \/ QuiesceDesktop \/ RestartCompositor \/ RestartSession \/ RecoverySucceeds
           \/ RecoveryFails
  PROVE  DesktopFirst
<1>1. comp \in [Comp -> Component] /\ "weston" \in Comp
  BY DEF SessionInv, TypeOK, Comp
<1>2. CASE RecoveryRefused \/ RecoveryExhausted \/ RecoveryAdmitted \/ RecoverySucceeds
           \/ RecoveryFails
  BY <1>2, InOrder DEF RecoveryRefused, RecoveryExhausted, RecoveryAdmitted, RecoverySucceeds,
     RecoveryFails, childVars
<1>3. CASE RestartDesktop \/ QuiesceDesktop
  BY <1>1, <1>3, InOrder DEF RestartDesktop, QuiesceDesktop
<1>4. CASE RestartCompositor \/ RestartSession
  <2>1. pc' = "spawn" /\ target' = "weston"
    BY <1>4 DEF RestartCompositor, RestartSession, StartCompositor
  <2>2. Quiet("ldde")'
    BY <2>1 DEF SessionInv, ControlInv, OthersInOrder
  <2> QED BY <2>2, InOrder
<1> QED BY <1>2, <1>3, <1>4

\* Session::fail, where the hash order of stop_all matters only if both
\* children may still be alive.
LEMMA FailureInOrder ==
  ASSUME SessionInv, SessionInv', UnexpectedInv,
         \/ FailDone
         \/ AllowComponentRestart /\ stale # {"ldde"} /\ \E c \in Comp : FailStopsChild(c)
  PROVE  DesktopFirst
<1>1. comp \in [Comp -> Component]
  BY DEF SessionInv, TypeOK
<1>2. CASE FailDone
  <2>1. session' = "FAILED" /\ pc' = "deliver"
    BY <1>2 DEF FailDone, SessionInv, ControlInv
  <2>2. Quiet("ldde")'
    BY <2>1 DEF SessionInv, ControlInv, Operational, GivenUp, Comp
  <2> QED BY <2>2, InOrder
<1>3. ASSUME NEW d \in Comp, AllowComponentRestart, stale # {"ldde"}, FailStopsChild(d)
      PROVE  DesktopFirst
  <2>1. PICK c \in Comp : comp[c].child # "alive"
    BY <1>3 DEF UnexpectedInv, FailStopsChild
  <2>2. \A x \in Comp \ {d} : comp'[x] = comp[x]
    BY <1>1, <1>3 DEF FailStopsChild
  <2>3. CASE d = "weston"
    BY <2>1, <2>2, <2>3 DEF DesktopFirst, Comp
  <2>4. CASE d = "ldde"
    BY <2>2, <2>4, InOrder DEF Comp
  <2> QED BY <2>3, <2>4 DEF Comp
<1> QED BY <1>2, <1>3

\* The shutdown stops LDDE, then Weston, and finds nothing more.
LEMMA ShutdownInOrder ==
  ASSUME SessionInv, SessionInv', BeginShutdown \/ ShutDesktop \/ ShutCompositor \/ ShutRest
  PROVE  DesktopFirst
<1>1. comp \in [Comp -> Component] /\ "weston" \in Comp
  BY DEF SessionInv, TypeOK, Comp
<1>2. CASE BeginShutdown \/ ShutDesktop
  BY <1>1, <1>2, InOrder DEF BeginShutdown, ShutDesktop, ShutComponent, childVars
<1>3. CASE ShutCompositor \/ ShutRest
  <2>1. pc' \in {"stopRest", "exited"}
    BY <1>3 DEF ShutCompositor, ShutComponent, ShutRest, Exit
  <2>2. Quiet("ldde")'
    BY <2>1 DEF SessionInv, ControlInv, Comp
  <2> QED BY <2>2, InOrder
<1> QED BY <1>2, <1>3

\* The children's own deaths leave zombies; only the daemon reaps.
LEMMA EnvironmentInOrder ==
  ASSUME SessionInv, EnvironmentStep
  PROVE  DesktopFirst
<1>1. comp \in [Comp -> Component]
  BY DEF SessionInv, TypeOK
<1>2. CASE Sigterm
  BY <1>2, InOrder DEF Sigterm, childVars
<1>3. ASSUME NEW c \in Comp, Crash(c) \/ Announce(c) \/ ForeignDies PROVE DesktopFirst
  <2>1. \A x \in Comp : comp'[x].child \in {comp[x].child, "zombie"}
    BY <1>1, <1>3 DEF Crash, Announce, ForeignDies, Component
  <2> QED BY <2>1, InOrder DEF Comp
<1> QED BY <1>2, <1>3 DEF EnvironmentStep, Comp

\* The daemon never stops Weston under a live LDDE, except where Session::fail
\* does, without component restarts or after LDDE alone was restarted: start-up, rollback, both kinds of
\* recovery, failure and shutdown tear the desktop down first.
THEOREM TeardownOrdered == Spec => OrderedTeardown
<1>1. SessionInv /\ SessionInv' /\ UnexpectedInv /\ [Next]_vars
        => [pc # "failing" \/ (AllowComponentRestart /\ stale # {"ldde"}) => DesktopFirst]_vars
  <2> SUFFICES ASSUME SessionInv, SessionInv', UnexpectedInv, Next,
                      pc # "failing" \/ (AllowComponentRestart /\ stale # {"ldde"})
               PROVE  DesktopFirst
    OBVIOUS
  <2>1. CASE DaemonStep
    BY <2>1, StartInOrder, ReapInOrder, RecoveryInOrder, FailureInOrder, ShutdownInOrder
       DEF DaemonStep, FailStopsChild
  <2>2. CASE EnvironmentStep
    BY <2>2, EnvironmentInOrder
  <2>3. CASE Exited
    BY <2>3, InOrder DEF Exited, vars, childVars
  <2> QED BY <2>1, <2>2, <2>3 DEF Next
<1> QED BY <1>1, SessionInvariant, UnexpectedInvariant, PTL DEF Spec, OrderedTeardown

-----------------------------------------------------------------------------
(* What SigtermObeyed and RecoverySettles rest on besides fairness: the    *)
(* daemon has only so much to do.  Work is an upper bound on its steps     *)
(* until it either ends or begins another pass of the event loop.          *)

StageOf ==
  [boot |-> 18, recover |-> 18, initialize |-> 17, execute |-> 17, start |-> 16,
   quiesced |-> 16, spawn |-> 13, wait |-> 12, rollback |-> 11, verify |-> 11,
   recoveryFailed |-> 10, failing |-> 7, deliver |-> 6, reap |-> 5, loop |-> 4,
   stopDesktop |-> 3, stopCompositor |-> 2, stopRest |-> 1, exited |-> 0]

\* Weston is started before LDDE.
Stage == StageOf[pc] + IF pc \in {"spawn", "wait"} /\ target = "weston" THEN 2 ELSE 0

\* Session::fail stops the children that run; an exit in the pass's copy may
\* take a whole recovery.
ToStop(c) == IF pc = "failing" /\ comp[c].listed /\ Unreaped(c) THEN 1 ELSE 0
ToLookAt(c) == IF c \in snap THEN 14 ELSE 0

Work == Stage + ToStop("weston") + ToStop("ldde") + ToLookAt("weston") + ToLookAt("ldde")

LEMMA Stages ==
  /\ StageOf["boot"] = 18 /\ StageOf["recover"] = 18 /\ StageOf["initialize"] = 17
  /\ StageOf["execute"] = 17 /\ StageOf["start"] = 16 /\ StageOf["quiesced"] = 16
  /\ StageOf["spawn"] = 13 /\ StageOf["wait"] = 12 /\ StageOf["rollback"] = 11
  /\ StageOf["verify"] = 11 /\ StageOf["recoveryFailed"] = 10 /\ StageOf["failing"] = 7
  /\ StageOf["deliver"] = 6 /\ StageOf["reap"] = 5 /\ StageOf["loop"] = 4
  /\ StageOf["stopDesktop"] = 3 /\ StageOf["stopCompositor"] = 2
  /\ StageOf["stopRest"] = 1 /\ StageOf["exited"] = 0
  BY DEF StageOf

\* A step that looks at no exit and leaves Session::fail alone works off its
\* stage; Session::fail begins with at most two children.
LEMMA WorkOff ==
  ASSUME TypeOK, TypeOK', UNCHANGED snap, pc # "failing",
         Stage' < Stage, pc' = "failing" => Stage' + 2 < Stage
  PROVE  Work' < Work
<1>1. Stage \in Nat /\ Stage' \in Nat
  <2>1. StageOf[pc] \in Nat /\ StageOf[pc'] \in Nat
    BY Stages DEF TypeOK, PCs
  <2> QED BY <2>1 DEF Stage
<1>2. /\ ToStop("weston") = 0 /\ ToStop("ldde") = 0
      /\ ToLookAt("weston")' = ToLookAt("weston") /\ ToLookAt("ldde")' = ToLookAt("ldde")
      /\ ToLookAt("weston") \in Nat /\ ToLookAt("ldde") \in Nat
  BY DEF ToStop, ToLookAt
<1>3. CASE pc' = "failing"
  <2>1. /\ ToStop("weston")' \in Nat /\ ToStop("weston")' <= 1
        /\ ToStop("ldde")' \in Nat /\ ToStop("ldde")' <= 1
    BY DEF ToStop
  <2>2. Stage' + 2 < Stage
    BY <1>3
  <2> DEFINE a == ToStop("weston")'
             b == ToStop("ldde")'
             rest == ToLookAt("weston") + ToLookAt("ldde")
  <2>3. rest \in Nat /\ Work = Stage + rest /\ Work' = Stage' + a + b + rest
    <3> HIDE DEF Stage, ToStop, ToLookAt
    <3> QED BY <1>1, <1>2, <2>1 DEF Work
  <2>4. a \in Nat /\ a <= 1 /\ b \in Nat /\ b <= 1
    BY <2>1
  <2>5. \A x, y, p, q, r \in Nat : x + 2 < y /\ p <= 1 /\ q <= 1 => x + p + q + r < y + r
    OBVIOUS
  <2>6. Stage' + a + b + rest < Stage + rest
    <3> HIDE DEF Stage, a, b, rest, Work
    <3> QED BY <1>1, <2>2, <2>3, <2>4, <2>5
  <2> HIDE DEF Stage, a, b, rest, Work
  <2> QED BY <2>3, <2>6
<1>4. CASE pc' # "failing"
  <2>1. ToStop("weston")' = 0 /\ ToStop("ldde")' = 0
    BY <1>4 DEF ToStop
  <2> HIDE DEF Stage, ToStop, ToLookAt
  <2> QED BY <1>1, <1>2, <2>1 DEF Work
<1> QED BY <1>3, <1>4

\* The pass looks at one exit.
LEMMA WorkLookedAt ==
  ASSUME TypeOK, TypeOK', NEW c \in snap, snap' = snap \ {c}, pc = "reap",
         pc' \in {"reap", "recover", "deliver"}
  PROVE  Work' < Work
<1>1. Stage = 5 /\ Stage' \in 0..18
  BY Stages DEF Stage
<1>2. /\ ToStop("weston") = 0 /\ ToStop("ldde") = 0
      /\ ToStop("weston")' = 0 /\ ToStop("ldde")' = 0
  BY DEF ToStop
<1>3. c = "weston" \/ c = "ldde"
  BY DEF TypeOK, Comp
<1>4. /\ ToLookAt("weston") \in Nat /\ ToLookAt("ldde") \in Nat
      /\ c = "weston" => /\ ToLookAt("weston") = 14 /\ ToLookAt("weston")' = 0
                         /\ ToLookAt("ldde")' = ToLookAt("ldde")
      /\ c = "ldde" => /\ ToLookAt("ldde") = 14 /\ ToLookAt("ldde")' = 0
                       /\ ToLookAt("weston")' = ToLookAt("weston")
  BY DEF ToLookAt
<1> HIDE DEF Stage, ToStop, ToLookAt
<1> QED BY <1>1, <1>2, <1>3, <1>4 DEF Work

\* Session::fail stops one child.
LEMMA WorkStopped ==
  ASSUME TypeOK, NEW c \in Comp, FailStopsChild(c) PROVE Work' < Work
<1>1. /\ pc = "failing" /\ comp[c].listed /\ Unreaped(c) /\ UNCHANGED <<pc, target, snap>>
      /\ comp' = [comp EXCEPT ![c] = StopRunning(@)]
  BY DEF FailStopsChild, startVars, passVars
<1>2. ~Unreaped(c)' /\ \A d \in Comp : d # c => comp'[d] = comp[d]
  BY <1>1 DEF TypeOK, Component, Unreaped, StopRunning, StopChild, Reap
<1>3. Stage' = Stage /\ Stage \in Nat
  BY <1>1, Stages DEF Stage
<1>4. /\ ToLookAt("weston")' = ToLookAt("weston") /\ ToLookAt("ldde")' = ToLookAt("ldde")
      /\ ToLookAt("weston") \in Nat /\ ToLookAt("ldde") \in Nat
  BY <1>1 DEF ToLookAt
<1>5. ToStop(c) = 1 /\ ToStop(c)' = 0
  BY <1>1, <1>2 DEF ToStop
<1>6. \A d \in Comp : d # c => ToStop(d)' = ToStop(d) /\ ToStop(d) \in Nat
  BY <1>1, <1>2 DEF ToStop, Unreaped
<1>7. CASE c = "weston"
  <2>1. ToStop("ldde")' = ToStop("ldde") /\ ToStop("ldde") \in Nat
    BY <1>6, <1>7 DEF Comp
  <2> HIDE DEF Stage, ToStop, ToLookAt
  <2> QED BY <1>3, <1>4, <1>5, <1>7, <2>1 DEF Work
<1>8. CASE c = "ldde"
  <2>1. ToStop("weston")' = ToStop("weston") /\ ToStop("weston") \in Nat
    BY <1>6, <1>8 DEF Comp
  <2> HIDE DEF Stage, ToStop, ToLookAt
  <2> QED BY <1>3, <1>4, <1>5, <1>8, <2>1 DEF Work
<1> QED BY <1>7, <1>8 DEF Comp

LEMMA WorkDone ==
  ASSUME SessionInv, SessionInv', DaemonStep, ~BeginReap PROVE Work' < Work
<1>1. TypeOK /\ TypeOK'
  BY DEF SessionInv
<1>2. ASSUME NEW c \in Comp, ReapSkip(c) \/ ReapExit(c) PROVE Work' < Work
  <2>1. c \in snap /\ snap' = snap \ {c} /\ pc = "reap" /\ pc' \in {"reap", "recover", "deliver"}
    BY <1>2 DEF ReapSkip, ReapExit
  <2> QED BY <1>1, <2>1, WorkLookedAt
<1>3. ASSUME NEW c \in Comp, FailStopsChild(c) PROVE Work' < Work
  BY <1>1, <1>3, WorkStopped
<1>4. CASE FailDone
  <2>1. pc = "failing" /\ pc' = "deliver" /\ UNCHANGED snap
        /\ \A c \in Comp : ~(comp[c].listed /\ Unreaped(c))
    BY <1>4 DEF FailDone, passVars
  <2>2. Stage = 7 /\ Stage' = 6
    BY <2>1, Stages DEF Stage
  <2>3. /\ ToStop("weston") = 0 /\ ToStop("ldde") = 0
        /\ ToStop("weston")' = 0 /\ ToStop("ldde")' = 0
    BY <2>1 DEF ToStop, Comp
  <2>4. /\ ToLookAt("weston")' = ToLookAt("weston") /\ ToLookAt("ldde")' = ToLookAt("ldde")
        /\ ToLookAt("weston") \in Nat /\ ToLookAt("ldde") \in Nat
    BY <2>1 DEF ToLookAt
  <2> HIDE DEF Stage, ToStop, ToLookAt
  <2> QED BY <2>2, <2>3, <2>4 DEF Work
<1>5. CASE Boot \/ BootEnds \/ InitializeSession \/ InitializeFails \/ StartSession
  <2>1. /\ UNCHANGED snap /\ pc # "failing" /\ pc' # "failing"
        /\ <<pc, pc'>> \in {<<"boot", "initialize">>, <<"boot", "exited">>,
             <<"initialize", "start">>, <<"initialize", "stopDesktop">>, <<"start", "spawn">>}
    BY <1>5 DEF Boot, BootEnds, InitializeSession, InitializeFails, StartSession, Abort, Exit, passVars
  <2>2. Stage' < Stage
    BY <2>1, Stages DEF Stage
  <2> QED BY <1>1, <2>1, <2>2, WorkOff
<1>6. CASE SpawnComponent \/ SpawnFails
  <2>1. /\ UNCHANGED <<snap, target>> /\ pc = "spawn"
        /\ pc' \in {"wait", "recoveryFailed", "rollback"}
    BY <1>6 DEF SpawnComponent, SpawnFails, StartFailed, passVars, startVars
  <2>2. Stage' < Stage
    BY <2>1, Stages DEF Stage
  <2> QED BY <1>1, <2>1, <2>2, WorkOff
<1>7. CASE CompositorReady \/ DesktopReady \/ ReadinessFails
  <2>1. /\ UNCHANGED snap /\ pc = "wait"
        /\ \/ pc' \in {"loop", "verify", "recoveryFailed", "rollback"}
           \/ pc' = "spawn" /\ target = "weston" /\ target' = "ldde"
    BY <1>7 DEF CompositorReady, DesktopReady, ReadinessFails, StartFailed, passVars
  <2>2. Stage' < Stage
    BY <2>1, Stages DEF Stage
  <2> QED BY <1>1, <2>1, <2>2, WorkOff
<1>8. CASE Rollback \/ ReapDone \/ Deliver \/ BeginShutdown \/ ShutDesktop \/ ShutCompositor
           \/ ShutRest
  <2>1. /\ UNCHANGED snap /\ pc # "failing" /\ pc' # "failing"
        /\ <<pc, pc'>> \in {<<"rollback", "stopDesktop">>, <<"rollback", "recoveryFailed">>,
             <<"reap", "loop">>, <<"deliver", "reap">>, <<"loop", "stopDesktop">>,
             <<"stopDesktop", "stopCompositor">>, <<"stopCompositor", "stopRest">>,
             <<"stopRest", "exited">>}
    BY <1>8 DEF Rollback, ReapDone, Deliver, BeginShutdown, ShutDesktop, ShutCompositor,
                ShutComponent, ShutRest, Abort, Exit, passVars
  <2>2. Stage' < Stage
    BY <2>1, Stages DEF Stage
  <2> QED BY <1>1, <2>1, <2>2, WorkOff
<1>9. CASE RecoveryRefused \/ RecoveryExhausted \/ RecoveryAdmitted \/ RestartDesktop
           \/ QuiesceDesktop \/ RestartCompositor \/ RestartSession
  <2>1. /\ UNCHANGED snap /\ pc # "failing"
        /\ \/ pc = "recover" /\ pc' \in {"failing", "execute"}
           \/ pc = "execute" /\ pc' = "spawn" /\ target' = "ldde"
           \/ pc = "execute" /\ pc' = "quiesced"
           \/ pc = "quiesced" /\ pc' = "spawn" /\ target' = "weston"
    BY <1>9 DEF RecoveryRefused, RecoveryExhausted, RecoveryAdmitted, RestartDesktop,
                QuiesceDesktop, RestartCompositor, RestartSession, StartCompositor, FailSession,
                passVars
  <2>2. Stage' < Stage /\ (pc' = "failing" => Stage' + 2 < Stage)
    BY <2>1, Stages DEF Stage
  <2> QED BY <1>1, <2>1, <2>2, WorkOff
<1>10. CASE RecoverySucceeds \/ RecoveryFails
  <2>1. /\ UNCHANGED snap /\ pc \in {"verify", "recoveryFailed"}
        /\ pc = "recoveryFailed" => pc' = "failing"
        /\ pc' \in {"failing", "deliver"}
    BY <1>10 DEF RecoverySucceeds, RecoveryFails, FailSession, passVars
  <2>2. Stage' < Stage /\ (pc' = "failing" => Stage' + 2 < Stage)
    BY <2>1, Stages DEF Stage
  <2> QED BY <1>1, <2>1, <2>2, WorkOff
<1> QED BY <1>2, <1>3, <1>4, <1>5, <1>6, <1>7, <1>8, <1>9, <1>10 DEF DaemonStep

\* The environment gives the daemon no more to do, except by a pass to come.
LEMMA WorkGiven == ASSUME TypeOK, EnvironmentStep PROVE Work' = Work
<1>1. UNCHANGED <<pc, target, snap>>
  BY DEF EnvironmentStep, Sigterm, ForeignDies, Crash, Announce, startVars, passVars
<1>2. \A c \in Comp : comp'[c].listed = comp[c].listed /\ Unreaped(c)' = Unreaped(c)
  <2>1. CASE Sigterm
    BY <2>1 DEF Sigterm, childVars, Unreaped
  <2>3. CASE ForeignDies
    <3>1. /\ comp'["weston"].listed = comp["weston"].listed
          /\ comp'["weston"].child = comp["weston"].child
          /\ \A c \in Comp : c # "weston" => comp'[c] = comp[c]
      BY <2>3 DEF ForeignDies, TypeOK, Component, Comp
    <3> QED BY <3>1, <1>1 DEF Unreaped
  <2>2. ASSUME NEW d \in Comp, Crash(d) \/ Announce(d)
        PROVE  \A c \in Comp : comp'[c].listed = comp[c].listed /\ Unreaped(c)' = Unreaped(c)
    <3>1. /\ comp'[d].listed = comp[d].listed /\ comp[d].child = "alive"
          /\ comp'[d].child \in {"alive", "zombie"}
          /\ \A c \in Comp : c # d => comp'[c] = comp[c]
      BY <2>2 DEF Crash, Announce, TypeOK, Component
    <3> QED BY <3>1 DEF Unreaped
  <2> QED BY <2>1, <2>2, <2>3 DEF EnvironmentStep
<1>3. Stage' = Stage
  BY <1>1 DEF Stage
<1>4. \A c \in Comp : ToStop(c)' = ToStop(c) /\ ToLookAt(c)' = ToLookAt(c)
  BY <1>1, <1>2 DEF ToStop, ToLookAt
<1>5. /\ ToStop("weston")' = ToStop("weston") /\ ToStop("ldde")' = ToStop("ldde")
      /\ ToLookAt("weston")' = ToLookAt("weston") /\ ToLookAt("ldde")' = ToLookAt("ldde")
  BY <1>4 DEF Comp
<1> HIDE DEF Stage, ToStop, ToLookAt
<1> QED BY <1>3, <1>5 DEF Work

LEMMA WorkRange == ASSUME TypeOK PROVE Work \in 0..48
<1>1. Stage \in 0..18
  <2>1. StageOf[pc] \in 0..18 /\ (pc \in {"spawn", "wait"} => StageOf[pc] \in 0..13)
    BY Stages DEF TypeOK, PCs
  <2> QED BY <2>1 DEF Stage
<1>2. /\ ToStop("weston") \in 0..1 /\ ToStop("ldde") \in 0..1
      /\ ToLookAt("weston") \in 0..14 /\ ToLookAt("ldde") \in 0..14
  BY DEF ToStop, ToLookAt
<1>3. \A s \in 0..18, a, b \in 0..1, c, d \in 0..14 : s + a + b + c + d \in 0..48
  OBVIOUS
<1> HIDE DEF Stage, ToStop, ToLookAt
<1> QED BY <1>1, <1>2, <1>3 DEF Work

StepsRunOut ==
  [][/\ DaemonStep /\ ~BeginReap => Work' < Work
     /\ EnvironmentStep => Work' = Work]_vars

\* main() and everything it calls: the daemon's thread takes at most 48 steps,
\* whatever its children do meanwhile, before it ends or begins another pass of
\* the event loop.  No path through start-up, recovery, failure and shutdown
\* can loop.
THEOREM OnlyPassesRepeat == Spec => [](Work \in 0..48) /\ StepsRunOut
<1>1. SessionInv => Work \in 0..48
  BY WorkRange DEF SessionInv
<1>2. SessionInv /\ SessionInv' /\ [Next]_vars =>
        [/\ DaemonStep /\ ~BeginReap => Work' < Work
         /\ EnvironmentStep => Work' = Work]_vars
  BY WorkDone, WorkGiven DEF SessionInv
<1> QED BY <1>1, <1>2, SessionInvariant, PTL DEF Spec, StepsRunOut

\* docs/lifecycle.md, "SIGTERM / SIGINT received": from then on every step of
\* the daemon is one towards its end, which is at most 48 steps away, in the
\* middle of a start or a recovery too and whatever the children do.
THEOREM SigtermBounded ==
  Spec => [][sigterm /\ DaemonStep => sigterm' /\ Work' < Work]_vars
<1>1. sigterm /\ DaemonStep => ~BeginReap
  BY DEF BeginReap
<1>2. sigterm /\ DaemonStep => sigterm'
  BY DEF DaemonStep, Boot, BootEnds, InitializeSession, InitializeFails, StartSession,
         SpawnComponent, SpawnFails, CompositorReady, DesktopReady, ReadinessFails, Rollback,
         BeginReap, ReapDone, Deliver, ReapSkip, ReapExit, FailStopsChild, RecoveryRefused,
         RecoveryExhausted, RecoveryAdmitted, RestartDesktop, QuiesceDesktop,
         RestartCompositor, RestartSession, StartCompositor, RecoverySucceeds, RecoveryFails,
         FailDone, BeginShutdown, ShutDesktop, ShutCompositor, ShutComponent, ShutRest,
         daemonVars
<1>3. SessionInv /\ SessionInv' /\ [Next]_vars =>
        [sigterm /\ DaemonStep => sigterm' /\ Work' < Work]_vars
  BY <1>1, <1>2, WorkDone
<1> QED BY <1>3, SessionInvariant, PTL DEF Spec

\* docs/recovery.md: a session that is RECOVERING is at most 48 steps of the
\* daemon away from RUNNING or FAILED, whatever the children do.
THEOREM RecoveryBounded ==
  Spec => [][session = "RECOVERING" /\ DaemonStep => Work' < Work]_vars
<1>1. SessionInv /\ session = "RECOVERING" => pc # "loop"
  BY DEF SessionInv, ControlInv, Operational, GivenUp
<1>2. SessionInv /\ SessionInv' /\ [Next]_vars =>
        [session = "RECOVERING" /\ DaemonStep => Work' < Work]_vars
  BY <1>1, WorkDone DEF BeginReap
<1> QED BY <1>2, SessionInvariant, PTL DEF Spec
==============================================================================
