------------------------ MODULE SessionContract_proofs ------------------------
(***************************************************************************)
(* The daemon keeps the contract a client of its session relies on: the    *)
(* refinement of SessionContract, step by step.  Proved from               *)
(* SessionInvariant, for every recovery configuration.                     *)
(***************************************************************************)
EXTENDS GraphicalSession_proofs

\* The children not reaped yet: what the contract calls running.
Live == {c \in Comp : Unreaped(c)}

\* No step of the kind brings a child to life.
Shrinks == \A c \in Comp : Unreaped(c)' => Unreaped(c)

-----------------------------------------------------------------------------
(* Lemmas about what the contract sees.                                    *)

\* The phase depends on the session and on what the start-up belongs to.
LEMMA PhaseFrame ==
  ASSUME UNCHANGED <<session, op>>, pc # "exited", pc' # "exited"
  PROVE  phaseOf' = phaseOf
  BY DEF phaseOf

\* In RUNNING and STOPPING, and in FAILED, not even on that.
LEMMA PhaseSettled ==
  ASSUME UNCHANGED session, pc # "exited", pc' # "exited",
         session \in {"RUNNING", "STOPPING", "FAILED"}
  PROVE  phaseOf' = phaseOf
  BY DEF phaseOf

\* A step that only takes children away is one the contract allows.
LEMMA LosesOrStays ==
  ASSUME Shrinks, phaseOf' = phaseOf
  PROVE  Contract!LosePart
  BY DEF Shrinks, Contract!LosePart

\* Before the session was announced or given up.
LEMMA PhaseComing ==
  ASSUME pc # "exited",
         session \in {"CREATED", "INITIALIZING", "READY", "STARTING", "RECOVERING"}
  PROVE  phaseOf = IF op = "boot" THEN "starting" ELSE "recovering"
  BY DEF phaseOf

\* A manager's stop() leaves a component's record one.
LEMMA StopManagerType ==
  ASSUME NEW c \in Comp, NEW r \in Component
  PROVE  StopManager(c, r) \in Component
<1> DEFINE m == ManagerMove(c, ManagerMove(c, r.mgr, "Stopping"), "Stopped")
<1>1. m \in ManagerStates /\ StopHeld(r) \in Component /\ StopHeld(r).mgr = r.mgr
  BY ManagerMoveType, StopHeldFacts DEF Component, ManagerStates
<1>2. StopManager(c, r)
        \in {r, [StopHeld(r) EXCEPT !.mgr = m, !.held = FALSE, !.beacon = "absent"]}
  BY <1>1 DEF StopManager
<1> HIDE DEF m
<1> QED BY <1>1, <1>2 DEF Component, BeaconStates

\* None of the managers' and the supervisor's operations revives a child.
LEMMA NeverRevived ==
  ASSUME NEW c \in Comp, NEW r \in Component, r.child \notin {"alive", "zombie"}
  PROVE  /\ StopManager(c, r).child \notin {"alive", "zombie"}
         /\ StopIfRunning(c, r).child \notin {"alive", "zombie"}
         /\ ResetManager(r).child \notin {"alive", "zombie"}
         /\ FailReadiness(c, r).child \notin {"alive", "zombie"}
         /\ StopRunning(r).child \notin {"alive", "zombie"}
<1>1. StopHeld(r) \in Component /\ StopHeld(r).child \notin {"alive", "zombie"}
  BY StopHeldFacts
<1>2. StopManager(c, r).child \notin {"alive", "zombie"}
  BY <1>1 DEF StopManager, Component
<1>3. ResetManager(r).child \notin {"alive", "zombie"}
      /\ FailReadiness(c, r).child \notin {"alive", "zombie"}
  BY <1>1 DEF ResetManager, FailReadiness, Component
<1>4. StopRunning(r).child \notin {"alive", "zombie"}
  BY StopRunningFacts
<1> QED BY <1>2, <1>3, <1>4 DEF StopIfRunning

-----------------------------------------------------------------------------
(* The steps of the daemon, by what they are to the contract.              *)

\* Start-up before the first spawn is invisible.
LEMMA BootIsSilent ==
  ASSUME SessionInv, Boot \/ InitializeSession \/ StartSession
  PROVE  Contract!LosePart
<1> USE DEF Boot, InitializeSession, StartSession
<1>1. op = "boot" /\ op' = "boot" /\ pc # "exited" /\ pc' # "exited"
  BY DEF SessionInv, ControlInv, startVars
<1>2. /\ session \in {"CREATED", "READY"}
      /\ session' \in {"CREATED", "READY", "STARTING"}
  BY SessionMoves DEF SessionInv, ControlInv, sessionVars
<1>3. phaseOf' = phaseOf
  BY <1>1, <1>2 DEF phaseOf
<1>4. Shrinks
  BY DEF Shrinks, Unreaped, childVars
<1> QED BY <1>3, <1>4, LosesOrStays

\* main() returning, whatever it returns with, is the end of the session.
LEMMA ReturnIsEnd ==
  ASSUME SessionInv, SessionInv', BootEnds \/ ShutRest
  PROVE  Contract!End
<1>1. pc # "exited" /\ pc' = "exited"
  BY DEF BootEnds, ShutRest, Exit
<1>2. Live' = {}
  BY <1>1 DEF SessionInv, ControlInv, Quiet, Live, Unreaped
<1>3. phaseOf # "ended" /\ phaseOf' = "ended"
  BY <1>1 DEF phaseOf
<1> QED BY <1>2, <1>3 DEF Contract!End, Live

\* A child is started where none is, for a session that comes up.
LEMMA SpawnIsStart ==
  ASSUME SessionInv, SpawnComponent
  PROVE  Contract!StartPart
<1> USE DEF SpawnComponent
<1>1. /\ comp \in [Comp -> Component] /\ target \in Comp
      /\ session \in {"STARTING", "RECOVERING"} /\ ~Unreaped(target)
  BY DEF SessionInv, TypeOK, ControlInv, StartingUp, Quiet
<1>2. phaseOf \in {"starting", "recovering"} /\ phaseOf' = phaseOf
  BY <1>1, PhaseComing, PhaseFrame DEF sessionVars, startVars
<1>3. /\ comp'[target].child = "alive"
      /\ \A c \in Comp \ {target} : comp'[c] = comp[c]
  BY <1>1
<1>4. Live' = Live \cup {target} /\ target \notin Live
  BY <1>1, <1>3 DEF Live, Unreaped
<1> QED BY <1>1, <1>2, <1>4 DEF Contract!StartPart, Live

\* A start that fails takes its child back.
LEMMA StartFailureIsLoss ==
  ASSUME SessionInv, SpawnFails \/ ReadinessFails
  PROVE  Contract!LosePart
<1>1. comp \in [Comp -> Component] /\ target \in Comp
  BY DEF SessionInv, TypeOK
<1>2. phaseOf' = phaseOf
  BY PhaseFrame DEF SpawnFails, ReadinessFails, StartFailed, sessionVars, startVars
<1>3. /\ \A c \in Comp \ {target} : comp'[c] = comp[c]
      /\ comp'[target].child \in {comp[target].child, FailReadiness(target, comp[target]).child}
  <2>1. CASE SpawnFails
    BY <2>1, <1>1 DEF SpawnFails, Component
  <2>2. CASE ReadinessFails
    BY <2>2, <1>1 DEF ReadinessFails
  <2> QED BY <2>1, <2>2
<1>4. ~Unreaped(target) => FailReadiness(target, comp[target]).child \notin {"alive", "zombie"}
  BY <1>1, NeverRevived DEF Unreaped
<1>5. Shrinks
  BY <1>3, <1>4 DEF Shrinks, Unreaped
<1> QED BY <1>2, <1>5, LosesOrStays

\* Weston being ready shows nothing: the desktop is not there yet.
LEMMA CompositorReadyIsSilent ==
  ASSUME SessionInv, CompositorReady
  PROVE  Contract!LosePart
<1> USE DEF CompositorReady
<1>1. comp \in [Comp -> Component] /\ Quiet("ldde")
      /\ "weston" \in Comp /\ "ldde" \in Comp
  BY DEF SessionInv, TypeOK, ControlInv, OthersInOrder, Comp
<1>2. phaseOf' = phaseOf
  BY PhaseFrame
<1>3. Unreaped("weston")' => Unreaped("weston")
  BY <1>1 DEF Unreaped, Component
<1>4. ~Unreaped("ldde")'
  <2>1. comp'["ldde"].child \in {comp["ldde"].child, ResetManager(comp["ldde"]).child}
    BY <1>1 DEF Component
  <2> QED BY <2>1, <1>1, NeverRevived DEF Quiet, Unreaped
<1> QED BY <1>2, <1>3, <1>4, LosesOrStays DEF Shrinks, Comp

\* With LDDE ready both run: at boot and in a session restart that is the
\* announcement, in a component restart the verification still follows.
LEMMA DesktopReadyComesUp ==
  ASSUME SessionInv, DesktopReady
  PROVE  Contract!LosePart \/ Contract!ComeUp
<1> USE DEF DesktopReady
<1>1. /\ comp \in [Comp -> Component] /\ "ldde" \in Comp /\ pc # "exited" /\ pc' # "exited"
      /\ StartingUp /\ \A c \in Comp : Unreaped(c)
  BY DEF SessionInv, TypeOK, ControlInv, OthersInOrder, Awaited, Supervised, Comp
<1>2. \A c \in Comp : comp'[c].child = comp[c].child
  BY <1>1 DEF Component
<1>3. Live' = Live /\ Live = Comp /\ Shrinks
  BY <1>1, <1>2 DEF Live, Unreaped, Shrinks
<1>4. CASE op = "component"
  BY <1>4, <1>1, <1>3, PhaseFrame, LosesOrStays DEF startVars
<1>5. CASE op # "component"
  <2>1. session = "STARTING" /\ session' = "RUNNING"
    BY <1>5, <1>1, SessionMoves DEF StartingUp
  <2>2. phaseOf \in {"starting", "recovering"} /\ phaseOf' = "gui"
    BY <2>1, <1>1, PhaseComing DEF phaseOf
  <2> QED BY <2>2, <1>3 DEF Contract!ComeUp, Live
<1> QED BY <1>4, <1>5

\* A component restart that verifies is announced, a session restart was.
LEMMA SuccessComesUp ==
  ASSUME SessionInv, RecoverySucceeds
  PROVE  Contract!LosePart \/ Contract!ComeUp
<1> USE DEF RecoverySucceeds
<1>1. /\ pc # "exited" /\ pc' # "exited" /\ session \in {"RECOVERING", "RUNNING"}
      /\ \A c \in Comp : Unreaped(c)
  BY DEF SessionInv, ControlInv, Operational, Supervised
<1>2. Live' = Live /\ Live = Comp /\ Shrinks
  BY <1>1 DEF Live, Unreaped, Shrinks, childVars
<1>3. CASE session = "RECOVERING"
  <2>1. phaseOf \in {"starting", "recovering"} /\ session' = "RUNNING"
    BY <1>3, <1>1, PhaseComing, SessionMoves
  <2>2. phaseOf' = "gui"
    BY <2>1, <1>1 DEF phaseOf
  <2> QED BY <2>1, <2>2, <1>2 DEF Contract!ComeUp, Live
<1>4. CASE session = "RUNNING"
  BY <1>4, <1>1, <1>2, PhaseSettled, LosesOrStays
<1> QED BY <1>1, <1>3, <1>4

\* The event loop sees what died and reaps it.
LEMMA ReapingIsLoss ==
  ASSUME SessionInv,
         BeginReap \/ ReapDone \/ Deliver \/ \E c \in Comp : ReapSkip(c) \/ ReapExit(c)
  PROVE  Contract!LosePart
<1> USE DEF BeginReap, ReapDone, Deliver, ReapSkip, ReapExit
<1>1. comp \in [Comp -> Component] /\ session \in {"RUNNING", "FAILED"} /\ cause \in Comp
  BY DEF SessionInv, TypeOK, ControlInv, Operational, GivenUp
<1>2. phaseOf' = phaseOf
  BY <1>1, PhaseSettled DEF sessionVars
<1>3. CASE BeginReap \/ ReapDone \/ \E c \in Comp : ReapSkip(c)
  BY <1>2, <1>3, LosesOrStays DEF Shrinks, Unreaped, childVars
<1>4. CASE Deliver
  <2>1. \A c \in Comp : comp'[c].child = comp[c].child
    BY <1>4, <1>1 DEF Component
  <2> QED BY <2>1, <1>2, LosesOrStays DEF Shrinks, Unreaped
<1>5. ASSUME NEW d \in Comp, ReapExit(d) PROVE Contract!LosePart
  <2> DEFINE r == [Reap(comp[d]) EXCEPT !.reported = TRUE]
  <2>1. r.child \notin {"alive", "zombie"}
    BY ONLY <1>1 DEF Reap, Component, ChildStates
  <2>2. comp' = comp \/ comp' = [comp EXCEPT ![d] = r]
    BY <1>5
  <2> HIDE DEF r
  <2>3. \A c \in Comp : comp'[c] = comp[c] \/ (c = d /\ comp'[c] = r)
    BY <1>1, <2>2
  <2> QED BY <2>1, <2>3, <1>2, LosesOrStays DEF Shrinks, Unreaped
<1> QED BY <1>3, <1>4, <1>5

\* Giving up may follow a failed start, the budget or a lost race with a
\* second exit; a session given up already only loses its children.
LEMMA FailureGivesUp ==
  ASSUME SessionInv, RecoveryRefused \/ RecoveryExhausted \/ RecoveryFails
  PROVE  Contract!LosePart \/ Contract!GiveUp
<1> USE DEF RecoveryRefused, RecoveryExhausted, RecoveryFails, FailSession
<1>1. /\ session \in {"RUNNING", "RECOVERING", "FAILED"}
      /\ pc # "exited" /\ pc' # "exited"
  BY DEF SessionInv, ControlInv, Operational
<1>2. session' = "FAILED" /\ Shrinks
  BY <1>1, SessionMoves DEF Shrinks, Unreaped
<1>3. CASE session = "FAILED"
  BY <1>1, <1>2, <1>3, PhaseSettled, LosesOrStays
<1>4. CASE session # "FAILED"
  <2>1. phaseOf \in {"starting", "gui", "recovering"} /\ phaseOf' = "failed"
    BY <1>1, <1>2, <1>4 DEF phaseOf
  <2> QED BY <2>1, <1>2 DEF Contract!GiveUp, Shrinks
<1> QED BY <1>3, <1>4

\* A start that cannot be prepared, or fails and is rolled back, gives up.
LEMMA AbortGivesUp ==
  ASSUME SessionInv, InitializeFails \/ Rollback
  PROVE  Contract!GiveUp
<1> USE DEF InitializeFails, Rollback, Abort
<1>1. /\ comp \in [Comp -> Component] /\ "weston" \in Comp
      /\ (InitializeFails /\ session = "CREATED") \/ (Rollback /\ session = "STARTING")
      /\ pc # "exited" /\ pc' # "exited"
  BY DEF SessionInv, TypeOK, ControlInv, StartingUp, Comp
<1>2. session' = "FAILED"
  BY <1>1, SessionMoves
<1>3. phaseOf \in {"starting", "recovering"} /\ phaseOf' = "failed"
  BY <1>1, <1>2, PhaseComing DEF phaseOf
<1>4. Shrinks
  <2>1. CASE InitializeFails
    <3>1. \A c \in Comp : comp'[c].child = comp[c].child
      BY <2>1, <1>1 DEF Component
    <3> QED BY <3>1 DEF Shrinks, Unreaped
  <2>2. CASE Rollback
    <3>1. \A c \in Comp : comp'[c] = comp[c]
                          \/ (c = "weston" /\ comp'[c] = StopManager(c, comp[c]))
      BY <2>2, <1>1
    <3> QED BY <3>1, <1>1, NeverRevived DEF Shrinks, Unreaped
  <2> QED BY <2>1, <2>2
<1> QED BY <1>3, <1>4 DEF Contract!GiveUp, Shrinks

\* A recovery that is admitted is the only way from the GUI to recovering.
LEMMA AdmissionDegrades ==
  ASSUME SessionInv, RecoveryAdmitted
  PROVE  Contract!Degrade
<1> USE DEF RecoveryAdmitted
<1>1. session = "RUNNING" /\ pc # "exited" /\ pc' # "exited"
  BY DEF SessionInv, ControlInv
<1>2. session' = "RECOVERING" /\ op' # "boot"
  BY <1>1, SessionMoves DEF Policy
<1>3. phaseOf = "gui" /\ phaseOf' = "recovering"
  BY <1>1, <1>2 DEF phaseOf
<1> QED BY <1>3 DEF Contract!Degrade, Unreaped, childVars

\* What a recovery stops before it starts anything is lost.
LEMMA QuiescingIsLoss ==
  ASSUME SessionInv, RestartDesktop \/ QuiesceDesktop \/ RestartCompositor
  PROVE  Contract!LosePart
<1> USE DEF RestartDesktop, QuiesceDesktop, RestartCompositor, StartCompositor
<1>1. comp \in [Comp -> Component] /\ "weston" \in Comp /\ "ldde" \in Comp
  BY DEF SessionInv, TypeOK, Comp
<1>2. phaseOf' = phaseOf
  BY PhaseFrame DEF sessionVars, startVars
<1>3. ASSUME NEW c \in Comp
      PROVE  comp'[c] \in {comp[c], StopManager(c, comp[c]), ResetManager(StopManager(c, comp[c]))}
  BY <1>1
<1>4. ASSUME NEW c \in Comp, ~Unreaped(c) PROVE ~Unreaped(c)'
  <2>1. StopManager(c, comp[c]).child \notin {"alive", "zombie"}
    BY <1>1, <1>4, NeverRevived DEF Unreaped
  <2>2. StopManager(c, comp[c]) \in Component
    BY <1>1, StopManagerType
  <2>3. ResetManager(StopManager(c, comp[c])).child \notin {"alive", "zombie"}
    BY <2>1, <2>2, NeverRevived
  <2> QED BY <1>3, <2>1, <2>3, <1>4 DEF Unreaped
<1> QED BY <1>2, <1>4, LosesOrStays DEF Shrinks

\* A session restart is one recovery, however many states it walks through.
LEMMA SessionRestartIsLoss ==
  ASSUME SessionInv, RestartSession
  PROVE  Contract!LosePart
<1> USE DEF RestartSession, StartCompositor
<1>1. comp \in [Comp -> Component] /\ session = "RECOVERING" /\ op = "session" /\ op' = "session"
  BY DEF SessionInv, TypeOK, ControlInv
<1>2. session' = "STARTING"
  BY <1>1, SessionMoves
<1>3. phaseOf' = phaseOf
  BY <1>1, <1>2 DEF phaseOf
<1> DEFINE idle(c) ==
      Forget(StopRunning(IF c = "weston" THEN StopManager(c, comp[c]) ELSE comp[c]))
<1>4. ASSUME NEW c \in Comp, ~Unreaped(c)
      PROVE  idle(c) \in Component /\ idle(c).child \notin {"alive", "zombie"}
  <2> DEFINE s == IF c = "weston" THEN StopManager(c, comp[c]) ELSE comp[c]
  <2>1. s \in Component /\ s.child \notin {"alive", "zombie"}
    BY <1>1, <1>4, StopManagerType, NeverRevived DEF Unreaped
  <2> HIDE DEF s
  <2>2. StopRunning(s) \in Component /\ StopRunning(s).child \notin {"alive", "zombie"}
    BY <2>1, StopRunningFacts
  <2> QED BY <2>2, ForgetFacts DEF s
<1>5. comp' = [c \in Comp |-> ResetManager(idle(c))]
  OBVIOUS
<1> HIDE DEF idle
<1>6. Shrinks
  BY <1>4, <1>5, NeverRevived DEF Shrinks, Unreaped
<1> QED BY <1>3, <1>6, LosesOrStays

\* Session::fail and the shutdown only take children away.
LEMMA TeardownIsLoss ==
  ASSUME SessionInv,
         FailDone \/ BeginShutdown \/ ShutDesktop \/ ShutCompositor
           \/ \E c \in Comp : FailStopsChild(c)
  PROVE  Contract!LosePart
<1> USE DEF FailDone, BeginShutdown, ShutDesktop, ShutCompositor, ShutComponent, FailStopsChild
<1>1. comp \in [Comp -> Component] /\ pc # "exited" /\ pc' # "exited"
  BY DEF SessionInv, TypeOK
<1>2. CASE BeginShutdown
  <2>1. /\ session \in {"RUNNING", "FAILED"}
        /\ session' = IF session = "FAILED" THEN "FAILED" ELSE "STOPPING"
    BY <1>2, SessionMoves DEF SessionInv, ControlInv, Operational, GivenUp
  <2>2. phaseOf' = phaseOf
    BY <2>1, <1>1 DEF phaseOf
  <2> QED BY <2>2, <1>2, LosesOrStays DEF Shrinks, Unreaped, childVars
<1>3. CASE FailDone
  <2>1. ASSUME NEW c \in Comp, ~Unreaped(c)
        PROVE  /\ StopIfRunning(c, Unlist(comp[c])) \in Component
               /\ StopIfRunning(c, Unlist(comp[c])).child \notin {"alive", "zombie"}
    <3>1. Unlist(comp[c]) \in Component /\ Unlist(comp[c]).child \notin {"alive", "zombie"}
      BY <1>1, <2>1, ForgetFacts DEF Unreaped
    <3> QED BY <3>1, NeverRevived, StopManagerType DEF StopIfRunning
  <2>2. comp' = [c \in Comp |-> RemoveFiles(StopIfRunning(c, Unlist(comp[c])))]
    BY <1>3
  <2>3. Shrinks
    BY <2>1, <2>2, RemoveFilesFacts DEF Shrinks, Unreaped
  <2> QED BY <1>1, <1>3, <2>3, PhaseFrame, LosesOrStays DEF startVars
<1>4. ASSUME NEW d \in Comp, FailStopsChild(d) \/ ShutDesktop \/ ShutCompositor
      PROVE  Contract!LosePart
  <2>1. \A c \in Comp : comp'[c] \in {comp[c], StopRunning(comp[c]), StopIfRunning(c, comp[c])}
    BY <1>1, <1>4 DEF Comp
  <2>2. Shrinks
    BY <1>1, <2>1, NeverRevived DEF Shrinks, Unreaped
  <2> QED BY <1>1, <1>4, <2>2, PhaseFrame, LosesOrStays DEF startVars, sessionVars
<1> QED BY <1>2, <1>3, <1>4 DEF Comp

\* The children's own steps and the signal: an exit is seen when it is reaped.
LEMMA EnvironmentIsSilent ==
  ASSUME SessionInv, EnvironmentStep
  PROVE  Contract!LosePart
<1> USE DEF EnvironmentStep, Sigterm, ForeignDies, Crash, Announce
<1>1. comp \in [Comp -> Component] /\ UNCHANGED <<session, op>>
      /\ (pc = "exited" <=> pc' = "exited")
  BY DEF SessionInv, TypeOK, sessionVars, startVars
<1>2. phaseOf' = phaseOf
  BY <1>1 DEF phaseOf
<1>3. Shrinks
  <2>1. CASE Sigterm
    BY <2>1 DEF Shrinks, Unreaped, childVars
  <2>2. ASSUME NEW c \in Comp, Crash(c) \/ Announce(c) PROVE Shrinks
    <3>1. \A x \in Comp \ {c} : comp'[x] = comp[x]
      BY <1>1, <2>2
    <3>2. comp[c].child = "alive"
      BY <2>2
    <3> QED BY <3>1, <3>2 DEF Shrinks, Unreaped
  <2>3. CASE ForeignDies
    <3>1. /\ comp'["weston"].child = comp["weston"].child
          /\ \A x \in Comp \ {"weston"} : comp'[x] = comp[x]
      BY <1>1, <2>3 DEF Component, Comp
    <3> QED BY <3>1 DEF Shrinks, Unreaped
  <2> QED BY <2>1, <2>2, <2>3
<1> QED BY <1>2, <1>3, LosesOrStays

-----------------------------------------------------------------------------
(* The refinement.                                                         *)

\* Whatever the recovery configuration, the daemon's session keeps the
\* contract: no part is started over one that runs, the GUI is announced only
\* with every part started, a session given up never starts anything again,
\* and the daemon's end leaves nothing.
THEOREM ContractKept == Spec => SessionKeepsContract
<1>1. Init => Contract!ContractInit
  <2> SUFFICES ASSUME Init PROVE Contract!ContractInit
    OBVIOUS
  <2>1. comp \in [Comp -> {[mgr |-> "Created", held |-> FALSE, child |-> "none",
                           listed |-> FALSE, reported |-> FALSE, beacon |-> b] :
                            b \in {"absent", "stale", "foreign"}}]
    BY DEF Init
  <2>2. \A c \in Comp : comp[c].child = "none"
    <3> TAKE c \in Comp
    <3>1. PICK b \in {"absent", "stale", "foreign"} :
            comp[c] = [mgr |-> "Created", held |-> FALSE, child |-> "none",
                       listed |-> FALSE, reported |-> FALSE, beacon |-> b]
      BY ONLY <2>1
    <3> QED BY ONLY <3>1
  <2>3. phaseOf = "starting"
    BY DEF Init, phaseOf
  <2> QED BY <2>2, <2>3 DEF Contract!ContractInit, Unreaped
<1>2. SessionInv /\ SessionInv' /\ [Next]_vars => [Contract!ContractNext]_(Contract!cvars)
  <2> SUFFICES ASSUME SessionInv, SessionInv', [Next]_vars
               PROVE  Contract!ContractNext \/ UNCHANGED Contract!cvars
    OBVIOUS
  <2>1. CASE DaemonStep
    BY <2>1, BootIsSilent, ReturnIsEnd, SpawnIsStart, StartFailureIsLoss, CompositorReadyIsSilent,
       DesktopReadyComesUp, SuccessComesUp, ReapingIsLoss, FailureGivesUp, AbortGivesUp,
       AdmissionDegrades, QuiescingIsLoss, SessionRestartIsLoss, TeardownIsLoss
       DEF DaemonStep, Contract!ContractNext
  <2>2. CASE EnvironmentStep
    BY <2>2, EnvironmentIsSilent DEF Contract!ContractNext
  <2>3. CASE Exited \/ UNCHANGED vars
    BY <2>3 DEF Exited, vars, startVars, sessionVars, childVars, Contract!cvars, phaseOf, Unreaped
  <2> QED BY <2>1, <2>2, <2>3 DEF Next
<1> QED
  BY <1>1, <1>2, SessionInvariant, PTL DEF Spec, SessionKeepsContract, Contract!ContractSpec
==============================================================================
