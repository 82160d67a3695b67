--------------------------- MODULE GraphicalSession ---------------------------
(***************************************************************************)
(* The LDDM daemon and its one graphical session, as main() runs them: one *)
(* thread boots the session (Weston, then LDDE), polls every 100 ms for    *)
(* children that died, recovers the session in the exit listener, and      *)
(* tears everything down on SIGTERM.  The other processes of the system    *)
(* are the environment: a child may announce itself, crash at any moment,  *)
(* and SIGTERM may arrive at any moment.                                   *)
(*                                                                         *)
(* The daemon's control flow is the program counter pc; one action is one  *)
(* stretch of code between two points at which a child's fate can matter   *)
(* (a spawn, a readiness wait, a backoff, a stop).                         *)
(***************************************************************************)
EXTENDS Naturals, StateTables

CONSTANTS
  Configs,     \* the switches of RecoveryConfig the session may be set up with
  MaxAttempts  \* RecoveryConfig::max_attempts

ASSUME ConfigAssumption ==
  /\ Configs \subseteq [enabled : BOOLEAN, component : BOOLEAN, session : BOOLEAN]
  /\ MaxAttempts \in Nat

VARIABLES
  config,     \* RecoveryManager::config_, given to the constructor
  pc,         \* where the daemon's thread is
  op,         \* what the current start-up belongs to
  target,     \* the component being started
  lifecycle,  \* LifecycleStateMachine of main()
  session,    \* SessionStateMachine
  published,  \* the state file in the daemon's own XDG_RUNTIME_DIR
  comp,       \* the two components, see Component
  closing,    \* ProcessSupervisor::shutting_down_
  recovery,   \* RecoveryManager::state_
  attempts,   \* attempt_timestamps_.size()
  cause,      \* component whose exit event is being delivered
  snap,       \* children of the running reap pass not looked at yet
  stale,      \* components replaced since the pass took its snapshot
  forgot,     \* emitted_exit_pids_ was cleared during the pass
  sigterm,    \* a termination signal has been received
  leaked      \* history: a child was started over one not reaped yet

daemonVars   == <<lifecycle, sigterm>>
sessionVars  == <<session, published>>
childVars    == <<comp, closing, leaked>>
recoveryVars == <<recovery, attempts, cause>>
passVars     == <<snap, stale, forgot>>
startVars    == <<op, target>>
vars == <<config, pc, startVars, daemonVars, sessionVars, childVars, recoveryVars,
          passVars>>

RecoveryEnabled == config.enabled            \* enabled
AllowComponentRestart == config.component    \* allow_component_restart
AllowSessionRestart == config.session        \* allow_session_restart

-----------------------------------------------------------------------------
Comp == {"weston", "ldde"}

(* A component is its manager (state_, process_handle_ is set) and the     *)
(* child last started for it: what the kernel says of it, whether the      *)
(* supervisor's registry lists it, whether its exit has been reported      *)
(* (emitted_exit_pids_), and the beacon readiness is judged by: Weston's   *)
(* socket, LDDE's readiness file.  A "stale" beacon was left by a process  *)
(* that is gone; a "bad" one says that LDDE failed.  Another server, such   *)
(* as the Weston of a daemon that was killed, may accept on Weston's socket *)
(* ("foreign"), and may have died since ("vacated").                       *)
ChildStates  == {"none", "alive", "zombie", "gone"}
Others == {"foreign", "vacated"}
BeaconStates == {"absent", "good", "bad", "stale"} \cup Others
Component == [mgr : ManagerStates, held : BOOLEAN, child : ChildStates,
              listed : BOOLEAN, reported : BOOLEAN, beacon : BeaconStates]

PCs == {"boot", "initialize", "start", "spawn", "wait", "rollback", "loop",
        "reap", "recover", "execute", "quiesced", "verify", "recoveryFailed",
        "failing", "deliver", "stopDesktop", "stopCompositor", "stopRest",
        "exited"}

Published == {"none", "WESTON_STARTING", "LDDE_STARTING", "LDDE_READY",
              "GUI_READY", "GRAPHICAL_SESSION_RECOVERING",
              "GRAPHICAL_SESSION_FAILED", "STOPPING"}

Unreaped(c) == comp[c].child \in {"alive", "zombie"}

-----------------------------------------------------------------------------
(* Plausible bugs: each is a mutated form of the definition further down   *)
(* that its comment names, and breaks a property.  Nothing else uses them. *)

\* StopChild: SIGTERM is sent but nobody waits for the child.
StopChildNoWait(r) ==
  IF r.listed
    THEN [r EXCEPT !.child = IF @ = "alive" THEN "zombie" ELSE @, !.reported = TRUE]
    ELSE r

\* PublishFailure: the state file is left as it was.
PublishNothing == UNCHANGED published

\* PreparedBeacon: prepare() leaves an earlier process's beacon in place.
UnpreparedBeacon(c) == comp[c].beacon

\* GivesUp: no timeout, only the child's death ends the wait.
WaitsForever(c) == comp[c].child # "alive"

\* Reports: stop_process does not enter the pid in emitted_exit_pids_.
ReportsStopped(c) ==
  IF c \in stale THEN TRUE
  ELSE ~comp[c].reported /\ comp[c].child \in {"zombie", "gone"}

\* Reports: exits already recorded are looked up, nothing is polled.
ReportsRecorded(c) ==
  IF c \in stale THEN forgot
  ELSE ~comp[c].reported /\ comp[c].child = "gone"

\* Recoverable: the exit listener does not look at the session's state.
RecoverableAlways == TRUE

\* Concerns: the manager matches the event by name, not by pid.
ConcernsByName(c) == comp[c].held

\* OverBudget: off by one.
OverBudgetByOne(n) == n > MaxAttempts + 1

\* FailSession: the children are not stopped.
FailSessionOnly ==
  /\ recovery' = "Failed" /\ session' = SessionMove(session, "FAILED")
  /\ published' = "GRAPHICAL_SESSION_FAILED"
  /\ UNCHANGED closing
  /\ pc' = "deliver"

(* Process::is_running: not yet reaped by this process. *)
Reap(r) == [r EXCEPT !.child = IF @ \in {"alive", "zombie"} THEN "gone" ELSE @]

(* ProcessSupervisor::stop_process by handle: nothing for a child the      *)
(* registry does not list, else SIGTERM, SIGKILL and wait.                 *)
StopChild(r) == IF r.listed THEN [Reap(r) EXCEPT !.reported = TRUE] ELSE r

StopHeld(r) == IF r.held THEN StopChild(r) ELSE r

(* ProcessSupervisor::stop_all only stops what still runs; a child stopped *)
(* behind its manager's back leaves its beacon behind.                     *)
StopRunning(r) ==
  IF r.child \in {"alive", "zombie"}
    THEN [StopChild(r) EXCEPT !.beacon = IF @ = "good" THEN "stale" ELSE @]
    ELSE r

(* WestonManager::stop and LddeManager::stop. *)
StopManager(c, r) ==
  IF r.mgr \in {"Stopped", "Stopping"} THEN r
  ELSE [StopHeld(r) EXCEPT
          !.mgr = ManagerMove(c, ManagerMove(c, @, "Stopping"), "Stopped"),
          !.held = FALSE, !.beacon = "absent"]

StopIfRunning(c, r) == IF r.mgr = "Running" THEN StopManager(c, r) ELSE r

(* The end of start() when the child did not become ready. *)
FailReadiness(c, r) ==
  [StopHeld(r) EXCEPT !.mgr = ManagerMove(c, @, "Failed"), !.beacon = "absent"]

(* WestonManager::reset and LddeManager::reset. *)
ResetManager(r) ==
  [StopHeld(r) EXCEPT !.mgr = "Created", !.held = FALSE, !.beacon = "absent"]

(* ProcessRegistry::clear, and ProcessSupervisor::reset which also clears  *)
(* emitted_exit_pids_.                                                     *)
Unlist(r) == [r EXCEPT !.listed = FALSE]
Forget(r) == [r EXCEPT !.listed = FALSE, !.reported = FALSE]

(* The readiness detectors.  LDDE's cannot tell a stale file from its own,  *)
(* Weston's not whose server accepts on the socket.                        *)
Connectable == {"good", "foreign"}

Ready(c) ==
  /\ comp[c].child = "alive"
  /\ comp[c].beacon \in (IF c = "ldde" THEN {"good", "stale"} ELSE Connectable)

(* is_running() and is_wayland_socket_active(). *)
CompositorUsable ==
  comp["weston"].mgr = "Running" /\ comp["weston"].beacon \in Connectable

(* SessionPaths::remove_directories: socket and readiness file go too.     *)
RemoveFiles(r) == [r EXCEPT !.beacon = "absent"]

(* The observer of the session's state machine writes the state file on    *)
(* every move to FAILED, STOPPING or RECOVERING; those are also the places *)
(* where the code writes it itself.                                        *)
PublishFailure == published' = "GRAPHICAL_SESSION_FAILED"

-----------------------------------------------------------------------------
(* main(), up to the event loop.                                           *)

Exit(state) == lifecycle' = state /\ pc' = "exited"

Boot ==
  /\ pc = "boot"
  /\ lifecycle' = "STARTING" /\ pc' = "initialize"
  /\ UNCHANGED <<startVars, sigterm, sessionVars, childVars, recoveryVars, passVars>>

\* Signal set-up or configuration fails; or --dry-run.
BootEnds ==
  /\ pc = "boot"
  /\ Exit("FAILED") \/ Exit("STOPPED")
  /\ UNCHANGED <<startVars, sigterm, sessionVars, childVars, recoveryVars, passVars>>

InitializeSession ==
  /\ pc = "initialize"
  /\ session' = SessionMove(SessionMove(session, "INITIALIZING"), "READY")
  /\ pc' = "start"
  /\ UNCHANGED <<startVars, daemonVars, published, childVars, recoveryVars, passVars>>

\* main() returns early: its destructors stop the session all the same.
Abort == lifecycle' = "FAILED" /\ pc' = "stopDesktop"

\* Directories cannot be created; or an executable is not found, which also
\* runs cleanup().
InitializeFails ==
  /\ pc = "initialize"
  /\ session' = SessionMove(SessionMove(session, "INITIALIZING"), "FAILED")
  /\ PublishFailure
  /\ Abort
  /\ \/ UNCHANGED <<comp, closing>>
     \/ \E c \in Comp :
          /\ comp' = [comp EXCEPT ![c].mgr = ManagerMove(c, @, "Failed")]
          /\ closing' = TRUE
  /\ UNCHANGED <<startVars, sigterm, leaked, recoveryVars, passVars>>

StartSession ==
  /\ pc = "start"
  /\ session' = SessionMove(session, "STARTING")
  /\ published' = "WESTON_STARTING"
  /\ target' = "weston" /\ pc' = "spawn"
  /\ UNCHANGED <<op, daemonVars, childVars, recoveryVars, passVars>>

-----------------------------------------------------------------------------
(* WestonManager::start and LddeManager::start: prepare, spawn, wait until *)
(* ready.  The same code runs at boot, in a component restart and in a     *)
(* session restart; op says where it returns to.                           *)

StartFailed == pc' = IF op = "component" THEN "recoveryFailed" ELSE "rollback"

\* prepare() removes what a previous process left, unless a server still
\* accepts on the socket.
PreparedBeacon(c) == IF comp[c].beacon = "foreign" THEN "foreign" ELSE "absent"

SpawnComponent ==
  /\ pc = "spawn" /\ comp[target].mgr = "Created" /\ ~closing
  /\ comp' = [comp EXCEPT ![target] =
       [mgr |-> "WaitingReady", held |-> TRUE, child |-> "alive",
        listed |-> TRUE, reported |-> FALSE, beacon |-> PreparedBeacon(target)]]
  /\ leaked' = (leaked \/ Unreaped(target))
  /\ stale' = stale \cup {target}
  /\ pc' = "wait"
  /\ UNCHANGED <<startVars, daemonVars, sessionVars, closing, recoveryVars, snap, forgot>>

\* The manager is not in Created, preparation fails, or fork/exec fails.
SpawnFails ==
  /\ pc = "spawn"
  /\ comp' = [comp EXCEPT ![target].mgr = IF @ = "Created" THEN "Failed" ELSE @]
  /\ StartFailed
  /\ UNCHANGED <<startVars, daemonVars, sessionVars, closing, leaked, recoveryVars, passVars>>

CompositorReady ==
  /\ pc = "wait" /\ target = "weston" /\ Ready("weston")
  /\ comp' = [comp EXCEPT
       !["weston"].mgr = ManagerMove("weston", @, "Running"),
       !["ldde"] = IF op = "component" THEN ResetManager(@) ELSE @]
  /\ published' = "LDDE_STARTING"
  /\ target' = "ldde" /\ pc' = "spawn"
  /\ UNCHANGED <<op, daemonVars, session, closing, leaked, recoveryVars, passVars>>

DesktopReady ==
  /\ pc = "wait" /\ target = "ldde" /\ Ready("ldde")
  /\ comp' = [comp EXCEPT !["ldde"].mgr = ManagerMove("ldde", @, "Running")]
  /\ IF op = "component"
       THEN published' = "LDDE_READY" /\ UNCHANGED session
       ELSE published' = "GUI_READY" /\ session' = SessionMove(session, "RUNNING")
  /\ IF op = "boot"
       THEN lifecycle' = "RUNNING" /\ pc' = "loop"
       ELSE pc' = "verify" /\ UNCHANGED lifecycle
  /\ UNCHANGED <<startVars, sigterm, closing, leaked, recoveryVars, passVars>>

\* The child exited, reported an error, or the timeout passed.
GivesUp(c) == ~Ready(c)

ReadinessFails ==
  /\ pc = "wait" /\ GivesUp(target)
  /\ comp' = [comp EXCEPT ![target] = FailReadiness(target, @)]
  /\ StartFailed
  /\ UNCHANGED <<startVars, daemonVars, sessionVars, closing, leaked, recoveryVars, passVars>>

\* Session::start stops what it had started, in reverse order.
Rollback ==
  /\ pc = "rollback"
  /\ comp' = IF target = "ldde"
               THEN [comp EXCEPT !["weston"] = StopManager("weston", @)]
               ELSE comp
  /\ session' = SessionMove(session, "FAILED")
  /\ PublishFailure
  /\ IF op = "boot" THEN Abort
                    ELSE pc' = "recoveryFailed" /\ UNCHANGED lifecycle
  /\ UNCHANGED <<startVars, sigterm, closing, leaked, recoveryVars, passVars>>
-----------------------------------------------------------------------------
(* The event loop of main() and ProcessSupervisor::reap_exited_processes.  *)

BeginReap ==
  /\ pc = "loop" /\ ~sigterm
  /\ snap' = {c \in Comp : comp[c].listed}
  /\ stale' = {} /\ forgot' = FALSE
  /\ pc' = "reap"
  /\ UNCHANGED <<startVars, daemonVars, sessionVars, childVars, recoveryVars>>

(* Does the pass report the exit of the object it holds for c?  An object  *)
(* replaced during the pass was stopped, hence reported, unless reset()    *)
(* has forgotten that.                                                     *)
Reports(c) ==
  IF c \in stale THEN forgot
  ELSE ~comp[c].reported /\ comp[c].child \in {"zombie", "gone"}

ReapSkip(c) ==
  /\ pc = "reap" /\ c \in snap /\ ~Reports(c)
  /\ snap' = snap \ {c}
  /\ UNCHANGED <<pc, startVars, daemonVars, sessionVars, childVars, recoveryVars, stale, forgot>>

\* The session's exit listener runs first and recovers a running session.
Recoverable == session = "RUNNING"

ReapExit(c) ==
  /\ pc = "reap" /\ c \in snap /\ Reports(c)
  /\ snap' = snap \ {c}
  /\ cause' = c
  /\ comp' = IF c \in stale THEN comp
             ELSE [comp EXCEPT ![c] = [Reap(@) EXCEPT !.reported = TRUE]]
  /\ IF Recoverable
       THEN pc' = "recover" /\ published' = "GRAPHICAL_SESSION_RECOVERING"
       ELSE pc' = "deliver" /\ UNCHANGED published
  /\ UNCHANGED <<startVars, daemonVars, session, closing, leaked, recovery, attempts, stale, forgot>>

\* The managers' listeners: only the manager that still holds the process
\* the event is about takes notice.
Concerns(c) == c \notin stale /\ comp[c].held

Deliver ==
  /\ pc = "deliver"
  /\ comp' = IF Concerns(cause)
               THEN [comp EXCEPT ![cause].mgr =
                      IF @ \in {"Starting", "WaitingReady", "Running"}
                        THEN ManagerMove(cause, @, "Failed") ELSE @]
               ELSE comp
  /\ pc' = "reap"
  /\ UNCHANGED <<startVars, daemonVars, sessionVars, closing, leaked, recoveryVars, passVars>>

ReapDone ==
  /\ pc = "reap" /\ snap = {}
  /\ pc' = "loop"
  /\ UNCHANGED <<startVars, daemonVars, sessionVars, childVars, recoveryVars, passVars>>

-----------------------------------------------------------------------------
(* RecoveryManager::recover.                                               *)

Policy == IF AllowComponentRestart THEN "component"
          ELSE IF AllowSessionRestart THEN "session" ELSE "fail"

PreconditionsMet == RecoveryEnabled /\ MaxAttempts > 0

OverBudget(n) == n > MaxAttempts

\* Session::fail, up to the point where the supervisor stops the children.
FailSession ==
  /\ recovery' = "Failed"
  /\ session' = SessionMove(session, "FAILED")
  /\ PublishFailure
  /\ closing' = TRUE
  /\ pc' = "failing"

\* purge_expired_attempts keeps the attempts still inside the window: how
\* many that is depends on when they were made (see RecoveryBudget).
RecoveryRefused ==
  /\ pc = "recover" /\ ~PreconditionsMet
  /\ \E kept \in 0..attempts : attempts' = kept
  /\ FailSession
  /\ UNCHANGED <<startVars, daemonVars, comp, leaked, cause, passVars>>

RecoveryExhausted ==
  /\ pc = "recover" /\ PreconditionsMet
  /\ \E kept \in 0..attempts :
       /\ attempts' = kept + 1
       /\ OverBudget(kept + 1) \/ Policy = "fail"
  /\ FailSession
  /\ UNCHANGED <<startVars, daemonVars, comp, leaked, cause, passVars>>

\* Ends with the backoff sleep.
RecoveryAdmitted ==
  /\ pc = "recover" /\ PreconditionsMet /\ Policy # "fail"
  /\ \E kept \in 0..attempts :
       /\ attempts' = kept + 1
       /\ ~OverBudget(kept + 1)
  /\ recovery' = "Recovering"
  /\ session' = SessionMove(session, "RECOVERING")
  /\ op' = Policy
  /\ pc' = "execute"
  /\ UNCHANGED <<target, daemonVars, published, childVars, cause, passVars>>

\* recover_ldde_component on a usable compositor.
RestartDesktop ==
  /\ pc = "execute" /\ op = "component" /\ cause = "ldde" /\ CompositorUsable
  /\ comp' = [comp EXCEPT !["ldde"] = ResetManager(StopManager("ldde", @))]
  /\ recovery' = "Verifying"
  /\ published' = "LDDE_STARTING"
  /\ target' = "ldde" /\ pc' = "spawn"
  /\ UNCHANGED <<op, daemonVars, session, closing, leaked, attempts, cause, passVars>>

\* recover_weston_component, also when LDDE's recovery escalates, and
\* execute_session_restart stop LDDE first.
QuiesceDesktop ==
  /\ pc = "execute"
  /\ op = "session" \/ cause = "weston" \/ ~CompositorUsable
  /\ comp' = [comp EXCEPT !["ldde"] = StopManager("ldde", @)]
  /\ pc' = "quiesced"
  /\ UNCHANGED <<startVars, daemonVars, sessionVars, closing, leaked, recoveryVars, passVars>>

StartCompositor ==
  /\ recovery' = "Verifying"
  /\ published' = "WESTON_STARTING"
  /\ target' = "weston" /\ pc' = "spawn"
  /\ UNCHANGED <<op, daemonVars, leaked, attempts, cause, snap, stale>>

RestartCompositor ==
  /\ pc = "quiesced" /\ op = "component"
  /\ comp' = [comp EXCEPT !["weston"] = ResetManager(StopManager("weston", @))]
  /\ StartCompositor
  /\ UNCHANGED <<session, closing, forgot>>

\* execute_session_restart: stop_all, reset of supervisor and managers, and
\* the session's way back to STARTING; STOPPED is refused from RECOVERING
\* and the refusal is ignored.
RestartSession ==
  /\ pc = "quiesced" /\ op = "session"
  /\ comp' = [c \in Comp |->
       LET stopped == IF c = "weston" THEN StopManager(c, comp[c]) ELSE comp[c]
       IN  ResetManager(Forget(StopRunning(stopped)))]
  /\ closing' = FALSE /\ forgot' = TRUE
  /\ LET quiesced == SessionMove(session, "STOPPED")
         again    == SessionMove(SessionMove(quiesced, "INITIALIZING"), "READY")
     IN  session' = SessionMove(again, "STARTING")
  /\ StartCompositor

Verified == CompositorUsable /\ comp["ldde"].mgr = "Running"

\* verify_graphical_session_readiness, and the end of recover().
RecoverySucceeds ==
  /\ pc = "verify" /\ Verified
  /\ recovery' = "Recovered"
  /\ session' = IF session = "RECOVERING" THEN SessionMove(session, "RUNNING")
                ELSE session
  /\ published' = "GUI_READY"
  /\ pc' = "deliver"
  /\ UNCHANGED <<startVars, daemonVars, childVars, attempts, cause, passVars>>

RecoveryFails ==
  /\ pc = "recoveryFailed" \/ (pc = "verify" /\ ~Verified)
  /\ FailSession
  /\ UNCHANGED <<startVars, daemonVars, comp, leaked, attempts, cause, passVars>>

\* stop_all walks an unordered map.
FailStopsChild(c) ==
  /\ pc = "failing" /\ comp[c].listed /\ Unreaped(c)
  /\ comp' = [comp EXCEPT ![c] = StopRunning(@)]
  /\ UNCHANGED <<pc, startVars, daemonVars, sessionVars, closing, leaked, recoveryVars, passVars>>

\* Then the managers that believe they run are stopped, desktop first, and
\* the listener publishes the failure.
FailDone ==
  /\ pc = "failing" /\ \A c \in Comp : ~(comp[c].listed /\ Unreaped(c))
  /\ comp' = [c \in Comp |-> RemoveFiles(StopIfRunning(c, Unlist(comp[c])))]
  /\ PublishFailure
  /\ pc' = "deliver"
  /\ UNCHANGED <<startVars, daemonVars, session, closing, leaked, recoveryVars, passVars>>

-----------------------------------------------------------------------------
(* The tail of main(), or the destructors of an aborted one, both through  *)
(* SessionManager::stop_all_sessions and Session::stop.  STOPPED is not    *)
(* published: with clean_runtime_dir_on_stop its file would not outlive it.*)

BeginShutdown ==
  /\ pc = "loop" /\ sigterm
  /\ lifecycle' = LifecycleMove(lifecycle, "STOPPING")
  /\ session' = IF session = "FAILED" THEN session
                ELSE SessionMove(session, "STOPPING")
  /\ published' = IF session = "FAILED" THEN published ELSE "STOPPING"
  /\ pc' = "stopDesktop"
  /\ UNCHANGED <<startVars, sigterm, childVars, recoveryVars, passVars>>

ShutComponent(c, at, next) ==
  /\ pc = at
  /\ comp' = [comp EXCEPT ![c] = StopIfRunning(c, @)]
  /\ pc' = next
  /\ UNCHANGED <<startVars, daemonVars, sessionVars, closing, leaked, recoveryVars, passVars>>

\* ShutDesktop: components are stopped in the order they were started.
ShutCompositorFirst == ShutComponent("weston", "stopDesktop", "stopCompositor")

ShutDesktop    == ShutComponent("ldde", "stopDesktop", "stopCompositor")
ShutCompositor == ShutComponent("weston", "stopCompositor", "stopRest")

ShutRest ==
  /\ pc = "stopRest"
  /\ comp' = [c \in Comp |-> RemoveFiles(Unlist(StopRunning(comp[c])))]
  /\ closing' = TRUE
  /\ session' = SessionMove(session, "STOPPED")
  /\ Exit(LifecycleMove(lifecycle, "STOPPED"))
  /\ UNCHANGED <<startVars, sigterm, published, leaked, recoveryVars, passVars>>

Exited == pc = "exited" /\ UNCHANGED vars

-----------------------------------------------------------------------------
(* The environment.                                                        *)

\* A Wayland server that dies leaves a socket nobody listens on; LDDE leaves
\* its readiness file.
Crash(c) ==
  /\ comp[c].child = "alive"
  /\ comp' = [comp EXCEPT
       ![c].child  = "zombie",
       ![c].beacon = IF @ = "good" THEN "stale" ELSE @]
  /\ UNCHANGED <<pc, startVars, daemonVars, sessionVars, closing, leaked, recoveryVars, passVars>>

\* Weston listens on its socket, which no other server may hold; LDDE writes
\* STATUS=READY or STATUS=FAILED.
Announce(c) ==
  /\ comp[c].child = "alive" /\ comp[c].beacon \in {"absent", "stale", "vacated"}
  /\ \E b \in (IF c = "ldde" THEN {"good", "bad"} ELSE {"good"}) :
       comp' = [comp EXCEPT ![c].beacon = b]
  /\ UNCHANGED <<pc, startVars, daemonVars, sessionVars, closing, leaked, recoveryVars, passVars>>

\* The other server on Weston's socket dies.
ForeignDies ==
  /\ comp["weston"].beacon = "foreign"
  /\ comp' = [comp EXCEPT !["weston"].beacon = "vacated"]
  /\ UNCHANGED <<pc, startVars, daemonVars, sessionVars, closing, leaked, recoveryVars, passVars>>

Sigterm ==
  /\ ~sigterm /\ pc \notin {"boot", "exited"}
  /\ sigterm' = TRUE
  /\ UNCHANGED <<pc, startVars, lifecycle, sessionVars, childVars, recoveryVars, passVars>>

-----------------------------------------------------------------------------
\* The daemon starts among what an earlier run may have left behind.
Init ==
  /\ config \in Configs
  /\ pc = "boot" /\ op = "boot" /\ target = "weston"
  /\ lifecycle = "CREATED" /\ sigterm = FALSE
  /\ session = "CREATED" /\ published = "none"
  /\ comp \in [Comp -> {[mgr |-> "Created", held |-> FALSE, child |-> "none",
                         listed |-> FALSE, reported |-> FALSE, beacon |-> b] :
                          b \in {"absent", "stale", "foreign"}}]
  /\ comp["ldde"].beacon # "foreign"
  /\ closing = FALSE /\ leaked = FALSE
  /\ recovery = "Idle" /\ attempts = 0 /\ cause = "weston"
  /\ snap = {} /\ stale = {} /\ forgot = FALSE

DaemonStep ==
  /\ UNCHANGED config
  /\ \/ Boot \/ BootEnds \/ InitializeSession \/ InitializeFails \/ StartSession
     \/ SpawnComponent \/ SpawnFails \/ CompositorReady \/ DesktopReady
     \/ ReadinessFails \/ Rollback
     \/ BeginReap \/ ReapDone \/ Deliver
     \/ \E c \in Comp : ReapSkip(c) \/ ReapExit(c) \/ FailStopsChild(c)
     \/ RecoveryRefused \/ RecoveryExhausted \/ RecoveryAdmitted
     \/ RestartDesktop \/ QuiesceDesktop \/ RestartCompositor \/ RestartSession
     \/ RecoverySucceeds \/ RecoveryFails \/ FailDone
     \/ BeginShutdown \/ ShutDesktop \/ ShutCompositor \/ ShutRest

EnvironmentStep ==
  /\ UNCHANGED config
  /\ Sigterm \/ ForeignDies \/ \E c \in Comp : Crash(c) \/ Announce(c)

Next == DaemonStep \/ EnvironmentStep \/ Exited

Spec == Init /\ [][Next]_vars

\* The daemon's thread runs; nothing is assumed of the environment.
FairSpec == Spec /\ WF_vars(DaemonStep)
-----------------------------------------------------------------------------
\* Types, and the bound on the log of attempts.  config is not among them: it is
\* chosen from Configs and never assigned.
TypeOK ==
  /\ pc \in PCs /\ op \in {"boot", "component", "session"} /\ target \in Comp
  /\ lifecycle \in LifecycleStates /\ sigterm \in BOOLEAN
  /\ session \in SessionStates /\ published \in Published
  /\ comp \in [Comp -> Component]
  /\ closing \in BOOLEAN /\ leaked \in BOOLEAN
  /\ recovery \in RecoveryStates /\ attempts \in 0..(MaxAttempts + 1)
  /\ cause \in Comp
  /\ snap \subseteq Comp /\ stale \subseteq Comp /\ forgot \in BOOLEAN

(* Safety.                                                                 *)

\* No path of start-up, rollback, component restart or session restart
\* starts a child while the one before it is alive or waits to be reaped.
NoLeakedChild == ~leaked

\* main() returns only when every child it started has been stopped and
\* reaped, whichever of its exits is taken.
NothingOutlivesDaemon == pc = "exited" => \A c \in Comp : ~Unreaped(c)

\* Back in the event loop after Session::fail, no child is left running:
\* a failed session costs nothing while the daemon waits for its signal.
FailedMeansQuiet ==
  session = "FAILED" /\ pc = "loop" => \A c \in Comp : ~Unreaped(c)

\* In the event loop a RUNNING session has both managers in Running, each
\* holding a child that the next reap pass will look at, so that no exit
\* can go unnoticed; and the supervisor can still start a replacement.
RunningMeansSupervised ==
  session = "RUNNING" /\ pc = "loop" =>
    /\ ~closing
    /\ \A c \in Comp :
         /\ comp[c].mgr = "Running" /\ comp[c].held
         /\ comp[c].listed /\ ~comp[c].reported

\* LDDE is being awaited or runs only under a compositor whose manager is
\* Running: start order, rollback, escalation and stop order together.
DesktopNeedsCompositor ==
  comp["ldde"].mgr \in {"WaitingReady", "Running"} =>
    comp["weston"].mgr = "Running"

\* A manager believes its live child ready only on that child's own word,
\* never on a socket or readiness file left by a process before it.  Only the
\* first Weston may be taken for another server, whose socket prepare() spares;
\* the one a recovery starts may not: stopping the first removed that socket.
ReadinessIsFresh ==
  \A c \in Comp :
    comp[c].mgr = "Running" /\ comp[c].child = "alive" =>
      \/ comp[c].beacon = "good"
      \/ c = "weston" /\ comp[c].beacon \in Others /\ (op = "boot" \/ c \notin stale)

\* What the state file says between two passes of the event loop is what
\* the session is: GUI_READY while RUNNING, and never a recovery that ended.
StateFileIsTrue ==
  pc = "loop" =>
    published = (IF session = "RUNNING" THEN "GUI_READY"
                 ELSE "GRAPHICAL_SESSION_FAILED")

\* The same, at every point where the daemon is on its way to the loop.
StateFileInv ==
  pc \in {"loop", "reap", "deliver"} =>
    published = (IF session = "RUNNING" THEN "GUI_READY"
                 ELSE "GRAPHICAL_SESSION_FAILED")

\* docs/recovery.md: components are recovered from unexpected exits; the
\* exit of a process that recovery itself stopped and replaced is not one,
\* although the reap pass goes on over its old copy.  Without component
\* restarts it can be: the session restart clears emitted_exit_pids_.
RecoveryOnlyOnUnexpectedExit ==
  pc = "recover" /\ AllowComponentRestart => cause \notin stale

(* The inductive invariant: what the daemon knows at each point of its     *)
(* control flow.  Between two steps every component is                     *)
(*   Supervised  running for its manager and looked at by the next pass,   *)
(*   Lost        gone although its manager still says Running, or          *)
(*   Quiet       without a process, and its manager does not claim one.    *)
Supervised(c) ==
  /\ comp[c].mgr = "Running" /\ comp[c].held
  /\ comp[c].listed /\ ~comp[c].reported
  /\ Unreaped(c)

Lost(c) == comp[c].mgr = "Running" /\ ~Unreaped(c)

Quiet(c) == comp[c].mgr \notin {"WaitingReady", "Running"} /\ ~Unreaped(c)

Awaited(c) ==
  /\ comp[c].mgr = "WaitingReady" /\ comp[c].held
  /\ comp[c].listed /\ ~comp[c].reported
  /\ Unreaped(c) /\ c \in stale

Operational(state) == session = state /\ ~closing /\ \A c \in Comp : Supervised(c)

GivenUp == session = "FAILED" /\ \A c \in Comp : Quiet(c)

\* Everything that starts a component has the other one in order.
OthersInOrder == IF target = "weston" THEN Quiet("ldde") ELSE Supervised("weston")

\* A recovery that restarts Weston restarts it before LDDE.
CauseReplaced == cause = "weston" /\ target = "ldde" /\ op # "boot" => cause \in stale

StartingUp ==
  session = (IF op = "component" THEN "RECOVERING" ELSE "STARTING") /\ ~closing

PreviouslyRunning == \A c \in Comp : Supervised(c) \/ (Lost(c) /\ c = cause)

ControlInv ==
  /\ pc \in {"boot", "initialize", "start"} =>
       /\ op = "boot" /\ ~closing /\ session = (IF pc = "start" THEN "READY" ELSE "CREATED")
       /\ \A c \in Comp : Quiet(c)
  /\ pc = "spawn" => StartingUp /\ Quiet(target) /\ OthersInOrder /\ CauseReplaced
  /\ pc = "wait" => StartingUp /\ Awaited(target) /\ OthersInOrder /\ CauseReplaced
  /\ pc = "rollback" =>
       op # "component" /\ StartingUp /\ Quiet(target) /\ OthersInOrder
  /\ pc \in {"loop", "reap"} => Operational("RUNNING") \/ GivenUp
  /\ pc = "deliver" => (Operational("RUNNING") /\ cause \in stale) \/ GivenUp
  /\ pc = "recover" => session = "RUNNING" /\ ~closing /\ PreviouslyRunning
  /\ pc = "execute" =>
       session = "RECOVERING" /\ ~closing /\ PreviouslyRunning /\ op # "boot"
  /\ pc = "quiesced" =>
       /\ session = "RECOVERING" /\ ~closing /\ op # "boot"
       /\ Quiet("ldde") /\ (Supervised("weston") \/ Lost("weston"))
  /\ pc = "verify" =>
       /\ Operational(IF op = "component" THEN "RECOVERING" ELSE "RUNNING")
       /\ op # "boot" /\ cause \in stale
  /\ pc = "recoveryFailed" =>
       /\ session \in {"RECOVERING", "FAILED"}
       /\ Quiet("ldde") /\ (Supervised("weston") \/ Quiet("weston"))
  /\ pc = "failing" =>
       /\ session = "FAILED"
       /\ \A c \in Comp : Supervised(c) \/ Lost(c) \/ Quiet(c)
       /\ comp["ldde"].mgr = "Running" => comp["weston"].mgr = "Running"
  /\ pc = "stopDesktop" => Operational("STOPPING") \/ GivenUp
  /\ pc = "stopCompositor" =>
       Quiet("ldde") /\ (Supervised("weston") \/ Quiet("weston"))
  /\ pc \in {"stopRest", "exited"} => \A c \in Comp : Quiet(c)

\* Beacons: a live child's is its own, or another server's.
BeaconInv ==
  \A c \in Comp : comp[c].child = "alive" =>
    /\ comp[c].beacon # "stale"
    /\ comp[c].mgr = "Running" =>
         comp[c].beacon = "good" \/ (c = "weston" /\ comp[c].beacon \in Others)

\* Another server's socket is there until a recovery restarts Weston.
OthersInv ==
  comp["weston"].beacon \in Others =>
    IF op = "boot"
      THEN pc \in {"reap", "recover", "recoveryFailed", "failing", "deliver"} =>
             "weston" \notin stale
      ELSE "weston" \notin stale /\ ~(pc = "spawn" /\ target = "weston")

\* A session that has spent its budget has failed.
BudgetInv == session # "FAILED" => attempts <= MaxAttempts

SessionInv ==
  TypeOK /\ BudgetInv /\ ControlInv /\ BeaconInv /\ NoLeakedChild /\ StateFileInv

(* Action properties.                                                      *)

\* docs/ldde.md: "Orderly reverse teardown guarantees that LDDE terminates
\* before Weston".
DesktopFirst ==
  comp["weston"].child = "alive" /\ comp'["weston"].child = "gone"
    => comp'["ldde"].child # "alive"

\* The daemon never stops Weston under a live LDDE, on any path but
\* Session::fail, whose stop_all walks a hash map before the components are
\* stopped in order.  With component restarts on not there either, as a child
\* is gone by then; unless LDDE alone was restarted, under a Weston taken for
\* another server that died before the result was verified.
OrderedTeardown ==
  [][pc # "failing" \/ (AllowComponentRestart /\ stale # {"ldde"}) => DesktopFirst]_vars

(* Liveness, under FairSpec.                                               *)

\* A termination signal ends the daemon, also in the middle of start-up or
\* recovery and whatever the children do.
SigtermObeyed == sigterm ~> pc = "exited"

\* Every child that dies is reaped.
EveryExitReaped ==
  \A c \in Comp : comp[c].child = "zombie" ~> comp[c].child # "zombie"

\* A degraded session does not stay degraded.
RecoverySettles == session = "RECOVERING" ~> session \in {"RUNNING", "FAILED"}

-----------------------------------------------------------------------------
(* The daemon implements SessionContract.  running is the set of children  *)
(* not reaped yet; a session restart is one recovery however many session  *)
(* states it walks through.                                                *)

phaseOf ==
  CASE pc = "exited"          -> "ended"
    [] pc # "exited" /\ session = "FAILED" -> "failed"
    [] pc # "exited" /\ session \in {"RUNNING", "STOPPING"} -> "gui"
    [] OTHER -> IF op = "boot" THEN "starting" ELSE "recovering"

Contract == INSTANCE SessionContract WITH
  Parts <- Comp, phase <- phaseOf, running <- {c \in Comp : Unreaped(c)}

\* The detailed daemon keeps the contract of a session: what it shows is
\* brought up, lost, recovered, given up and ended as SessionContract says.
SessionKeepsContract == Contract!ContractSpec
=============================================================================
