# A TLA+ model of LDDM

LDDM is the LinuxDroid Display Manager: a daemon that starts a Wayland
compositor (Weston) and a desktop (LDDE), watches both, recovers them when they
die, and takes everything down on SIGTERM. This directory holds TLA+ modules
translated from its C++ sources, TLC configurations that check them on small
instances, and proofs that TLAPS checks for every value of the constants.
`PROJECT.json` relates definitions to source lines, lists the runs, the mutated
definitions that show each property can fail, the hazards, the findings and
the theorems. Paths below are relative to the repository.

## 1. Inventory

| Component | State it keeps | Operations | Hard behaviour |
|---|---|---|---|
| Daemon (`src/main.cpp`, `src/core/lifecycle.cpp`, `src/platform/signal_handler.cpp`) | lifecycle machine, `termination_requested_` | boot, 100 ms event loop that reaps, shutdown | SIGTERM at any moment, also inside a readiness wait or a backoff; early returns that leave the teardown to destructors |
| Session (`src/session/session.cpp`, `session_state.cpp`) | state machine, state file, list of components | `initialize`, `prepare`, `start`, `stop`, `fail`, `cleanup`, exit listener | roll back a start that fails half-way; the listener recovers in the middle of a reap pass; `cleanup` takes no mutex |
| Recovery manager (`src/recovery/`) | `state_`, attempt timestamps, configuration | `recover`, component restart, session restart, `reset`, `set_config` | unlocked backoff, sliding window, reentrance, what exhausted recovery leaves behind |
| Weston and LDDE managers (`src/weston/`, `src/ldde/`) | eight-state machine, process handle | `initialize`, `prepare`, `start` with a readiness wait, `stop`, `reset`, exit listener | exits before, during and after the wait; beacons left by an earlier process, a socket another server accepts on; late events; each manager's events take the other's mutex |
| Process supervisor (`src/process/process_supervisor.cpp`, `process_registry.cpp`) | registry, `emitted_exit_pids_`, `shutting_down_` | start, stop, kill, `stop_all`, `reset`, reap | each step is a critical section of its own; passes walk a copy of what others change; pids come back |
| Process (`src/process/process.cpp`, `src/platform/process.cpp`) | `state_`, pid, exit information, one mutex | `start`, `stop`, `kill`, `wait`, `poll`, destructor | zombies, pids that are given back, SIGTERM ignored, timeouts, several threads |
| Session manager (`src/session/session_manager.cpp`) | map of sessions, active session | create, register, activate, stop, remove, stop all | erase before stop; the map is copied, then walked without the mutex |
| Configuration (`src/config/`) | the daemon's copy; files | parse, validate, detect a version, migrate, search path | what the parser reads and the migrator writes must agree; crash, full disk, two migrations at once |
| Paths, environment, resources, identifiers (`src/session/session_*.cpp`) | directories, layered variables, tracked resources | create, remove, merge | order of the layers, removal on stop |
| Component configuration and launch specifications, diagnostics, logging, errors, platform wrappers, packaging | data | – | – |

How they interact. `main()` loads the configuration and owns one `SessionManager` with one
`Session`; the session owns the supervisor and the recovery manager and calls the two component
managers in order. Children die on their own. The event loop calls `reap_exited_processes`; for each
exit the supervisor calls its listeners in the order in which they registered: the session's first,
which publishes RECOVERING and calls `RecoveryManager::recover`, which stops and restarts components
through the same supervisor **inside** the pass; then the managers', which by now may hold another
process. Weston tells that it is ready by accepting connections on a socket, LDDE by a file; both
outlive the process that made them, and the socket may be another live server's. `lddm
--migrate-config` is a process of its own that rewrites the files the daemon reads.

The daemon has one thread. Its classes are built for several (every one has a
mutex, and `docs/development.md` asks for it), so the modules below the daemon
are checked with several threads: those are the guarantees a caller with a second
thread would get.

What makes each component correct:

* daemon – SIGTERM always ends it, with no child left;
* session – RUNNING means two supervised children, FAILED means none, the state file agrees, a
  failed session is not revived;
* recovery – only unexpected exits are recovered, at most `max_attempts` times in a window, by one
  thread at a time, and every recovery ends;
* managers – a new child is never started over an old one, and is believed ready only on its own
  word (the first Weston excepted, when another server had the socket); LDDE lives only above a
  running compositor; a manager that rests has no child, and one whose child's exit was announced
  does not claim to run;
* supervisor – what runs is listed, an exit is reported once, after `stop_all` nothing that was
  there runs;
* process – signals only ever go to the process's own child, the exit is recorded exactly when the
  child is reaped, stop always succeeds, dropping the object leaves nothing behind, and all methods
  are atomic to their callers;
* session manager – the active session is a listed one, a removed session is quiet and leaves no
  directories, `stop_all_sessions` stops what was listed;
* configuration – a migration, whole or interrupted, does not change the settings the daemon sees; a
  second one changes nothing.

## 2. Modules

| Module | What it is |
|---|---|
| `StateTables` | the transition tables of sessions, managers, lifecycle and recovery |
| `GraphicalSession` | the daemon, its session, both managers, supervisor and recovery manager as the single-threaded daemon runs them, with crashing children and SIGTERM |
| `SessionContract` | abstract: a graphical session as a phase and a set of components that have a process; `GraphicalSession` implements it |
| `RecoveryBudget` | `RecoveryManager` as an object shared by threads: window, admission, backoff without the mutex, reset, a clock that is stepped |
| `Process` | one `Process` object shared by threads over the kernel: zombies, process group, signals, blocking waits under the mutex |
| `ProcessContract` | abstract: a process whose methods take effect at once; `Process` implements it, `ProcessSupervisor` and `ComponentManagers` are built on it |
| `ProcessSupervisor` | supervisor and registry shared by starting, stopping and reaping threads over a kernel that reuses pids |
| `ComponentManagers` | Weston's and LDDE's manager shared by threads, their two recursive mutexes and the listeners that take both |
| `SessionManager` | the map of sessions, the sessions' own lifecycle and their directories, shared by threads |
| `Configuration` | files of lines, the parser, the validator, the migrator with crashes and a full disk, the daemon's search path |
| `MC...` | instances for TLC |
| `..._proofs` | theorems and proofs: one module per component of that name, and `SessionContract_proofs`, the refinement of `SessionContract` by `GraphicalSession` |

How they fit together. `GraphicalSession` composes everything the daemon uses, with the one
thread it has. The others each open one class to all its callers and
abstract the classes below it: `ProcessSupervisor` and `ComponentManagers` use a process as
`ProcessContract` describes it (atomic methods, nothing left after `stop`), which
`Process` is proved to implement; `ComponentManagers` uses the supervisor through its events,
`SessionManager` uses a session's components through "has children or has none".

### GraphicalSession

`pc` is the daemon's program counter. One action is one stretch of code between
two points at which the fate of a child, or a signal, can matter: a spawn, a
readiness wait, the backoff, a stop. So `SpawnComponent` stands for
`prepare()` and the first half of `start()`, `CompositorReady`, `DesktopReady` and
`ReadinessFails` for the end of the wait and everything up to the next spawn,
`RestartDesktop`, `RestartCompositor` and `RestartSession` for the three recovery
procedures up to their spawn, `FailSession`, `FailStopsChild` and `FailDone` for
`Session::fail` (in three parts, because `stop_all` walks a hash map in an order
nobody chose), and the three `Shut` actions for `stop_all_sessions`. The same
spawn and wait serve boot, component restart and session restart, as in the code;
`op` says where they return. `config` is the setting of the switches of
`RecoveryConfig`, chosen at the start and never changed.

`comp` keeps, for each component, the manager's state and handle, the kernel's child (`alive`,
`zombie`, `gone`), whether the registry lists it and its exit has been reported, and its beacon
(Weston's socket, LDDE's file). `snap` is the copy of the registry a reap pass walks, `stale` the
components replaced since it was taken, `forgot` says that `emitted_exit_pids_` was cleared during
the pass. With those, a pass that continues after a recovery inside it behaves as the code does. A
beacon is what the child said (`good`, or `bad`: LDDE failed), an earlier process's (`stale`), or
that of a server the daemon did not start (`foreign`, and `vacated` once that server is dead).
`prepare()` and the recovery remove a socket only if nobody accepts on it (`PreparedBeacon`),
readiness is a live child and a socket that accepts (`Ready`), and `WestonManager::stop` and `reset`
unlink the socket whoever serves it. `published` is the state file; it is written where the code
writes it, the observer of the session's state machine included.

Abstracted: a server that the daemon did not start is there before the daemon or not at all, an LDDE
that outlived an earlier daemon does not write the readiness file again, a pid is never reused (that
is `ProcessSupervisor`'s subject); the number of attempts inside the window is any number up to the
attempts made (what the window guarantees is `RecoveryBudget`'s); a readiness wait may time out at
any moment; wording, paths, environments and diagnostics are left out.

`SessionContract` is what a client may rely on. `SessionKeepsContract` is the
refinement: `phaseOf` and the set of unreaped children implement
it, so a child is started only while the session comes up, never over one that
is there, `gui` is shown only with both parts started, nothing restarts after
`failed`, and `ended` has no process.

### RecoveryBudget

`recover()` is split where it holds no mutex. `Admitted` is everything up to
`lock.unlock()`; `Wake` the end of the sleep and `lock()`; `Verify` the part
of `execute_recovery` in which the replacement is started; `Succeeds` and `Fails` the two
ends. `owner` is the holder of the recursive mutex between actions: with
`restart_session`, whose own lock the unlock does not release, it stays held
through the backoff (`nested`). `Refused` and `Exhausted` are the requests that
are turned down; they too purge and extend the log. Time is discrete; `skew` is
the difference between `system_clock`, which stamps the attempts, and real time,
`stepped` a history of its having changed. `admitted` is a history variable: the recoveries that were run.

`SetConfig` changes `enabled` alone; limit and window stay what they were (no caller in the repository
changes them). Left out: a request by the thread that is itself restarting components (the
recursive mutex would let it in; the state makes it an ignored request).

### Process and ProcessContract

One action per stretch between two system calls. All methods hold `mutex_` from
first line to last, so `at[t]` is either a method that waits for the mutex, a
place inside one (`spawning`, `grace`, `killing`, `waiting`, `destroying`), or idle. The
kernel keeps the child as `none`, `alive`, `zombie`, `reaped`; a helper may live
in its group; `deaf`, `term` and `doomed` say who ignores SIGTERM and who was sent
what: a signal reaches who is in the group by then, and a child with a SIGKILL pending
forks no more. The grace period ends at any moment. `stray` records that a `kill` or
`waitpid` named a pid already given back, which the kernel may have given to
another process. Streams, environment and the exec error pipe are data. The
fallback for a failing `waitpid` is left out: handlers are installed with
SA_RESTART, and nobody else waits for the child.

In `ProcessContract` a user asks and is answered; the answer is where the method
takes effect. `lifeOf` maps `state_` and the kernel's child to the five lives of
the contract, `doingOf` the place of a thread to the method it is in.
`ProcessKeepsContract` is the refinement.

### ProcessSupervisor

No method keeps a mutex between two of its steps, so each critical section is an
action: `StartAdmitted`, `Register`, `Spawn` for `start_process`;
`StopAllEnter`, a step per process and the two marking actions for `stop_all`;
`BeginReap`, a step per process and `ReapReport` for a pass. Loops walk copies
(`todo`, `all`) in any order, as the hash map does. A pid goes back to the kernel when
its child has been waited for, and `emitted_exit_pids_` holds pids, as in the code.
`Destroy` is the destructor of an object nobody refers to any more.
Histories: `raced`, the starts that overlapped a `stop_all` or were there at a
`reset`, `told`, the exits reported.

### ComponentManagers

A thread's place says where it is in `start`, `stop`, `reset`, `prepare` or an event
delivery; `Unlocked` lists the places outside the manager's mutex: before the first lock, around
`prepare()` and in the readiness wait. Emitting an event needs the mutex of
every manager (`Heard`), which is where two threads can wait for each other
(`Embraced`). `crashed` is the null `process_` that `start()` may dereference
after the wait. Sockets, beacons and timeouts are `GraphicalSession`'s.

### SessionManager

A client makes sessions through the manager (`CreateSession`) or by itself (`Construct`), and may
register any session it holds, in any state, also one whose removal is not over. The manager's
operations are one action each, under its mutex; those that go on without it (`stop_session`,
`remove_session`, `stop_all_sessions`) leave their thread in the next step. `initialize`, `start`
and `stop` of a session wait for its recursive mutex and hold it over several actions; `cleanup`,
called by `remove_session` and the destructor, does not take it, and `remove_session` reads the
state anew for each comparison. `initialize` is three actions, since a cleanup may come between its
move to INITIALIZING, its directories and the end. `late` and `due` are histories: who was started
after its removal began (until it is registered again), and what a `stop_all_sessions` owes. No
recovery manager is attached, and `clean_runtime_dir_on_stop` has its default.

### Configuration

A line is what the code makes of its text: a header (spelled exactly or not,
because the parser trims and lowers it and the migrator does not), a setting, a
version in a comment or a key, a line without `=`. There is one key for each way a value is
treated. `Parse` and `detect_version` fold over the lines as the code's loops do.
Migrations read, write a temporary file and rename it, in three actions;
between them the process may crash and the disk may be full. A write cut short ends at a line, or within
one before its `=`; a cut inside a value is left out. `Start` walks the search path,
`StartWith` is `--config`. `Texts` is what values and section names are made of; any set of
strings will do (`ConfigurationAssumption`).

## 3. Runs

All passing runs are exhaustive for their constants.

| Run | Instance | Shows |
|---|---|---|
| `session` | every setting of the three switches of `RecoveryConfig`, 2 attempts, fair | types, no leaked child, nothing outlives the daemon, FAILED is quiet, RUNNING is supervised, desktop needs compositor, fresh readiness, true state file, recovery only for unexpected exits, ordered teardown; SIGTERM obeyed, exits reaped, recoveries settle; `SessionContract` implemented |
| `budget` | 2 threads, 2 attempts per 3 ticks, 4 requests, every policy, `reset()`, a clock that is stepped, fair | the budget in real time while the clock is not stepped, executions exclude each other, a recovery in progress is one thread's, the recovery table is kept, an admitted recovery ends |
| `process` | 2 threads, 4 calls of any method, fair | own pid only, exit recorded, unreaped is RUNNING; `ProcessContract` implemented; stop and kill end with the child reaped |
| `supervisor` | 2 threads that stop, one of which starts, 1 reaper, 2 processes, 2 pids, 2 stopping calls, fair | what runs is listed unless its start raced, `stop_all` stops what ran when it began, an exit is reported once, a death is found |
| `managers` | 2 threads and a reaper, 2 processes, 4 calls, fair | every child is held by a manager, a resting manager has none, an announced exit is noticed, calls return (or wait for each other as `managers_embrace` shows) |
| `sessions` | 2 threads, 2 ids, 2 sessions, 6 calls | the active session is listed, a removed one is quiet and leaves no directories, `stop_all_sessions` stops what was listed |
| `config` | 2 migrations between 3 files, files of up to two blocks and a first line, disk full after 0 or 5 lines, 1 start | a daemon started at any moment has the settings it would have without the migrations; migrating twice is migrating once |

Bounds. `GraphicalSession` has none but `MaxAttempts`: with 2, a recovery that succeeds is followed
by one that is admitted and one that is refused; the budget may refill at any time, so histories are
unbounded. `RecoveryBudget` needs two threads for a race and a horizon longer than the window for
attempts to expire and be followed by others; `MaxCalls` exceeds `MaxAttempts`; one of the two clock
offsets is longer than the window. In `Process` a third thread adds nothing a second does not: all
but one wait for the mutex; four calls allow start, a stop in its grace period, a method queued
behind it and the destructor. In `ProcessSupervisor` two processes and two pids are what it takes
for a pid to come back while its old owner is still in a copy; two stopping calls let a `stop_all`
meet a `reset`, a stop or another `stop_all`. In `ComponentManagers` one process per manager, or two
of one of them, and four calls let prepare and start be overtaken by two others. In `SessionManager`
two sessions of two ids give a duplicate, a session made again under a used id, one of another id,
and one that is registered again while it is being removed; six calls let one thread create, start,
remove, register and start a session that the other works on. In `Configuration` the blocks of a
file are chosen so that every line the parser and the migrator treat differently occurs before, in
and after `[meta]`. Threads are interchangeable in `SessionManager` and `Configuration`, whose runs
check no liveness, and only there symmetry is used.

Deadlock is checked in `session`, which ends in an explicit `Exited`, and in
`supervisor`, where a reaper always can begin a pass. In the other runs calls are
bounded, after which the system rests. `Processes`, `MaxSessions`, `MaxCalls`, `Horizon` and
`MaxStarts` are the bounds; each is a guard of the action that would exceed it.

Fairness. `GraphicalSession`: the daemon's only thread runs (weak fairness of
`DaemonStep`); every wait in the code has a timeout. Nothing is assumed of
children or of SIGTERM. `RecoveryBudget`: time passes and a thread inside
`recover()` runs. `Process`: threads are scheduled, and a child that was sent SIGKILL, or SIGTERM it
does not ignore, dies; calls are finitely many, so a thread waiting for the
mutex gets it. A child left alone may live for ever. `ProcessSupervisor`: threads inside a
call run, and a reaper begins pass after pass, which is the daemon's event
loop; nobody is obliged to stop anything. `ComponentManagers`: a thread inside a
call runs when the mutex it waits for is free. No fairness is stated for
`SessionManager` and `Configuration`.

Runs that find a claim violated (details under `findings`):

| Run | Claim | What the code does |
|---|---|---|
| `process_group` | group signals leave no rogue sub-process (`README.md:72`) | once the leader is gone nobody sends SIGKILL to the group |
| `supervisor_reuse` | every terminated process is reaped (`docs/process.md:170`) | a child that is given a pid listed in `emitted_exit_pids_` is passed over |
| `managers_embrace` | shared facilities are thread-safe (`docs/development.md:19`) | each manager emits events with its mutex held, and the listeners take the other's |
| `sessions_dirs` | sessions have isolated directories of their own (`docs/session.md:103`) | the cleanup at the end of a removal deletes those of the session that has the id by then, a RUNNING one included |
| `config_migration` | the file is overwritten atomically (`include/lddm/config/config_migrator.hpp:25`) | a short write is not noticed and is renamed over the file |

The daemon as it is wired reaches all but `managers_embrace` and `sessions_dirs`, which need a second
thread. `sessions_dirs` has bounds of its own, one session and four calls: with them TLC finds the
violation in seconds.

Smaller disagreements with the documents and oddities, read off the code and not given a run of
their own:

* A session restart (the only kind when component restarts are off, which `main()` does not offer)
  resets the supervisor and with it `emitted_exit_pids_` in the middle of a pass
  (`process_supervisor.cpp:219`); the pass then reports a process that recovery stopped.
  `RecoveryOnlyOnUnexpectedExit` is stated for the other configurations.
* `Session::fail` stops children in hash order before it stops the components in order
  (`session.cpp:396`; `docs/ldde.md:13` promises LDDE first). With component restarts on, a child is
  already gone then, unless LDDE alone was restarted and the verification found that the foreign
  socket Weston was taken to serve had died; `OrderedTeardown` exempts those failures and states the
  order for every other teardown.
* Two keys name one socket: Weston creates `weston.socket_name` (`weston_manager.cpp:111`), while
  LDDE is told `session.wayland_display` or what `[environment]` says (`ldde_manager.cpp:100`);
  `docs/ldde.md:91` calls that the "Active Wayland socket name". Setting one of them alone starts a
  desktop that looks for another socket.
* The sliding window is measured with `system_clock` (`recovery_manager.cpp:53`;
  `docs/recovery.md:113`): a step of the clock forgets attempts, or keeps them.
* `docs/ldde.md:10` has LDDE "started only after Weston signals Wayland socket readiness". A socket
  on which another server accepts is kept by `prepare()` (`weston_manager.cpp:176`), and
  `check_socket` asks only whether Weston lives and whether the socket accepts: such a server speaks
  for the first Weston the daemon spawns. `ReadinessIsFresh` exempts that case and no other, because
  stopping or resetting the manager, which every recovery does before it spawns Weston again,
  unlinks the socket (`:424`), that of a live server too.
* `wait()` without a timeout holds the mutex that `stop()` needs (`process.cpp:304`;
  `docs/process.md:169` has hung processes killed after the grace period). The daemon has no caller
  of it.
* After the readiness wait `start()` uses `process_` again, which a `stop()` by another thread has
  cleared (`weston_manager.cpp:332`), and a start that comes back late stops the newer child
  (`:321`).
* A failed session that is stopped stays FAILED, because its table has no edge from FAILED to
  STOPPED (`docs/session.md` lists one) and the refusal is ignored. The lifecycle stays RUNNING
  after the session has failed, because the event loop never looks at it.
* `RecoveryManager::reset()` during a backoff moves the state from Recovering to Idle, and
  `Process::stop()` before `start()` from CREATED to EXITED, both outside the tables in the unit
  tests.
* A session restart initializes the managers again and their listeners register once more
  (`recovery_manager.cpp:444`); none is ever unregistered.
* `find_by_pid` may return an older object with that pid (`process_registry.cpp:32`); `stop_all`
  clears the registry after its loop, and with it what was registered meanwhile
  (`process_supervisor.cpp:204`); `cleanup` reads state and supervisor without the mutex
  (`session.cpp:424`).
* `autostart` of LDDE is validated and then consulted by nobody (`docs/configuration.md:45`); the
  search path also has `/etc/linuxdroid/lddm.conf`, which `docs/configuration.md` omits; the file
  printed there has comments after values, which the parser takes for part of the value;
  `migrate_content` calls `front()` on the empty view of a blank line (`config_migrator.cpp:120`);
  `restart_window_seconds * 1000` may wrap (`main.cpp:234`).

## 4. Proofs

Eight modules hold the theorems. All are safety: an inductive invariant, one
lemma per action or per family of actions that disturb it in the same way, and
the property from it. They hold for any number of threads, processes, pids,
ids, sessions and calls, for files of any length and for any configuration; the assumptions are
those that the modules state about their constants (`ConfigAssumption`, `SupervisorAssumption`, …)
and, in three theorems, a hypothesis of the theorem itself: one reaping thread
(`ExitReportedOnce`), one thread that drives the managers (`OneDriverNeverEmbraced`), a disk with
room (`AtomicWithRoom`). The first two are how `main()` uses the classes; without the second and the
third the runs `managers_embrace` and `config_migration` show the property violated. Every safety
property of a passing run is stated by a theorem.

**GraphicalSession_proofs.** None of the safety properties is inductive: whether `FailedMeansQuiet`
survives `FailDone` depends on what was running when the failure began. `SessionInv` strengthens
them with `ControlInv`, which classifies both components at each `pc` as *Supervised* (running,
listed, unreported), *Lost* (its manager says Running, its child is gone) or *Quiet* (no child, no
claim); at a spawn, for example, the target is quiet and the other component is in order for that
start. `BeaconInv` says that a live child's beacon is its own or another server's, `StateFileInv`
extends `StateFileIsTrue` to the way back to the loop, `BudgetInv` bounds the attempts of a session
that has not failed. From `SessionInvariant` follow `TypeCorrect`, `NoChildLeaks`,
`NothingIsLeftBehind`, `FailedIsQuiet`, `RunningIsSupervised`, `DesktopHasCompositor` and
`StateFileTrue`. `OthersInv` says how long another server's socket can be there: until a recovery
has restarted Weston; with it `ReadinessFresh` needs no exemption but the first Weston's.
`UnexpectedInv` adds what is true of the pass while a recovery runs inside it: whose exit is still
to be reported. `OnlyUnexpectedExits` and `TeardownOrdered` follow.

The last section bounds the daemon's own steps. `Work` adds up how far `pc` is from the next pass or
the end (`Stage`), the children `Session::fail` has to stop (`ToStop`), and the exits the pass has
left to look at (`ToLookAt`), each of which may cost a whole recovery. `OnlyPassesRepeat`: `Work` is
at most 48, every step of the thread but the beginning of a pass lowers it, and children and signals
leave it as it is, so only passes of the event loop repeat. `SigtermBounded` and `RecoveryBounded`
say the same of a daemon that was told to end and of a session that is RECOVERING; these are
`SigtermObeyed` and `RecoverySettles` but for the fairness that makes the thread take its steps.

**SessionContract_proofs.** `ContractKept`: every step of the daemon, in a state of
`SessionInv`, is a step of `SessionContract` or leaves phase and processes alone. One lemma per
step of the contract (start a part, lose one, come up, degrade, give up, end).

**RecoveryBudget_proofs.** `BudgetHolds`: the code counts entries of
the log, the property counts recoveries. Inductive is that, while the clock is not stepped, the log never
forgets a recovery that still counts (`Remembered`): then an admission, which sees at
most `MaxAttempts` entries, leaves at most that many recoveries in the window.
The proof uses the library's facts on cardinalities. `ExclusionHolds` rests on `HolderInv`:
whoever restarts components owns the mutex. `BusyInv` ties `state_` to the
thread that recovers; `ProgressHolds` and `TableHolds` follow. `RecoveryDoesNotStick` is the
core of `RecoveryEnds`: the mutex is held by recovering threads only (`WaitInv`), so that one of
them always has it or can take it, and a call goes through its phases forwards only.

**Process_proofs.** `ProcessInv` ties `state_` to the kernel's child, `state_` to the place of the
thread inside a method, and the destructor to its solitude. `StepKept` reduces every step of a
method to where it leaves its thread, `state_` and the child. `PidIsOurs`, `ExitIsRecorded`,
`UnreapedRuns`, `ObjectCleansUp` and `ProcessTypes` follow, and `ProcessContractKept`: every step is
one of `ProcessContract`, or none. `ForceLeavesNobody` is the positive side of `process_group`:
where SIGKILL was sent, the whole group is being killed and has no new member (`KillReached`), so
that a helper can survive only a call that sent none.

**ProcessSupervisor_proofs.** `SupervisorInv` adds to `SupervisedUnlessRaced` that a start on its way is
listed or raced (`CallInv`) and that whatever a `stop_all` under way does not have in its
copy raced with it (`StopAllInv`), so that the `clear()` at its end forgets nothing else.
`ChildrenSupervised` and `StopAllHolds` follow. `OnceInv`, for one reaper: what was reported is
reaped and its pid in the table, and what is about to be reported is not; `ExitReportedOnce` follows.
`PidInv`: every pid in the table is that of a child that was waited for (`Explained`), so a pass
overlooks a child only if another one had its pid (`DeathsMissedOnlyByReuse`); `supervisor_reuse`
shows that this happens, the theorem that nothing else does.

**ComponentManagers_proofs.** `ManagersInv` has, besides the types and the holders of the mutexes,
what a thread at each place knows of its manager and its process, which exits still have to be
delivered to which manager (`Pending`), and that no process has two owners. `ManagersTyped`,
`ChildrenHeld`, `RestingManagersEmpty` and `ExitsNoticed` follow. `OneDriverNeverEmbraced`: reaping
threads never hold a manager's mutex between two steps. `CallsDoNotStick` is the core of
`CallsReturn`: a rank of the places (`Ahead`) falls with every step of a call, and unless two
threads embrace, the thread that holds a mutex, or else any thread inside a call, finds its guard
true (`Ready`, which lists the guards of `Step`).

**SessionManager_proofs.** `SessionsInv`: the mutex of an object is held by the thread that works on
it, and a session that was removed and not started since has a thread that is going to sweep it as
long as it has children or can get some. `ActiveRegistered` and `RemovedQuiet` follow.

`RestInv` adds what `stop_all_sessions` still owes (`DueInv`: it is in the copy, or being stopped, or
quiet with nobody inside) and that a session whose mutex is free can be stopped if it has children
(`OpenInv`). `StopAllHolds` follows.

`DirsInv`: directories have an owner, a session of their id that is listed, or late, or that a
thread is going to clean up after. It holds because only an `initialize` makes directories, and
whoever is inside one works on a session that is listed, late or being swept (`ObjectInv`); the
thread that takes a session off the list becomes its cleaner in the same step. `NoDirectoryLeft`
follows. The converse, that a listed session that runs has its directories, is what `sessions_dirs`
refutes.

**Configuration_proofs.** The parser, `detect_version` and `migrate_content` are folds over the
lines of a file, so what they do to a file of any length is an induction over data. The library's
induction theorems take an operator as a parameter, which no installed prover can instantiate; the
proofs take a least counterexample instead (`WFMin`), over numbers (`Counting`) and over prefixes of
a file (`Appending`). The lemmas on `FoldLeft` build on that: a fold is the last value of its runs
over the prefixes, and two runs that agree line by line agree at the end. `Tracks` is the heart:
reading the migrated lines after the new header leaves the parser where reading the old ones does.
`Migration` is the result for one call of `migrate_content`; `MigrationInvisible` and
`MigrationOnce` lift it to processes that migrate, crash and start with `Inv`, which says that every
file and every migration in progress is whole and means what was intended, or is marked as cut.
`AtomicWithRoom` is what is left of the claim `config_migration` refutes.

The types of `RecoveryBudget`, `ProcessSupervisor`, `SessionManager` and `Configuration` are part of their
inductive invariants; no run repeats them.

Only model-checked: liveness (`SigtermObeyed`, `EveryExitReaped`, `RecoverySettles`, `RecoveryEnds`,
`StopTerminates`, `CallsReturn`, `DeathFound`), because fairness and ENABLED are outside the
prover's reach. What `x` to the power of `y` is cannot be proved either, so no theorem bounds the
backoff. No module uses RECURSIVE.

## 5. Not modelled, and the plan

Not modelled, because they are data or output without control: component configuration and launch
specifications (argument vectors, `weston.ini`), diagnostics (written, never read back), logging,
error and result types, the wrappers of system calls, packaging. Of paths, environment, resources
and identifiers the modules have the directories' creation and removal; the resource tracker's
`track_fd` and `track_temporary_file`, and the registry's `remove_process`, `remove_by_pid`,
`find_by_name` and counts, have no caller. Of the command line, `--validate-config` and `--version`
end before a session exists.

Within the modelled components: a clock stepped back during a grace period
(`Process` lets the period end), the 32-bit product of the restart window (it only shortens
the window `RecoveryBudget` is given), the escape of an exception from a listener (none throws).

What is left of the plan is proofs:

1. `StopTerminates`' safety core: the steps a `stop()` has left, with the mutex it waits for;
2. the same for the loops of the supervisor and of `stop_all_sessions`.

## 6. Running

    tlc -config Session.cfg MCGraphicalSession.tla
    tlc -config Budget.cfg MCRecoveryBudget.tla
    tlc -config Process.cfg MCProcess.tla              # and Process_group.cfg
    tlc -config Supervisor.cfg MCProcessSupervisor.tla # and Supervisor_reuse.cfg
    tlc -config Managers.cfg MCComponentManagers.tla   # and Managers_embrace.cfg
    tlc -config Sessions.cfg MCSessionManager.tla      # and Sessions_dirs.cfg
    tlc -config Config.cfg MCConfiguration.tla         # and Config_migration.cfg
    tlapm GraphicalSession_proofs.tla                  # likewise the other seven
