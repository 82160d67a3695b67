---------------------------- MODULE RecoveryBudget ----------------------------
(***************************************************************************)
(* RecoveryManager as a shared object: several threads may call recover()  *)
(* and restart_session(), reset() and set_config() at any time.  recover() *)
(* counts attempts in a sliding window of the system clock, sleeps for a   *)
(* backoff with its mutex released, and then restarts things with the      *)
(* mutex held.  What is restarted, and how, is GraphicalSession's matter.  *)
(*                                                                         *)
(* The vector attempt_timestamps_ is a set here: its order is never looked *)
(* at, and current_recovery_id_ keeps equal timestamps apart.              *)
(***************************************************************************)
EXTENDS Integers, FiniteSets, StateTables

CONSTANTS
  Callers,         \* threads that use the manager
  MaxAttempts,     \* RecoveryConfig::max_attempts
  Window,          \* RecoveryConfig::window_ms
  BackoffInitial,  \* RecoveryConfig::backoff_initial_ms, multiplier 2
  BackoffMax,      \* RecoveryConfig::backoff_max_ms
  Policies,        \* what determine_policy may answer within the budget
  Skews,           \* offsets the system clock may be stepped to
  Horizon,         \* bound: no call is made after this time
  MaxCalls         \* bound on the number of attempts

ASSUME BudgetAssumption ==
  /\ MaxAttempts \in Nat \ {0} /\ Window \in Nat
  /\ BackoffInitial \in Nat /\ BackoffMax \in Nat
  /\ Skews \subseteq Int /\ 0 \in Skews
  /\ BackoffInitial <= BackoffMax /\ Horizon \in Nat /\ MaxCalls \in Nat

NoCaller == "nobody"

ASSUME CallersAssumption == NoCaller \notin Callers

VARIABLES
  now,       \* real time
  skew,      \* the system clock shows now + skew
  enabled,   \* RecoveryConfig::enabled
  state,     \* state_
  log,       \* attempt_timestamps_
  serial,    \* current_recovery_id_
  admitted,  \* history: attempts that led to a recovery since the last reset()
  stepped,   \* history: the system clock has been stepped
  wiped,     \* history: reset() was called in the middle of a recovery
  owner,     \* thread that holds mutex_ between two actions
  call       \* what each thread is doing

history == <<stepped, wiped>>
vars == <<now, skew, enabled, state, log, serial, admitted, history, owner, call>>

Busy(c) == call[c].at # "idle"
Idle == [at |-> "idle", until |-> 0, nested |-> FALSE]

-----------------------------------------------------------------------------
(* Plausible bugs, each a mutated form of the definition its comment names. *)

\* Expired: an attempt counts only while it is younger than half the window.
ExpiredEarly(a) == 2 * (now + skew - a.at) > Window

\* Lockable: the mutex is not taken again after the backoff.
LockableAlways(c) == TRUE

\* FailureState: a failed execution leaves the state as it was.
FailureStateKept == state

\* VerifyingState: the phase of verification is not recorded.
VerifyingStateSkipped == "Recovering"

-----------------------------------------------------------------------------
(* calculate_backoff.                                                      *)
Backoff(attempt) ==
  LET delay == BackoffInitial * 2 ^ (attempt - 1)
  IN  IF delay < BackoffMax THEN delay ELSE BackoffMax

(* purge_expired_attempts. *)
Expired(a) == now + skew - a.at > Window
Purged == {a \in log : ~Expired(a)}

InProgress == state \in {"Recovering", "Verifying"}

\* std::unique_lock on a recursive mutex.
Lockable(c) == owner \in {NoCaller, c}

FailureState == "Failed"
VerifyingState == "Verifying"

(* Both entry points; restart_session keeps a lock of its own, which the   *)
(* unlock before the backoff does not release.                             *)
Enter(c) == ~Busy(c) /\ Lockable(c) /\ now <= Horizon

Attempt == [id |-> serial + 1, at |-> now + skew]

\* recover() while another recovery is active.
Ignored(c) ==
  /\ Enter(c) /\ InProgress
  /\ UNCHANGED vars

\* Preconditions: restart_session only returns the error, recover() fails.
Refused(c, nested) ==
  /\ Enter(c) /\ ~enabled /\ (nested \/ ~InProgress)
  /\ IF nested
       THEN UNCHANGED <<state, log>>
       ELSE state' = FailureState /\ log' = Purged
  /\ UNCHANGED <<now, skew, enabled, serial, admitted, owner, call, history>>

Exhausted(c, policy) ==
  /\ Enter(c) /\ ~InProgress /\ enabled /\ serial < MaxCalls
  /\ log' = Purged \cup {Attempt}
  /\ serial' = serial + 1
  /\ Cardinality(log') > MaxAttempts \/ policy \in {"FailSession", "NoRecovery"}
  /\ state' = FailureState
  /\ UNCHANGED <<now, skew, enabled, admitted, owner, call, history>>

Admitted(c, policy, nested) ==
  /\ Enter(c) /\ ~InProgress /\ enabled /\ serial < MaxCalls
  /\ log' = Purged \cup {Attempt}
  /\ serial' = serial + 1
  /\ Cardinality(log') <= MaxAttempts /\ policy \notin {"FailSession", "NoRecovery"}
  /\ state' = "Recovering"
  /\ admitted' = admitted \cup {[id |-> serial + 1, at |-> now]}
  /\ LET delay == Backoff(Cardinality(log'))
     IN  /\ call' = [call EXCEPT ![c] =
                      [at |-> "backoff", until |-> now + delay, nested |-> nested]]
         /\ owner' = IF nested \/ delay = 0 THEN c ELSE NoCaller
  /\ UNCHANGED <<now, skew, enabled, history>>

\* The end of sleep_for, and lock().
Wake(c) ==
  /\ call[c].at = "backoff" /\ call[c].until <= now /\ Lockable(c)
  /\ owner' = c
  /\ call' = [call EXCEPT ![c].at = "execute"]
  /\ UNCHANGED <<now, skew, enabled, state, log, serial, admitted, history>>

\* execute_recovery, from the point where the replacement is started.
Verify(c) ==
  /\ call[c].at = "execute"
  /\ call' = [call EXCEPT ![c].at = "verify"]
  /\ state' = VerifyingState
  /\ UNCHANGED <<now, skew, enabled, log, serial, admitted, owner, history>>

Succeeds(c) ==
  /\ call[c].at = "verify"
  /\ state' = "Recovered"
  /\ call' = [call EXCEPT ![c] = Idle] /\ owner' = NoCaller
  /\ UNCHANGED <<now, skew, enabled, log, serial, admitted, history>>

Fails(c) ==
  /\ call[c].at \in {"execute", "verify"}
  /\ state' = FailureState
  /\ call' = [call EXCEPT ![c] = Idle] /\ owner' = NoCaller
  /\ UNCHANGED <<now, skew, enabled, log, serial, admitted, history>>

\* reset() and set_config() by a thread that is doing nothing else.
Reset(c) ==
  /\ Enter(c)
  /\ state' = "Idle" /\ log' = {} /\ admitted' = {}
  /\ wiped' = (wiped \/ InProgress)
  /\ UNCHANGED <<now, skew, enabled, serial, stepped, owner, call>>

SetConfig(c) ==
  /\ Enter(c)
  /\ enabled' = ~enabled
  /\ UNCHANGED <<now, skew, state, log, serial, admitted, owner, call, history>>

\* Time passes for the threads; the last backoff ends within the bound.
Tick ==
  /\ now < Horizon + BackoffMax
  /\ now' = now + 1
  /\ UNCHANGED <<skew, enabled, state, log, serial, admitted, owner, call, history>>

\* The system clock is stepped (settimeofday, NTP): attempts are stamped
\* with system_clock.
StepClock ==
  /\ skew' \in Skews \ {skew}
  /\ stepped' = TRUE
  /\ UNCHANGED <<now, enabled, state, log, serial, admitted, wiped, owner, call>>

Init ==
  /\ now = 0 /\ skew = 0 /\ enabled = TRUE
  /\ state = "Idle" /\ log = {} /\ serial = 0 /\ admitted = {}
  /\ stepped = FALSE /\ wiped = FALSE
  /\ owner = NoCaller /\ call = [c \in Callers |-> Idle]

Recover(c) ==
  \/ Ignored(c)
  \/ \E nested \in BOOLEAN : Refused(c, nested)
  \/ \E policy \in Policies :
       Exhausted(c, policy) \/ \E nested \in BOOLEAN : Admitted(c, policy, nested)

Proceed(c) == Wake(c) \/ Verify(c) \/ Succeeds(c) \/ Fails(c)

Next ==
  \/ \E c \in Callers : Recover(c) \/ Proceed(c) \/ Reset(c) \/ SetConfig(c)
  \/ Tick \/ StepClock

Spec == Init /\ [][Next]_vars

\* A thread inside recover() runs, and time passes.
FairSpec == Spec /\ WF_vars(Tick) /\ \A c \in Callers : WF_vars(Proceed(c))
-----------------------------------------------------------------------------
Calls == [at : {"idle", "backoff", "execute", "verify"}, until : Nat, nested : BOOLEAN]

WithinBudget == Cardinality({a \in admitted : now - a.at <= Window}) <= MaxAttempts

\* docs/recovery.md, loop prevention: within any window of the configured
\* length, counted in real time, no more than max_attempts recoveries are
\* run, whoever asks for them and however many requests are turned down, as
\* long as the system clock is not stepped.
WindowBudget == ~stepped => WithinBudget

\* Two threads never restart components at the same time: the mutex given
\* up for the backoff is held again before anything is touched.
ExecutionsExclusive ==
  \A c, d \in Callers :
    call[c].at \in {"execute", "verify"} /\ call[d].at \in {"execute", "verify"} => c = d

\* A recovery in progress is exactly one thread's, so a request that is
\* ignored is ignored for the sake of one that will finish; unless reset()
\* was called in the middle of one, which then goes on unnoticed.
ProgressIsReal ==
  ~wiped =>
    /\ InProgress <=> \E c \in Callers : Busy(c)
    /\ \A c, d \in Callers : Busy(c) /\ Busy(d) => c = d

\* The manager assigns state_ directly; unless reset() is called in the middle
\* of a recovery it keeps to the table of is_valid_recovery_transition all the same.
TableKept ==
  [][~wiped' /\ state' # state => <<state, state'>> \in RecoveryEdges]_vars

\* A recovery that was admitted comes to an end.
RecoveryEnds == InProgress ~> ~InProgress
=============================================================================
