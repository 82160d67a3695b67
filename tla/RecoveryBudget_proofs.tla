------------------------ MODULE RecoveryBudget_proofs ------------------------
(***************************************************************************)
(* The budget and the exclusion of RecoveryManager, for any number of      *)
(* threads, attempts and ticks.                                            *)
(*                                                                         *)
(* The budget counts the attempts in the log, but the log also holds the   *)
(* attempts that were turned down, and forgets by the system clock.  What  *)
(* is inductive is that the log never forgets a recovery that still counts *)
(* (Remembered).  All of it holds until the clock is stepped for the first *)
(* time, and nothing of it is claimed from then on (BudgetInv).            *)
(***************************************************************************)
EXTENDS RecoveryBudget, FiniteSetTheorems, TLAPS

Recent == {a \in admitted : now - a.at <= Window}

Typed ==
  /\ now \in Nat /\ serial \in Nat /\ skew = 0
  /\ IsFiniteSet(log) /\ IsFiniteSet(admitted)
  /\ \A a \in admitted : a.at \in Nat

Remembered == Recent \subseteq log

UnsteppedInv == Typed /\ Remembered /\ WithinBudget

BudgetInv == ~stepped => UnsteppedInv

\* Whoever restarts components holds the mutex, and call is a function on the
\* threads whose values have a field "at".
HolderInv ==
  /\ owner \in Callers \cup {NoCaller}
  /\ call = [c \in Callers |-> call[c]]
  /\ \A c \in Callers :
       call[c] = [at |-> call[c].at, until |-> call[c].until, nested |-> call[c].nested]
  /\ \A c \in Callers : call[c].at \in {"execute", "verify"} => owner = c
-----------------------------------------------------------------------------
\* The recoveries that count only become fewer as time passes.
LEMMA RecentShrinks ==
  ASSUME UnsteppedInv, Tick
  PROVE  UnsteppedInv'
<1> USE BudgetAssumption
<1>1. Recent' \subseteq Recent
  BY DEF Recent, UnsteppedInv, Typed, Tick
<1>2. IsFiniteSet(Recent)
  BY FS_Subset, Recent \subseteq admitted DEF UnsteppedInv, Typed, Recent
<1>3. Cardinality(Recent') <= Cardinality(Recent)
  BY <1>1, <1>2, FS_Subset
<1>4. /\ Cardinality(Recent) \in Nat
      /\ Cardinality(Recent') \in Nat
  BY <1>1, <1>2, FS_Subset, FS_CardinalityType
<1>5. Cardinality(Recent) <= MaxAttempts
  BY DEF UnsteppedInv, WithinBudget, Recent
<1>6. Cardinality(Recent') <= MaxAttempts
  BY <1>3, <1>4, <1>5
<1>7. WithinBudget'
  BY <1>6 DEF WithinBudget, Recent
<1>8. Remembered'
  BY <1>1 DEF Remembered, UnsteppedInv, Tick
<1>9. Typed'
  BY DEF UnsteppedInv, Typed, Tick
<1> QED  BY <1>7, <1>8, <1>9 DEF UnsteppedInv

\* While the clock is not stepped, purging never forgets a recovery that counts.
LEMMA PurgeKeepsRecent ==
  ASSUME UnsteppedInv
  PROVE  /\ Recent \subseteq Purged
         /\ IsFiniteSet(Purged)
<1>1. skew = 0
  BY DEF UnsteppedInv, Typed
<1>2. ASSUME NEW a \in Recent  PROVE a \in Purged
  <2>1. a \in log /\ a.at \in Nat /\ now \in Nat /\ now - a.at <= Window
    BY <1>2 DEF UnsteppedInv, Remembered, Recent, Typed
  <2>2. ~Expired(a)
    BY <2>1, <1>1, BudgetAssumption DEF Expired
  <2> QED  BY <2>1, <2>2 DEF Purged
<1>3. IsFiniteSet(Purged)
  BY FS_Subset, Purged \subseteq log DEF Purged, UnsteppedInv, Typed
<1> QED  BY <1>2, <1>3

\* An admitted attempt is one of at most max_attempts entries of the log, and
\* the log holds every recovery that counts beside it.
LEMMA AdmissionWithinBudget ==
  ASSUME UnsteppedInv,
         NEW c \in Callers, NEW policy \in Policies, NEW nested \in BOOLEAN,
         Admitted(c, policy, nested)
  PROVE  UnsteppedInv'
<1> DEFINE new == [id |-> serial + 1, at |-> now]
<1> USE BudgetAssumption
<1>1. skew = 0 /\ now \in Nat /\ serial \in Nat
  BY DEF UnsteppedInv, Typed
<1>2. Attempt = new
  BY <1>1 DEF Attempt
<1>3. /\ log' = Purged \cup {new} /\ admitted' = admitted \cup {new}
      /\ serial' = serial + 1 /\ now' = now /\ skew' = skew
      /\ Cardinality(log') <= MaxAttempts
  BY <1>2 DEF Admitted
<1>4. new.at = now
  OBVIOUS
<1> HIDE DEF new
<1>5. Recent' \subseteq Recent \cup {new}
  BY <1>3 DEF Recent
<1>6. Recent' \subseteq log'
  BY <1>3, <1>5, PurgeKeepsRecent
<1>7. IsFiniteSet(log')
  BY <1>3, PurgeKeepsRecent, FS_AddElement
<1>8. /\ Cardinality(Recent') <= Cardinality(log')
      /\ Cardinality(Recent') \in Nat
  BY <1>6, <1>7, FS_Subset, FS_CardinalityType
<1>9. Cardinality(log') \in Nat
  BY <1>7, FS_CardinalityType
<1>10. Cardinality(Recent') <= MaxAttempts
  BY <1>3, <1>8, <1>9
<1>11. WithinBudget'
  BY <1>10 DEF WithinBudget, Recent
<1>12. IsFiniteSet(admitted')
  BY <1>3, FS_AddElement DEF UnsteppedInv, Typed
<1>13. \A a \in admitted' : a.at \in Nat
  BY <1>1, <1>3, <1>4 DEF UnsteppedInv, Typed
<1>14. Typed'
  BY <1>1, <1>3, <1>7, <1>12, <1>13 DEF UnsteppedInv, Typed
<1> QED  BY <1>6, <1>11, <1>14 DEF UnsteppedInv, Remembered

\* A request that is turned down may add to the log and purge it, no more.
LEMMA RefusalKeepsBudget ==
  ASSUME UnsteppedInv, NEW c \in Callers,
         \/ \E nested \in BOOLEAN : Refused(c, nested)
         \/ \E policy \in Policies : Exhausted(c, policy)
  PROVE  UnsteppedInv'
<1>1. /\ now' = now /\ skew' = skew /\ admitted' = admitted
      /\ serial' \in {serial, serial + 1}
      /\ \/ log' = log
         \/ log' = Purged
         \/ log' = Purged \cup {Attempt}
  BY DEF Refused, Exhausted
<1>2. Recent' = Recent /\ Recent \subseteq log'
  BY <1>1, PurgeKeepsRecent DEF Recent, UnsteppedInv, Remembered
<1>3. IsFiniteSet(log')
  BY <1>1, PurgeKeepsRecent, FS_AddElement DEF UnsteppedInv, Typed
<1>4. Typed'
  BY <1>1, <1>3 DEF UnsteppedInv, Typed
<1>5. WithinBudget'
  BY <1>1 DEF UnsteppedInv, WithinBudget
<1> QED  BY <1>2, <1>4, <1>5 DEF UnsteppedInv, Remembered

\* The invariant starts true.
LEMMA BudgetInit ==
  ASSUME Init  PROVE UnsteppedInv
<1>1. /\ now = 0 /\ serial = 0 /\ skew = 0 /\ log = {} /\ admitted = {}
  BY DEF Init
<1>2. Recent = {}
  BY <1>1 DEF Recent
<1>3. Cardinality(Recent) = 0 /\ IsFiniteSet(log) /\ IsFiniteSet(admitted)
  BY <1>1, <1>2, FS_EmptySet
<1>4. Typed
  BY <1>1, <1>3, BudgetAssumption DEF Typed
<1>5. WithinBudget
  BY <1>3, BudgetAssumption DEF WithinBudget, Recent
<1> QED  BY <1>2, <1>4, <1>5 DEF UnsteppedInv, Remembered

\* docs/recovery.md, loop prevention: as long as the system clock is not
\* stepped, no window of window_ms holds more than max_attempts recoveries,
\* for any number of threads, resets and changes of configuration.
THEOREM BudgetHolds == Spec => []WindowBudget
<1>1. Init => BudgetInv
  BY BudgetInit DEF BudgetInv
<1>2. BudgetInv /\ [Next]_vars => BudgetInv'
  <2> SUFFICES ASSUME BudgetInv, [Next]_vars, ~stepped'  PROVE UnsteppedInv'
    BY DEF BudgetInv
  <2>0. UnsteppedInv
    BY DEF BudgetInv, Next, Recover, Ignored, Refused, Exhausted, Admitted,
           Proceed, Wake, Verify, Succeeds, Fails, Reset, SetConfig, Tick,
           StepClock, history, vars
  <2>1. ASSUME NEW c \in Callers, Recover(c)  PROVE UnsteppedInv'
    <3>1. CASE Ignored(c)
      BY <2>0, <3>1 DEF Ignored, vars, UnsteppedInv, Typed, Remembered, Recent, WithinBudget
    <3>2. CASE \E nested \in BOOLEAN : Refused(c, nested)
      BY <2>0, <3>2, RefusalKeepsBudget
    <3>3. CASE \E policy \in Policies : Exhausted(c, policy)
      BY <2>0, <3>3, RefusalKeepsBudget
    <3>4. CASE \E policy \in Policies, nested \in BOOLEAN : Admitted(c, policy, nested)
      BY <2>0, <3>4, AdmissionWithinBudget
    <3> QED  BY <2>1, <3>1, <3>2, <3>3, <3>4 DEF Recover
  <2>2. ASSUME NEW c \in Callers, Proceed(c) \/ SetConfig(c)  PROVE UnsteppedInv'
    <3>1. UNCHANGED <<now, skew, serial, log, admitted>>
      BY <2>2 DEF Proceed, Wake, Verify, Succeeds, Fails, SetConfig
    <3> QED  BY <2>0, <3>1 DEF UnsteppedInv, Typed, Remembered, Recent, WithinBudget
  <2>3. ASSUME NEW c \in Callers, Reset(c)  PROVE UnsteppedInv'
    <3>1. /\ log' = {} /\ admitted' = {}
          /\ now' = now /\ skew' = skew /\ serial' = serial
      BY <2>3 DEF Reset
    <3>2. Recent' = {}
      BY <3>1 DEF Recent
    <3>3. Cardinality(Recent') = 0 /\ IsFiniteSet(log') /\ IsFiniteSet(admitted')
      BY <3>1, <3>2, FS_EmptySet
    <3>4. WithinBudget'
      BY <3>3, BudgetAssumption DEF WithinBudget, Recent
    <3>5. Typed'
      BY <2>0, <3>1, <3>3 DEF UnsteppedInv, Typed
    <3> QED  BY <3>2, <3>4, <3>5 DEF UnsteppedInv, Remembered
  <2>4. CASE Tick
    BY <2>0, <2>4, RecentShrinks
  <2>5. CASE StepClock
    BY <2>5 DEF StepClock
  <2>6. CASE UNCHANGED vars
    BY <2>0, <2>6 DEF vars, UnsteppedInv, Typed, Remembered, Recent, WithinBudget
  <2> QED  BY <2>1, <2>2, <2>3, <2>4, <2>5, <2>6 DEF Next
<1>3. BudgetInv => WindowBudget
  BY DEF BudgetInv, UnsteppedInv, WindowBudget
<1> QED  BY <1>1, <1>2, <1>3, PTL DEF Spec
-----------------------------------------------------------------------------
\* A thread that enters, or wakes up, finds the mutex free or its own, so that
\* no other thread is restarting anything.
LEMMA HolderKept ==
  ASSUME HolderInv, [Next]_vars
  PROVE  HolderInv'
<1> USE CallersAssumption
<1>1. ASSUME NEW c \in Callers, Recover(c)  PROVE HolderInv'
  <2>1. CASE UNCHANGED <<owner, call>>
    BY <2>1 DEF HolderInv
  <2>2. CASE \E policy \in Policies, nested \in BOOLEAN : Admitted(c, policy, nested)
    <3>1. PICK r : /\ call' = [call EXCEPT ![c] = r]
                   /\ r = [at |-> "backoff", until |-> r.until, nested |-> r.nested]
                   /\ owner' \in {c, NoCaller} /\ Lockable(c) /\ ~Busy(c)
      BY <2>2 DEF Admitted, Enter
    <3>2. \A d \in Callers : call'[d] = IF d = c THEN r ELSE call[d]
      BY <3>1 DEF HolderInv
    <3>3. \A d \in Callers : call[d].at \notin {"execute", "verify"}
      BY <3>1 DEF HolderInv, Lockable, Busy
    <3>4. call' = [d \in Callers |-> call'[d]]
      BY <3>1, <3>2 DEF HolderInv
    <3> QED  BY <3>1, <3>2, <3>3, <3>4 DEF HolderInv
  <2> QED  BY <1>1, <2>1, <2>2 DEF Recover, Ignored, Refused, Exhausted, vars
<1>2. ASSUME NEW c \in Callers, Wake(c) \/ Verify(c)  PROVE HolderInv'
  <2>1. PICK s \in {"execute", "verify"} : call' = [call EXCEPT ![c].at = s]
    BY <1>2 DEF Wake, Verify
  <2>2. owner' = c /\ Lockable(c)
    BY <1>2 DEF Wake, Verify, HolderInv, Lockable
  <2>3. \A d \in Callers :
          call'[d] = IF d = c THEN [call[c] EXCEPT !.at = s] ELSE call[d]
    BY <2>1 DEF HolderInv
  <2>4. [call[c] EXCEPT !.at = s]
          = [at |-> s, until |-> call[c].until, nested |-> call[c].nested]
    BY DEF HolderInv
  <2>5. \A d \in Callers \ {c} : call[d].at \notin {"execute", "verify"}
    BY <2>2 DEF HolderInv, Lockable
  <2>6. call' = [d \in Callers |-> call'[d]]
    BY <2>1, <2>3 DEF HolderInv
  <2> QED  BY <2>2, <2>3, <2>4, <2>5, <2>6 DEF HolderInv
<1>3. ASSUME NEW c \in Callers, Succeeds(c) \/ Fails(c)  PROVE HolderInv'
  <2>1. /\ call' = [call EXCEPT ![c] = Idle] /\ owner' = NoCaller /\ owner = c
    BY <1>3 DEF Succeeds, Fails, HolderInv
  <2>2. \A d \in Callers : call'[d] = IF d = c THEN Idle ELSE call[d]
    BY <2>1 DEF HolderInv
  <2>3. \A d \in Callers : call'[d].at \notin {"execute", "verify"}
    BY <2>1, <2>2 DEF HolderInv, Idle
  <2>4. call' = [d \in Callers |-> call'[d]]
    BY <2>1, <2>2 DEF HolderInv
  <2> QED  BY <2>1, <2>2, <2>3, <2>4 DEF HolderInv, Idle
<1>4. CASE UNCHANGED <<owner, call>>
  BY <1>4 DEF HolderInv
<1> QED  BY <1>1, <1>2, <1>3, <1>4
         DEF Next, Proceed, Reset, SetConfig, Tick, StepClock, vars

\* Two threads never restart components at the same time, although recover()
\* gives its mutex up for the backoff and reset() may clear the state meanwhile.
THEOREM ExclusionHolds == Spec => []ExecutionsExclusive
<1>1. Init => HolderInv
  BY DEF Init, HolderInv, Idle
<1>2. HolderInv => ExecutionsExclusive
  BY DEF HolderInv, ExecutionsExclusive
<1> QED  BY <1>1, <1>2, HolderKept, PTL DEF Spec
-----------------------------------------------------------------------------
\* state_ as the thread that is busy left it.
Phase(place) == IF place = "verify" THEN "Verifying" ELSE "Recovering"

\* One thread at most is busy, state_ says how far it is, and state_ is in
\* progress for no other reason; all of it until reset() interferes.
BusyInv ==
  /\ state \in RecoveryStates
  /\ call = [c \in Callers |-> call[c]]
  /\ \A c \in Callers :
       call[c] = [at |-> call[c].at, until |-> call[c].until, nested |-> call[c].nested]
  /\ ~wiped =>
       /\ \A c \in Callers : Busy(c) => state = Phase(call[c].at)
       /\ InProgress => \E c \in Callers : Busy(c)
       /\ \A c, d \in Callers : Busy(c) /\ Busy(d) => c = d

\* A thread that is busy moves to another place, and state_ with it.
LEMMA BusyMoves ==
  ASSUME BusyInv, NEW c \in Callers, NEW r,
         r = [at |-> r.at, until |-> r.until, nested |-> r.nested],
         call' = [call EXCEPT ![c] = r], state' \in RecoveryStates,
         wiped' = wiped,
         ~wiped => \A d \in Callers : Busy(d) => d = c,
         IF r.at = "idle" THEN state' \notin {"Recovering", "Verifying"}
                          ELSE state' = Phase(r.at)
  PROVE  BusyInv'
<1>1. \A d \in Callers : call'[d] = IF d = c THEN r ELSE call[d]
  BY DEF BusyInv
<1>2. call' = [d \in Callers |-> call'[d]]
  BY <1>1 DEF BusyInv
<1>3. \A d \in Callers :
        call'[d] = [at |-> call'[d].at, until |-> call'[d].until, nested |-> call'[d].nested]
  BY <1>1 DEF BusyInv
<1>4. ~wiped => \A d \in Callers : Busy(d)' => d = c /\ r.at # "idle"
  BY <1>1 DEF Busy
<1>5. r.at # "idle" => Busy(c)'
  BY <1>1 DEF Busy
<1>6. ~wiped => \A d \in Callers : Busy(d)' => state' = Phase(call'[d].at)
  BY <1>1, <1>4
<1>7. InProgress' => \E d \in Callers : Busy(d)'
  BY <1>5 DEF InProgress
<1> QED  BY <1>2, <1>3, <1>4, <1>6, <1>7 DEF BusyInv

\* Every step keeps BusyInv and, until reset() interferes, the table.
LEMMA BusyStep ==
  ASSUME BusyInv, [Next]_vars
  PROVE  /\ BusyInv'
         /\ ~wiped' /\ state' # state => <<state, state'>> \in RecoveryEdges
<1> DEFINE Goal == /\ BusyInv'
                   /\ ~wiped' /\ state' # state => <<state, state'>> \in RecoveryEdges
<1>1. ASSUME UNCHANGED <<state, call, wiped>>  PROVE Goal
  BY <1>1 DEF BusyInv, Busy, InProgress
<1>2. ASSUME UNCHANGED <<call, wiped>>, ~InProgress, state' = "Failed"  PROVE Goal
  <2>1. ~wiped => \A d \in Callers : ~Busy(d)
    BY <1>2 DEF BusyInv, Phase, InProgress
  <2>2. BusyInv'
    BY <1>2, <2>1 DEF BusyInv, Busy, InProgress, RecoveryStates
  <2>3. state' # state => <<state, state'>> \in RecoveryEdges
    BY <1>2 DEF BusyInv, InProgress, RecoveryEdges, RecoveryStates
  <2> QED  BY <2>2, <2>3
<1>3. ASSUME NEW c \in Callers, Recover(c)  PROVE Goal
  <2>1. CASE Ignored(c)
    BY <1>1, <2>1 DEF Ignored, vars, history
  <2>2. CASE \E nested \in BOOLEAN : Refused(c, nested)
    BY <1>1, <1>2, <2>2 DEF Refused, history, FailureState
  <2>3. CASE \E policy \in Policies : Exhausted(c, policy)
    BY <1>2, <2>3 DEF Exhausted, history, FailureState
  <2>4. CASE \E policy \in Policies, nested \in BOOLEAN : Admitted(c, policy, nested)
    <3>1. PICK r : /\ call' = [call EXCEPT ![c] = r]
                   /\ r = [at |-> "backoff", until |-> r.until, nested |-> r.nested]
                   /\ ~InProgress /\ state' = "Recovering" /\ wiped' = wiped
      BY <2>4 DEF Admitted, history
    <3>2. ~wiped => \A d \in Callers : ~Busy(d)
      BY <3>1 DEF BusyInv, Phase, InProgress
    <3>3. BusyInv'
      BY <3>1, <3>2, BusyMoves DEF Phase, RecoveryStates
    <3>4. <<state, state'>> \in RecoveryEdges
      BY <3>1 DEF BusyInv, InProgress, RecoveryStates, RecoveryEdges
    <3> QED  BY <3>3, <3>4
  <2> QED  BY <1>3, <2>1, <2>2, <2>3, <2>4 DEF Recover
<1>4. ASSUME NEW c \in Callers, Wake(c) \/ Verify(c)  PROVE Goal
  <2>1. /\ call' = [call EXCEPT ![c].at = IF Wake(c) THEN "execute" ELSE "verify"]
        /\ Busy(c) /\ wiped' = wiped
        /\ state' = IF Wake(c) THEN state ELSE "Verifying"
        /\ call[c].at = IF Wake(c) THEN "backoff" ELSE "execute"
    BY <1>4 DEF Wake, Verify, Busy, history, VerifyingState
  <2> DEFINE r == [at |-> IF Wake(c) THEN "execute" ELSE "verify",
                   until |-> call[c].until, nested |-> call[c].nested]
  <2>2. [call[c] EXCEPT !.at = r.at] = r
    BY DEF BusyInv
  <2>3. call' = [call EXCEPT ![c] = r]
    BY <2>1, <2>2
  <2>4. ~wiped => \A d \in Callers : Busy(d) => d = c
    BY <2>1 DEF BusyInv
  <2>5. ~wiped => state = "Recovering"
    BY <2>1 DEF BusyInv, Phase
  <2>6. CASE ~wiped
    <3>1. state' = Phase(r.at) /\ state' \in RecoveryStates
      BY <2>1, <2>5, <2>6 DEF Phase, RecoveryStates
    <3>2. BusyInv'
      BY <2>1, <2>3, <2>4, <3>1, BusyMoves
    <3> QED  BY <2>1, <2>5, <2>6, <3>2 DEF RecoveryEdges
  <2>7. CASE wiped
    <3>1. \A d \in Callers : call'[d] = IF d = c THEN r ELSE call[d]
      BY <2>3 DEF BusyInv
    <3>2. call' = [d \in Callers |-> call'[d]]
      BY <2>3, <3>1 DEF BusyInv
    <3> QED  BY <2>1, <2>7, <3>1, <3>2 DEF BusyInv, RecoveryStates
  <2> QED  BY <2>6, <2>7
<1>5. ASSUME NEW c \in Callers, Succeeds(c) \/ Fails(c)  PROVE Goal
  <2>1. /\ call' = [call EXCEPT ![c] = Idle] /\ Busy(c) /\ wiped' = wiped
        /\ IF Succeeds(c) THEN state' = "Recovered" /\ call[c].at = "verify"
                          ELSE state' = "Failed" /\ call[c].at \in {"execute", "verify"}
    BY <1>5 DEF Succeeds, Fails, Busy, history, FailureState
  <2>2. ~wiped => \A d \in Callers : Busy(d) => d = c
    BY <2>1 DEF BusyInv
  <2>3. BusyInv'
    BY <2>1, <2>2, BusyMoves DEF Idle, RecoveryStates
  <2>4. ~wiped => state = Phase(call[c].at)
    BY <2>1 DEF BusyInv
  <2> QED  BY <2>1, <2>3, <2>4 DEF Phase, RecoveryEdges
<1>6. ASSUME NEW c \in Callers, Reset(c)  PROVE Goal
  <2>1. /\ state' = "Idle" /\ call' = call
        /\ ~wiped' => ~wiped /\ ~InProgress
    BY <1>6 DEF Reset
  <2>2. ~wiped' => \A d \in Callers : ~Busy(d)
    BY <2>1 DEF BusyInv, Phase, InProgress
  <2>3. BusyInv'
    BY <2>1, <2>2 DEF BusyInv, Busy, InProgress, RecoveryStates
  <2> QED  BY <2>1, <2>3 DEF BusyInv, InProgress, RecoveryStates, RecoveryEdges
<1>7. ASSUME (\E c \in Callers : SetConfig(c)) \/ Tick \/ StepClock \/ UNCHANGED vars
      PROVE  Goal
  BY <1>1, <1>7 DEF SetConfig, Tick, StepClock, vars, history
<1> QED  BY <1>3, <1>4, <1>5, <1>6, <1>7 DEF Next, Proceed

\* Initially nobody is busy.
LEMMA BusyInit == ASSUME Init  PROVE BusyInv
BY DEF Init, BusyInv, Idle, Busy, InProgress, RecoveryStates

\* A request is ignored only for the sake of one thread that is recovering, as
\* long as reset() does not clear the state under it.
THEOREM ProgressHolds == Spec => []ProgressIsReal
<1>1. BusyInv => ProgressIsReal
  BY DEF BusyInv, ProgressIsReal, Phase, InProgress
<1>2. BusyInv /\ [Next]_vars => BusyInv'
  BY BusyStep
<1> QED  BY <1>1, <1>2, BusyInit, PTL DEF Spec

\* state_ keeps to the table that nothing in the code consults.
THEOREM TableHolds == Spec => TableKept
<1>1. BusyInv /\ [Next]_vars
        => [~wiped' /\ state' # state => <<state, state'>> \in RecoveryEdges]_vars
  BY BusyStep
<1>2. BusyInv /\ [Next]_vars => BusyInv'
  BY BusyStep
<1> QED  BY <1>1, <1>2, BusyInit, PTL DEF Spec, TableKept
-----------------------------------------------------------------------------
(* Whether a recovery can get stuck on the mutex it gives up for the       *)
(* backoff, also when reset() has let a second one in.                     *)

\* While one is in progress, some recovering thread has the mutex or can take
\* it, and so waits for nothing but the end of its backoff.
SomeoneRecovers == InProgress => \E c \in Callers : Busy(c) /\ Lockable(c)

\* The mutex is held by threads that recover only.
WaitInv ==
  /\ InProgress => \E c \in Callers : Busy(c)
  /\ owner # NoCaller => Busy(owner)

\* The way of a call from its admission to its end.
Phases ==
  {<<"backoff", "execute">>, <<"execute", "verify">>, <<"execute", "idle">>, <<"verify", "idle">>}

PhasesKept ==
  \A c \in Callers : ~Busy(c) \/ call'[c] = call[c] \/ <<call[c].at, call'[c].at>> \in Phases

\* A step of one thread of the manager takes its call on and nobody else's.
LEMMA WaitStep ==
  ASSUME HolderInv, WaitInv, [Next]_vars
  PROVE  WaitInv' /\ PhasesKept
<1> USE CallersAssumption
<1>1. ASSUME UNCHANGED <<owner, call>>, InProgress' => InProgress
      PROVE  WaitInv' /\ PhasesKept
  BY <1>1 DEF WaitInv, PhasesKept, Busy
<1>2. ASSUME NEW c \in Callers, NEW r, call' = [call EXCEPT ![c] = r],
             \/ r.at # "idle" /\ owner' \in {c, NoCaller, owner}
             \/ r.at = "idle" /\ owner' = NoCaller /\ ~InProgress',
             ~Busy(c) \/ <<call[c].at, r.at>> \in Phases
      PROVE  WaitInv' /\ PhasesKept
  <2>1. \A d \in Callers : call'[d] = IF d = c THEN r ELSE call[d]
    BY <1>2 DEF HolderInv
  <2>2. PhasesKept
    BY <1>2, <2>1 DEF PhasesKept
  <2>3. r.at # "idle" => Busy(c)'
    BY <2>1 DEF Busy
  <2>4. owner' # NoCaller => Busy(owner)'
    BY <1>2, <2>1, <2>3 DEF WaitInv, HolderInv, Busy
  <2> QED BY <1>2, <2>2, <2>3, <2>4 DEF WaitInv
<1>3. ASSUME NEW c \in Callers, Recover(c)  PROVE WaitInv' /\ PhasesKept
  <2>1. CASE \E policy \in Policies, nested \in BOOLEAN : Admitted(c, policy, nested)
    <3>1. PICK r : /\ call' = [call EXCEPT ![c] = r] /\ r.at = "backoff"
                   /\ owner' \in {c, NoCaller} /\ ~Busy(c)
      BY <2>1 DEF Admitted, Enter
    <3> QED BY <1>2, <3>1
  <2>2. CASE UNCHANGED <<owner, call>> /\ (state' = state \/ state' = "Failed")
    BY <1>1, <2>2 DEF InProgress
  <2> QED BY <1>3, <2>1, <2>2 DEF Recover, Ignored, Refused, Exhausted, vars, FailureState
<1>4. ASSUME NEW c \in Callers, Wake(c) \/ Verify(c)  PROVE WaitInv' /\ PhasesKept
  <2>1. PICK place \in {"execute", "verify"} :
           /\ call' = [call EXCEPT ![c].at = place] /\ owner' \in {c, owner}
           /\ <<call[c].at, place>> \in Phases
    BY <1>4 DEF Wake, Verify, Phases
  <2>2. PICK r : r = [call[c] EXCEPT !.at = place]
    OBVIOUS
  <2>3. call' = [call EXCEPT ![c] = r] /\ r.at = place
    BY <2>1, <2>2 DEF HolderInv
  <2> QED BY <1>2, <2>1, <2>3
<1>5. ASSUME NEW c \in Callers, Succeeds(c) \/ Fails(c)  PROVE WaitInv' /\ PhasesKept
  <2>1. /\ call' = [call EXCEPT ![c] = Idle] /\ Idle.at = "idle" /\ owner' = NoCaller
        /\ ~InProgress' /\ <<call[c].at, "idle">> \in Phases
    BY <1>5 DEF Succeeds, Fails, Idle, InProgress, Phases, FailureState
  <2> QED BY <1>2, <2>1
<1>6. CASE \E c \in Callers : Reset(c) \/ SetConfig(c)
  BY <1>1, <1>6 DEF Reset, SetConfig, InProgress
<1>7. CASE Tick \/ StepClock \/ UNCHANGED vars
  BY <1>1, <1>7 DEF Tick, StepClock, vars, InProgress
<1> QED BY <1>3, <1>4, <1>5, <1>6, <1>7 DEF Next, Proceed

\* The safety core of RecoveryEnds, with no assumption on the clock or on
\* reset(): a recovery in progress is never left waiting for a mutex that nobody
\* who can go on holds, and a call of recover() goes from its backoff over the
\* execution and the verification to its end and never back.
THEOREM RecoveryDoesNotStick == Spec => []SomeoneRecovers /\ [][PhasesKept]_vars
<1>1. Init => HolderInv /\ WaitInv
  BY DEF Init, HolderInv, WaitInv, Idle, InProgress
<1>2. HolderInv /\ [Next]_vars => HolderInv'
  BY HolderKept
<1>3. HolderInv /\ WaitInv /\ [Next]_vars => WaitInv' /\ [PhasesKept]_vars
  BY WaitStep
<1>4. HolderInv /\ WaitInv => SomeoneRecovers
  BY DEF HolderInv, WaitInv, SomeoneRecovers, Lockable
<1> QED BY <1>1, <1>2, <1>3, <1>4, PTL DEF Spec
==============================================================================
