----------------------------- MODULE StateTables -----------------------------
(***************************************************************************)
(* The transition tables of LDDM's state machines.  Every table is the set *)
(* of edges its is_valid_*_transition function accepts; a transition to    *)
(* the current state is accepted by all of them.                           *)
(*                                                                         *)
(* transition_to() never throws: callers that ignore its result keep the   *)
(* old state when the table rejects the edge, which is what the ...Move    *)
(* operators return.                                                       *)
(***************************************************************************)

SessionStates == {"CREATED", "INITIALIZING", "READY", "STARTING", "RUNNING",
                  "STOPPING", "STOPPED", "FAILED", "RECOVERING"}

SessionEdges ==
  ({"CREATED"}      \X {"INITIALIZING", "FAILED"}) \cup
  ({"INITIALIZING"} \X {"READY", "FAILED"}) \cup
  ({"READY"}        \X {"STARTING", "STOPPING", "FAILED"}) \cup
  ({"STARTING"}     \X {"RUNNING", "STOPPING", "FAILED", "RECOVERING"}) \cup
  ({"RUNNING"}      \X {"STOPPING", "FAILED", "RECOVERING"}) \cup
  ({"STOPPING"}     \X {"STOPPED", "FAILED"}) \cup
  ({"STOPPED"}      \X {"INITIALIZING", "RECOVERING"}) \cup
  ({"FAILED"}       \X {"INITIALIZING", "RECOVERING"}) \cup
  ({"RECOVERING"}   \X {"RUNNING", "STARTING", "INITIALIZING", "STOPPING",
                        "FAILED"})

SessionCan(from, to) == from = to \/ <<from, to>> \in SessionEdges

SessionMove(from, to) == IF SessionCan(from, to) THEN to ELSE from

-----------------------------------------------------------------------------
(* Weston and LDDE managers: the same eight states, two tables that differ *)
(* in one edge, Failed -> Stopping.                                        *)

ManagerStates == {"Created", "Preparing", "Starting", "WaitingReady",
                  "Running", "Stopping", "Stopped", "Failed"}

WestonEdges ==
  ({"Created"}      \X {"Preparing", "Stopping", "Failed"}) \cup
  ({"Preparing"}    \X {"Starting", "Stopping", "Failed"}) \cup
  ({"Starting"}     \X {"WaitingReady", "Stopping", "Failed"}) \cup
  ({"WaitingReady"} \X {"Running", "Stopping", "Failed"}) \cup
  ({"Running"}      \X {"Stopping", "Failed"}) \cup
  ({"Stopping"}     \X {"Stopped", "Failed"}) \cup
  ({"Failed"}       \X {"Stopped"})

LddeEdges == WestonEdges \cup {<<"Failed", "Stopping">>}

ManagerEdges(c) == IF c = "weston" THEN WestonEdges ELSE LddeEdges

ManagerMove(c, from, to) ==
  IF <<from, to>> \in ManagerEdges(c) THEN to ELSE from

-----------------------------------------------------------------------------
(* The daemon's own lifecycle and the recovery manager.                    *)

LifecycleStates == {"CREATED", "INITIALIZING", "READY", "STARTING", "RUNNING",
                    "STOPPING", "STOPPED", "FAILED"}

LifecycleEdges ==
  ({"CREATED"}      \X {"INITIALIZING"}) \cup
  ({"INITIALIZING"} \X {"READY", "FAILED"}) \cup
  ({"READY"}        \X {"STARTING", "STOPPING", "FAILED"}) \cup
  ({"STARTING"}     \X {"RUNNING", "STOPPING", "FAILED"}) \cup
  ({"RUNNING"}      \X {"STOPPING", "FAILED"}) \cup
  ({"STOPPING"}     \X {"STOPPED", "FAILED"}) \cup
  ({"STOPPED", "FAILED"} \X {"INITIALIZING"})

LifecycleMove(from, to) ==
  IF <<from, to>> \in LifecycleEdges THEN to ELSE from

RecoveryStates == {"Idle", "Recovering", "Verifying", "Recovered", "Failed"}

\* is_valid_recovery_transition: stated by the code, consulted by nothing in it.
RecoveryEdges ==
  ({"Idle"}       \X {"Recovering", "Failed"}) \cup
  ({"Recovering"} \X {"Verifying", "Failed"}) \cup
  ({"Verifying"}  \X {"Recovered", "Failed"}) \cup
  ({"Recovered"}  \X {"Idle", "Recovering", "Failed"}) \cup
  ({"Failed"}     \X {"Idle", "Recovering"})
=============================================================================
