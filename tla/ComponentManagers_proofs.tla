----------------------- MODULE ComponentManagers_proofs -----------------------
(***************************************************************************)
(* The two managers as shared objects, for any number of threads, calls    *)
(* and processes: who owns a child, and what a manager's state says of it. *)
(***************************************************************************)
EXTENDS ComponentManagers, TLAPS

Resting == {"Created", "Preparing", "Stopped"}

\* A reaper is on its way to the listener of manager m with the exit of p.
Pending(p, m) ==
  \E u \in Threads : call[u].at = "deliver" /\ call[u].on = p /\ m \in call[u].to

(* What a thread knows inside a call: while it has the mutex nobody else   *)
(* touches the manager, and the process it spawned is nobody else's.       *)
Announced(p, m) ==
  /\ p \in Handles /\ life[p] # "unused"
  /\ \A n \in Managers : process[n] # p
  /\ p \in told => Pending(p, m)

ThreadInv(t) ==
  /\ call[t].at \in {"start", "locking", "spawn", "announce", "refused", "waiting", "ready",
                     "unready"} => call[t].for = "start"
  /\ call[t].at = "stop" => call[t].for = "stop"
  /\ call[t].at = "reset" => call[t].for = "reset"
  /\ call[t].at \in {"spawn", "announce", "refused"} =>
       state[call[t].of] = "Starting" /\ process[call[t].of] = NoProcess
  /\ call[t].at = "announce" => Announced(call[t].on, call[t].of)
  /\ call[t].at \in {"terminate", "conclude"} =>
       /\ process[call[t].of] \in Handles
       /\ call[t].for = "start" => state[call[t].of] = "Failed"
       /\ call[t].for = "stop" => state[call[t].of] \in {"Stopping", "Failed"}
       /\ call[t].for # "prepare"
  /\ call[t].at = "conclude" => life[process[call[t].of]] = "exited"

\* Two calls never announce the same process.
AnnouncedOnce ==
  \A t, u \in Threads :
    call[t].at = "announce" /\ call[u].at = "announce" /\ call[t].on = call[u].on => t = u

(* What a manager's fields say of each other when nobody is inside.        *)
ManagerInv(m) ==
  /\ process[m] \in Handles => life[process[m]] # "unused"
  /\ mutex[m] = NoThread /\ state[m] \in Resting => process[m] = NoProcess
  /\ mutex[m] = NoThread /\ state[m] \in Fragile /\ process[m] \in told =>
       Pending(process[m], m)

\* No process belongs to both managers.
OwnedOnce ==
  \A m, n \in Managers : process[m] = process[n] /\ process[m] \in Handles => m = n

\* Only processes that were spawned are reported.
ToldAreUsed == \A q \in told : life[q] # "unused"

ManagersInv ==
  /\ TypeOK /\ (\A t \in Threads : ThreadInv(t)) /\ (\A m \in Managers : ManagerInv(m))
  /\ AnnouncedOnce /\ OwnedOnce /\ ToldAreUsed /\ ChildIsHeld

\* The places of a call inside its manager's mutex.
Busy == {"spawn", "announce", "refused", "terminate", "conclude"}
Living == {"alive", "zombie"}
Lives == {"unused", "alive", "zombie", "exited"}

-----------------------------------------------------------------------------
\* The mutex: whoever is inside a manager's has it, and nobody else.
LEMMA Exclusion ==
  ASSUME TypeOK, NEW t \in Threads, NEW m \in Managers
  PROVE  mutex[m] = t <=> call[t].of = m /\ call[t].at \in Busy
<1>1. call[t].at \in Places
  BY DEF TypeOK, Calls
<1> QED BY <1>1 DEF TypeOK, Holder, Places, Unlocked, Busy

\* Somebody else who is inside is inside the other manager.
LEMMA OtherManager ==
  ASSUME TypeOK, NEW t \in Threads, NEW u \in Threads, t # u, NEW m \in Managers,
         Free(t, m), call[u].at \in Busy
  PROVE  call[u].of # m
  BY Exclusion, ManagersAssumption DEF Free

\* A step of a thread on one manager: it has or can take the mutex, moves its
\* own call, and replaces the process by nothing or by the one it announced.
LEMMA ThreadStep ==
  ASSUME ManagersInv, NEW t \in Threads, NEW m \in Managers,
         Free(t, m), call[t].at # "deliver", call[t].at \in Busy => call[t].of = m,
         NEW c \in Calls, call' = [call EXCEPT ![t] = c],
         c.at # "deliver", c.at \in Busy => c.of = m,
         NEW s \in ManagerStates, state' = [state EXCEPT ![m] = s],
         NEW p \in Handles \cup {NoProcess}, process' = [process EXCEPT ![m] = p],
         mutex' = [mutex EXCEPT ![m] = IF c.at \in Busy THEN t ELSE NoThread],
         p \in {process[m], NoProcess} \/ call[t].at = "announce",
         call[t].at = "announce" => p = call[t].on,
         life' \in [Handles -> Lives], told' \subseteq Handles,
         \A q \in Handles : \/ life'[q] = life[q]
                            \/ q = process[m] /\ life'[q] = Ended(q)
                            \/ /\ life[q] = "unused" /\ life'[q] = "alive"
                               /\ c.at = "announce" /\ c.on = q,
         process[m] \in Handles /\ p # process[m] => life'[process[m]] \notin Living,
         c.at = "announce" => life[c.on] = "unused" /\ p = NoProcess /\ c.on \in Handles,
         told \subseteq told', told' \subseteq told \cup {process[m]},
         calls' = calls, crashed' \in BOOLEAN,
         ThreadInv(t)', ManagerInv(m)'
  PROVE  ManagersInv'
<1> USE DEF ManagersInv
<1>1. /\ state \in [Managers -> ManagerStates]
      /\ process \in [Managers -> Handles \cup {NoProcess}]
      /\ mutex \in [Managers -> Threads \cup {NoThread}]
      /\ life \in [Handles -> Lives] /\ told \subseteq Handles
      /\ call \in [Threads -> Calls] /\ calls \in Nat
      /\ NoProcess \notin Handles /\ NoThread \notin Threads
  BY ManagersAssumption DEF TypeOK, Lives, Handles, NoProcess
<1>2. /\ call'[t] = c /\ \A u \in Threads \ {t} : call'[u] = call[u]
      /\ state'[m] = s /\ process'[m] = p
      /\ \A n \in Managers \ {m} : /\ state'[n] = state[n] /\ process'[n] = process[n]
                                   /\ mutex'[n] = mutex[n]
      /\ mutex'[m] = IF c.at \in Busy THEN t ELSE NoThread
  BY <1>1
<1>3. TypeOK'
  <2>1. \A u \in Threads, n \in Managers :
          mutex'[n] = u <=> call'[u].of = n /\ call'[u].at \in Busy
    <3> TAKE u \in Threads, n \in Managers
    <3>1. CASE u = t
      BY <1>1, <1>2, <3>1, Exclusion DEF Free
    <3>2. CASE u # t /\ n # m
      BY <1>2, <3>2, Exclusion
    <3>3. CASE u # t /\ n = m
      BY <1>1, <1>2, <3>3, OtherManager
    <3> QED BY <3>1, <3>2, <3>3
  <2>2. \A u \in Threads : call'[u].at \in Places
    BY <1>1, <1>2 DEF Calls
  <2>3. \A u \in Threads, n \in Managers :
          Holder(u, n)' <=> call'[u].of = n /\ call'[u].at \notin Unlocked \cup {"idle", "deliver"}
    BY <2>1, <2>2 DEF Holder, Places, Unlocked, Busy
  <2>4. /\ state' \in [Managers -> ManagerStates] /\ process' \in [Managers -> Handles \cup {NoProcess}]
        /\ mutex' \in [Managers -> Threads \cup {NoThread}] /\ call' \in [Threads -> Calls]
    BY <1>1
  <2> QED BY <1>1, <2>3, <2>4 DEF TypeOK, Lives
<1>4. \A q, n : Pending(q, n) => Pending(q, n)'
  BY <1>2 DEF Pending
<1>5. \A q \in Handles : /\ life[q] # "unused" => life'[q] # "unused"
                         /\ life[q] = "exited" => life'[q] = "exited"
                         /\ life'[q] \in Living => life[q] \in Living
                                                   \/ (c.at = "announce" /\ c.on = q)
  BY <1>1 DEF Ended, Living, Lives
<1>6. call[t].at = "announce" => p \in Handles /\ \A n \in Managers : process[n] # p
  BY DEF ThreadInv, Announced
<1>7. ASSUME NEW u \in Threads, u # t PROVE ThreadInv(u)'
  <2>1. call'[u] = call[u] /\ call[u].of \in Managers
    BY <1>1, <1>2, <1>7 DEF Calls
  <2>2. call[u].at \in Busy => call[u].of # m
    BY <1>7, OtherManager
  <2>3. ThreadInv(u)
    OBVIOUS
  <2>4. call[u].at = "announce" => Announced(call[u].on, call[u].of)'
    <3> SUFFICES ASSUME call[u].at = "announce" PROVE Announced(call[u].on, call[u].of)'
      OBVIOUS
    <3> DEFINE q == call[u].on
    <3>1. Announced(q, call[u].of)
      BY <2>3 DEF ThreadInv
    <3>2. q # p
      BY <1>1, <1>6, <1>7, <3>1 DEF Announced, AnnouncedOnce
    <3>3. q \in told' => q \in told
      BY <3>1 DEF Announced
    <3> QED BY <1>2, <1>4, <1>5, <2>1, <3>1, <3>2, <3>3 DEF Announced
  <2>5. call[u].at \in Busy => state'[call[u].of] = state[call[u].of]
                               /\ process'[call[u].of] = process[call[u].of]
    BY <1>2, <2>1, <2>2
  <2> QED BY <1>5, <2>1, <2>3, <2>4, <2>5 DEF ThreadInv, Busy
<1>8. ASSUME NEW n \in Managers, n # m PROVE ManagerInv(n)'
  <2>1. ManagerInv(n) /\ state'[n] = state[n] /\ process'[n] = process[n] /\ mutex'[n] = mutex[n]
    BY <1>2, <1>8
  <2>2. process[n] \in told' => process[n] \in told
    BY <1>8 DEF OwnedOnce
  <2> QED BY <1>4, <1>5, <2>1, <2>2 DEF ManagerInv
<1>9. AnnouncedOnce'
  <2>1. \A u \in Threads \ {t} : call[u].at = "announce" => life[call[u].on] # "unused"
    BY DEF ThreadInv, Announced
  <2> QED BY <1>2, <2>1 DEF AnnouncedOnce
<1>10. OwnedOnce' /\ ToldAreUsed'
  <2>1. OwnedOnce'
    BY <1>1, <1>2, <1>6 DEF OwnedOnce
  <2>2. ASSUME NEW q \in told' PROVE life'[q] # "unused"
    <3>1. q \in Handles /\ (q \in told \/ q = process[m])
      OBVIOUS
    <3>2. life[q] # "unused"
      BY <3>1 DEF ToldAreUsed, ManagerInv
    <3> QED BY <1>5, <3>1, <3>2
  <2> QED BY <2>1, <2>2 DEF ToldAreUsed
<1>11. ChildIsHeld'
  <2> SUFFICES ASSUME NEW q \in Handles, life'[q] \in Living
               PROVE  \/ \E n \in Managers : process'[n] = q
                      \/ \E u \in Threads : /\ call'[u].at = "announce" /\ call'[u].on = q
                                            /\ process'[call'[u].of] = NoProcess
    BY DEF ChildIsHeld, Living
  <2>1. CASE c.at = "announce" /\ c.on = q
    BY <1>2, <2>1 DEF Busy
  <2>2. ASSUME NEW n \in Managers, process[n] = q
        PROVE  \E k \in Managers : process'[k] = q
    BY <1>2, <2>2
  <2>3. ASSUME NEW u \in Threads, call[u].at = "announce", call[u].on = q,
               process[call[u].of] = NoProcess, u # t
        PROVE  call'[u].at = "announce" /\ call'[u].on = q /\ process'[call'[u].of] = NoProcess
    BY <1>1, <1>2, <2>3, OtherManager DEF Busy, Calls
  <2>4. CASE call[t].at = "announce" /\ call[t].on = q
    BY <1>2, <2>4
  <2>5. CASE life[q] \in Living
    BY <2>2, <2>3, <2>4, <2>5 DEF ChildIsHeld, Living
  <2> QED BY <1>5, <2>1, <2>5
<1> QED BY <1>3, <1>7, <1>8, <1>9, <1>10, <1>11

\* A step of a thread that touches nothing but its own call, outside the mutex.
LEMMA QuietStep ==
  ASSUME ManagersInv, NEW t \in Threads,
         NEW c \in Calls, call' = [call EXCEPT ![t] = c],
         call[t].at \notin Busy \cup {"deliver"}, c.at \notin Busy \cup {"deliver"},
         c.at \in {"start", "locking", "waiting", "ready", "unready"} => c.for = "start",
         c.at = "stop" => c.for = "stop", c.at = "reset" => c.for = "reset",
         UNCHANGED <<object, life, told, crashed>>, calls' \in Nat
  PROVE  ManagersInv'
<1> USE DEF ManagersInv, object
<1>1. /\ call'[t] = c /\ \A u \in Threads \ {t} : call'[u] = call[u]
      /\ call \in [Threads -> Calls] /\ call' \in [Threads -> Calls]
  BY DEF TypeOK
<1>2. TypeOK'
  <2>1. \A u \in Threads, n \in Managers :
          mutex[n] = u <=> call'[u].of = n /\ call'[u].at \in Busy
    BY <1>1, Exclusion
  <2>2. \A u \in Threads, n \in Managers :
          Holder(u, n)' <=> call'[u].of = n /\ call'[u].at \notin Unlocked \cup {"idle", "deliver"}
    BY <1>1, <2>1 DEF Holder, Places, Unlocked, Busy, Calls
  <2> QED BY <1>1, <2>2 DEF TypeOK
<1>3. \A q, n : Pending(q, n) => Pending(q, n)'
  BY <1>1 DEF Pending
<1>4. \A u \in Threads : ThreadInv(u)'
  <2> TAKE u \in Threads
  <2>1. CASE u = t
    BY <1>1, <2>1 DEF ThreadInv, Busy
  <2>2. CASE u # t
    BY <1>1, <1>3, <2>2 DEF ThreadInv, Announced
  <2> QED BY <2>1, <2>2
<1>5. \A m \in Managers : ManagerInv(m)'
  BY <1>3 DEF ManagerInv
<1>6. AnnouncedOnce' /\ OwnedOnce' /\ ToldAreUsed'
  BY <1>1 DEF AnnouncedOnce, OwnedOnce, ToldAreUsed, Busy
<1>7. ChildIsHeld'
  <2>1. \A u \in Threads : call[u].at = "announce" => call'[u] = call[u]
    BY <1>1 DEF Busy
  <2> QED BY <2>1 DEF ChildIsHeld
<1> QED BY <1>2, <1>4, <1>5, <1>6, <1>7

-----------------------------------------------------------------------------
(* The reaper and the processes.                                           *)

\* A process exits by itself.
LEMMA ExitStep ==
  ASSUME ManagersInv, NEW p \in Handles, Exit(p) PROVE ManagersInv'
<1> USE DEF ManagersInv, object
<1>1. /\ life[p] = "alive" /\ life' = [life EXCEPT ![p] = "zombie"]
      /\ UNCHANGED <<state, process, mutex, told, call, calls, crashed>>
      /\ life \in [Handles -> Lives]
  BY DEF Exit, TypeOK, Lives
<1>2. \A q \in Handles : /\ life'[q] = "unused" <=> life[q] = "unused"
                         /\ life'[q] = "exited" <=> life[q] = "exited"
                         /\ life'[q] \in Living <=> life[q] \in Living
  BY <1>1 DEF Living
<1>3. TypeOK'
  BY <1>1 DEF TypeOK, Holder
<1>4. \A q, n : Pending(q, n)' = Pending(q, n)
  BY <1>1 DEF Pending
<1>5. \A u \in Threads : ThreadInv(u)'
  BY <1>1, <1>2, <1>4 DEF ThreadInv, Announced, TypeOK, Calls
<1>6. \A m \in Managers : ManagerInv(m)'
  BY <1>1, <1>2, <1>4 DEF ManagerInv
<1>7. AnnouncedOnce' /\ OwnedOnce' /\ ChildIsHeld'
  BY <1>1, <1>2 DEF AnnouncedOnce, OwnedOnce, ChildIsHeld, Living
<1>8. ToldAreUsed'
  BY <1>1, <1>2 DEF ToldAreUsed, TypeOK
<1> QED BY <1>3, <1>5, <1>6, <1>7, <1>8

\* A reaper takes an exit to the listeners of both managers.
LEMMA NoticeStep ==
  ASSUME ManagersInv, NEW t \in Threads, Notice(t) PROVE ManagersInv'
<1> USE DEF ManagersInv, object
<1>1. PICK p \in Handles \ told :
        /\ life[p] \in {"zombie", "exited"}
        /\ life' = [life EXCEPT ![p] = "exited"] /\ told' = told \cup {p}
        /\ call' = [call EXCEPT ![t].at = "deliver", ![t].on = p, ![t].to = Managers]
        /\ call[t].at = "idle"
        /\ UNCHANGED <<state, process, mutex, calls, crashed>>
  BY DEF Notice, At
<1>2. /\ life \in [Handles -> Lives] /\ call \in [Threads -> Calls]
      /\ process \in [Managers -> Handles \cup {NoProcess}] /\ told \subseteq Handles
  BY DEF TypeOK, Lives
<1> DEFINE c == [call[t] EXCEPT !.at = "deliver", !.on = p, !.to = Managers]
<1>3. /\ c \in Calls /\ c.at = "deliver" /\ c.on = p /\ c.to = Managers
      /\ call' = [call EXCEPT ![t] = c]
  BY <1>1, <1>2 DEF Calls, Places
<1> HIDE DEF c
<1>4. /\ call'[t] = c /\ \A u \in Threads \ {t} : call'[u] = call[u]
      /\ call' \in [Threads -> Calls]
  BY <1>2, <1>3
<1>5. \A q \in Handles : /\ life[q] # "unused" => life'[q] # "unused"
                         /\ life[q] = "exited" => life'[q] = "exited"
                         /\ life'[q] \in Living => life[q] \in Living
  BY <1>1, <1>2 DEF Living
<1>6. TypeOK'
  <2>1. \A u \in Threads, n \in Managers :
          mutex[n] = u <=> call'[u].of = n /\ call'[u].at \in Busy
    BY <1>1, <1>3, <1>4, Exclusion DEF Busy
  <2>2. \A u \in Threads, n \in Managers :
          Holder(u, n)' <=> call'[u].of = n /\ call'[u].at \notin Unlocked \cup {"idle", "deliver"}
    BY <1>1, <1>4, <2>1 DEF Holder, Places, Unlocked, Busy, Calls
  <2>3. life' \in [Handles -> Lives]
    BY <1>1, <1>2 DEF Lives
  <2> QED BY <1>1, <1>4, <2>2, <2>3 DEF TypeOK, Lives
<1>7. \A q, n : Pending(q, n) \/ (q = p /\ n \in Managers) => Pending(q, n)'
  BY <1>1, <1>3, <1>4 DEF Pending
<1>8. ASSUME NEW u \in Threads PROVE ThreadInv(u)'
  <2>1. CASE u = t
    BY <1>3, <1>4, <2>1 DEF ThreadInv
  <2>2. CASE u # t
    <3>1. ASSUME call[u].at = "announce" PROVE Announced(call[u].on, call[u].of)'
      <4>1. /\ call[u].of \in Managers /\ call'[u] = call[u]
            /\ Announced(call[u].on, call[u].of)
        BY <1>2, <1>4, <2>2, <3>1 DEF Calls, ThreadInv
      <4>2. call[u].on \in told' => Pending(call[u].on, call[u].of)'
        BY <1>1, <1>7, <4>1 DEF Announced
      <4> QED BY <1>1, <1>5, <4>1, <4>2 DEF Announced
    <3> QED BY <1>1, <1>4, <1>5, <2>2, <3>1 DEF ThreadInv
  <2> QED BY <2>1, <2>2
<1>9. \A m \in Managers : ManagerInv(m)'
  BY <1>1, <1>5, <1>7 DEF ManagerInv
<1>10. AnnouncedOnce' /\ OwnedOnce' /\ ToldAreUsed'
  BY <1>1, <1>2, <1>3, <1>4, <1>5 DEF AnnouncedOnce, OwnedOnce, ToldAreUsed
<1>11. ChildIsHeld'
  <2>1. \A u \in Threads : call[u].at = "announce" => call'[u] = call[u]
    BY <1>1, <1>4
  <2> SUFFICES ASSUME NEW q \in Handles, life'[q] \in Living
               PROVE  \/ \E n \in Managers : process'[n] = q
                      \/ \E u \in Threads : /\ call'[u].at = "announce" /\ call'[u].on = q
                                            /\ process'[call'[u].of] = NoProcess
    BY DEF ChildIsHeld, Living
  <2>2. life[q] \in Living /\ process' = process
    BY <1>1, <1>5
  <2> QED BY <2>1, <2>2 DEF ChildIsHeld, Living
<1> QED BY <1>6, <1>8, <1>9, <1>10, <1>11

\* The listener of one manager: what it hears is not pending any more, and
\* then its manager does not claim to run.
LEMMA DeliverStep ==
  ASSUME ManagersInv, NEW t \in Threads, NEW m \in Managers, Deliver(t, m) PROVE ManagersInv'
<1> USE DEF ManagersInv, object
<1>1. /\ call[t].at = "deliver" /\ m \in call[t].to /\ Free(t, m)
      /\ state' = IF process[m] = call[t].on /\ state[m] \in Fragile
                    THEN Moved(m, "Failed") ELSE state
      /\ UNCHANGED <<process, mutex, life, told, calls, crashed>>
      /\ call \in [Threads -> Calls] /\ state \in [Managers -> ManagerStates]
      /\ process \in [Managers -> Handles \cup {NoProcess}]
  BY DEF Deliver, At, TypeOK
<1>2. \E c \in Calls :
        /\ call' = [call EXCEPT ![t] = c] /\ c.at \in {"deliver", "idle"}
        /\ c.at = "deliver" => c.on = call[t].on /\ c.to = call[t].to \ {m}
        /\ c.at = "idle" => call[t].to = {m}
  <2> DEFINE c == [call[t] EXCEPT !.to = call[t].to \ {m}]
  <2>1. call' = [call EXCEPT ![t] = IF call[t].to \ {m} = {} THEN Idle ELSE c]
    BY DEF Deliver
  <2>2. call[t] \in Calls
    BY <1>1
  <2>3. c \in Calls /\ c.at = call[t].at /\ c.on = call[t].on /\ c.to = call[t].to \ {m}
    BY ONLY <2>2 DEF Calls
  <2>4. Idle \in Calls /\ Idle.at = "idle"
    BY DEF Idle, Calls, Places, Managers
  <2> HIDE DEF c
  <2>5. CASE call[t].to \ {m} = {}
    BY <1>1, <2>1, <2>4, <2>5
  <2>6. CASE call[t].to \ {m} # {}
    BY <1>1, <2>1, <2>3, <2>6
  <2> QED BY <2>5, <2>6
<1>3. PICK c \in Calls :
        /\ call' = [call EXCEPT ![t] = c] /\ c.at \in {"deliver", "idle"}
        /\ c.at = "deliver" => c.on = call[t].on /\ c.to = call[t].to \ {m}
        /\ c.at = "idle" => call[t].to = {m}
  BY <1>2
<1>4. /\ call'[t] = c /\ \A u \in Threads \ {t} : call'[u] = call[u]
      /\ call' \in [Threads -> Calls]
  BY <1>1, <1>3
<1>5. /\ state' \in [Managers -> ManagerStates]
      /\ \A n \in Managers \ {m} : state'[n] = state[n]
      /\ state'[m] \in {state[m], "Failed"}
      /\ process[m] = call[t].on => state'[m] \notin Fragile
  <2>1. state[m] \in Fragile => ManagerMove(m, state[m], "Failed") = "Failed"
    BY DEF Fragile, ManagerMove, ManagerEdges, WestonEdges, LddeEdges
  <2> QED BY <1>1, <2>1 DEF Moved, ManagerStates, Fragile
<1>6. TypeOK'
  <2>1. \A u \in Threads, n \in Managers :
          mutex[n] = u <=> call'[u].of = n /\ call'[u].at \in Busy
    BY <1>1, <1>3, <1>4, Exclusion DEF Busy
  <2>2. \A u \in Threads, n \in Managers :
          Holder(u, n)' <=> call'[u].of = n /\ call'[u].at \notin Unlocked \cup {"idle", "deliver"}
    BY <1>1, <1>4, <2>1 DEF Holder, Places, Unlocked, Busy, Calls
  <2> QED BY <1>1, <1>4, <1>5, <2>2 DEF TypeOK
<1>7. \A q, n : Pending(q, n) => Pending(q, n)' \/ (n = m /\ q = call[t].on)
  BY <1>1, <1>3, <1>4 DEF Pending
<1>8. ASSUME NEW u \in Threads PROVE ThreadInv(u)'
  <2>1. CASE u = t
    BY <1>3, <1>4, <2>1 DEF ThreadInv
  <2>2. CASE u # t
    <3>1. call'[u] = call[u] /\ call[u].of \in Managers /\ ThreadInv(u)
      BY <1>1, <1>4, <2>2 DEF Calls
    <3>2. call[u].at \in Busy => call[u].of # m
      BY <1>1, <2>2, OtherManager
    <3>3. call[u].at = "announce" => Announced(call[u].on, call[u].of)'
      BY <1>1, <1>7, <3>1, <3>2 DEF ThreadInv, Announced, Busy
    <3> QED BY <1>1, <1>5, <3>1, <3>2, <3>3 DEF ThreadInv, Busy
  <2> QED BY <2>1, <2>2
<1>9. \A n \in Managers : ManagerInv(n)'
  <2> TAKE n \in Managers
  <2>1. CASE n # m
    BY <1>1, <1>5, <1>7, <2>1 DEF ManagerInv
  <2>2. CASE n = m
    BY <1>1, <1>5, <1>7, <2>2 DEF ManagerInv, Resting, Fragile
  <2> QED BY <2>1, <2>2
<1>10. AnnouncedOnce' /\ OwnedOnce' /\ ToldAreUsed'
  BY <1>1, <1>3, <1>4 DEF AnnouncedOnce, OwnedOnce, ToldAreUsed
<1>11. ChildIsHeld'
  <2>1. \A u \in Threads : call[u].at = "announce" => call'[u] = call[u]
    BY <1>1, <1>4
  <2> QED BY <1>1, <2>1 DEF ChildIsHeld
<1> QED BY <1>6, <1>8, <1>9, <1>10, <1>11

-----------------------------------------------------------------------------
(* The steps inside a call.                                                *)

\* What is known of a call, and how a field that stays reads as an update.
LEMMA Typed ==
  ASSUME TypeOK, NEW t \in Threads, NEW m \in Managers
  PROVE  /\ call[t] \in Calls /\ call[t].of \in Managers
         /\ state[m] \in ManagerStates /\ process[m] \in Handles \cup {NoProcess}
         /\ life \in [Handles -> Lives] /\ told \subseteq Handles
         /\ state = [state EXCEPT ![m] = state[m]]
         /\ process = [process EXCEPT ![m] = process[m]]
         /\ mutex = [mutex EXCEPT ![m] = mutex[m]]
         /\ mutex[m] = t => Free(t, m)
         /\ Free(t, m) /\ call[t].at \notin Busy => mutex[m] = NoThread
         /\ NoThread \notin Threads /\ NoProcess \notin Handles
  BY Exclusion, ManagersAssumption DEF TypeOK, Calls, Lives, Free, Handles, NoProcess

\* A thread's call is one.
LEMMA TypedCall ==
  ASSUME TypeOK, NEW t \in Threads
  PROVE  call[t] \in Calls /\ call[t].of \in Managers
  BY DEF TypeOK, Calls

\* A call that goes on.
LEMMA CallGoesOn ==
  ASSUME NEW c \in Calls, NEW place \in Places
  PROVE  /\ [c EXCEPT !.at = place] \in Calls
         /\ [c EXCEPT !.at = place].at = place /\ [c EXCEPT !.at = place].of = c.of
         /\ [c EXCEPT !.at = place].for = c.for /\ [c EXCEPT !.at = place].on = c.on
  BY DEF Calls

\* A call that returns gives the mutex up.
LEMMA ReturnsFacts ==
  ASSUME TypeOK, NEW t \in Threads, NEW m \in Managers, Returns(t),
         Free(t, m), call[t].at \in Busy => call[t].of = m
  PROVE  /\ Idle \in Calls /\ Idle.at = "idle"
         /\ call' = [call EXCEPT ![t] = Idle]
         /\ mutex' = [mutex EXCEPT ![m] = NoThread]
<1>1. mutex \in [Managers -> Threads \cup {NoThread}]
  BY DEF TypeOK
<1>2. \A n \in Managers \ {m} : mutex[n] # t
  BY Exclusion
<1>3. mutex' = [n \in Managers |-> IF mutex[n] = t THEN NoThread ELSE mutex[n]]
  BY DEF Returns
<1>4. mutex' = [mutex EXCEPT ![m] = NoThread]
  BY <1>1, <1>2, <1>3 DEF Free
<1> QED BY <1>4 DEF Returns, Idle, Calls, Places, Managers

\* The managers' moves that start() and stop() rely on.
LEMMA Edges ==
  ASSUME NEW m \in Managers
  PROVE  /\ ManagerMove(m, "Preparing", "Starting") = "Starting"
         /\ ManagerMove(m, "Starting", "WaitingReady") = "WaitingReady"
         /\ ManagerMove(m, "Starting", "Failed") = "Failed"
         /\ \A s \in ManagerStates \ Resting :
              /\ ManagerMove(m, s, "Failed") = "Failed"
              /\ ManagerMove(m, s, "Stopping") \in {"Stopping", "Failed"}
         /\ \A s \in {"Stopping", "Failed"} : ManagerMove(m, s, "Stopped") = "Stopped"
         /\ \A s \in ManagerStates : ManagerMove(m, s, "Running") = "Running" => s \in {"WaitingReady", "Running"}
         /\ \A s, to \in ManagerStates : ManagerMove(m, s, to) \in {s, to}
  BY DEF ManagerMove, ManagerEdges, WestonEdges, LddeEdges, ManagerStates, Resting, Managers

\* A step inside a call that changes the state and nothing of the processes.
LEMMA FieldStep ==
  ASSUME ManagersInv, NEW t \in Threads, NEW m \in Managers,
         Free(t, m), call[t].at \notin {"deliver", "announce"},
         call[t].at \in Busy => call[t].of = m,
         NEW c \in Calls, call' = [call EXCEPT ![t] = c],
         c.at \notin {"deliver", "announce", "conclude"}, c.at \in Busy => c.of = m,
         NEW s \in ManagerStates, state' = [state EXCEPT ![m] = s],
         mutex' = [mutex EXCEPT ![m] = IF c.at \in Busy THEN t ELSE NoThread],
         UNCHANGED <<process, life, told, calls>>, crashed' \in BOOLEAN,
         c.at \in {"start", "locking", "waiting", "ready", "unready"} => c.for = "start",
         c.at = "stop" => c.for = "stop", c.at = "reset" => c.for = "reset",
         c.at \in {"spawn", "refused"} =>
           c.for = "start" /\ s = "Starting" /\ process[m] = NoProcess,
         c.at = "terminate" =>
           /\ process[m] \in Handles /\ c.for # "prepare"
           /\ (c.for = "start" => s = "Failed") /\ (c.for = "stop" => s \in {"Stopping", "Failed"}),
         c.at \notin Busy /\ s \in Resting => process[m] = NoProcess,
         c.at \notin Busy /\ s \in Fragile /\ process[m] \in told => Pending(process[m], m)
  PROVE  ManagersInv'
<1> USE DEF ManagersInv
<1>1. /\ call'[t] = c /\ state'[m] = s
      /\ mutex'[m] = IF c.at \in Busy THEN t ELSE NoThread
      /\ UNCHANGED <<process, life, told>>
  BY DEF TypeOK
<1>2. ThreadInv(t)'
  BY <1>1 DEF ThreadInv, Busy
<1>3. ManagerInv(m)'
  <2>1. ManagerInv(m) /\ \A q, n : Pending(q, n) => Pending(q, n)'
    BY DEF Pending, TypeOK
  <2> QED BY <1>1, <2>1, Typed DEF ManagerInv
<1>4. /\ process' = [process EXCEPT ![m] = process[m]]
      /\ process[m] \in Handles \cup {NoProcess}
      /\ life' \in [Handles -> Lives] /\ told' \subseteq Handles
  BY <1>1, Typed
<1> QED BY <1>1, <1>2, <1>3, <1>4, ThreadStep

\* prepare() of a manager nobody is inside of.
LEMMA PrepareStep ==
  ASSUME ManagersInv, NEW t \in Threads, Prepare(t) PROVE ManagersInv'
<1> USE DEF ManagersInv
<1>1. PICK m \in Managers : m = call[t].of
  BY TypedCall
<1>2. /\ call[t].at = "prepare" /\ Free(t, m) /\ mutex[m] = NoThread
      /\ UNCHANGED <<process, mutex, life, told, calls, crashed>>
  BY <1>1, Typed DEF Prepare, At, Busy
<1>3. PICK s \in ManagerStates :
        /\ state' = [state EXCEPT ![m] = s]
        /\ s = state[m] \/ (state[m] \in Resting /\ s \in {"Preparing", "Failed"})
  BY <1>1, Typed DEF Prepare, ManagerStates, Resting
<1>4. PICK c \in Calls : /\ call' = [call EXCEPT ![t] = c]
                         /\ c.at \in {"idle", "locking"} /\ (c.at = "locking" => c.for = "start")
  <2>1. /\ Idle \in Calls /\ Idle.at = "idle"
        /\ [call[t] EXCEPT !.at = "locking"] \in Calls
        /\ [call[t] EXCEPT !.at = "locking"].at = "locking"
        /\ [call[t] EXCEPT !.at = "locking"].for = call[t].for
    <3>1. "locking" \in Places /\ Idle \in Calls /\ Idle.at = "idle"
      BY DEF Idle, Calls, Places, Unlocked, Managers
    <3> QED BY <3>1, TypedCall, CallGoesOn
  <2>2. \/ call' = [call EXCEPT ![t] = Idle]
        \/ call[t].for = "start" /\ call' = [call EXCEPT ![t] = [call[t] EXCEPT !.at = "locking"]]
    BY DEF Prepare, Goes
  <2> QED BY <2>1, <2>2
<1>5. mutex' = [mutex EXCEPT ![m] = NoThread] /\ crashed' \in BOOLEAN /\ ManagerInv(m)
  BY <1>2, Typed DEF TypeOK
<1> QED BY <1>2, <1>3, <1>4, <1>5, FieldStep DEF Busy, ManagerInv, Resting, Fragile

\* start() takes a prepared manager, and fails to spawn a process.
LEMMA StartSteps ==
  ASSUME ManagersInv, NEW t \in Threads, StartLocked(t) \/ SpawnFails(t) \/ StartupFailed(t)
  PROVE  ManagersInv'
<1> USE DEF ManagersInv
<1>1. PICK m \in Managers : m = call[t].of
  BY TypedCall
<1>2. call[t] \in Calls /\ "spawn" \in Places /\ "refused" \in Places
  BY TypedCall DEF Places
<1>3. UNCHANGED <<process, life, told, calls, crashed>> /\ crashed' \in BOOLEAN
  BY DEF StartLocked, SpawnFails, StartupFailed, object, TypeOK
<1>4. CASE StartLocked(t)
  <2> DEFINE c == [call[t] EXCEPT !.at = "spawn"]
  <2>1. /\ c \in Calls /\ c.at = "spawn" /\ c.of = m /\ c.for = "start"
        /\ call[t].at \in {"start", "locking"}
    BY <1>1, <1>2, <1>4, CallGoesOn DEF StartLocked, At, ThreadInv
  <2>2. call' = [call EXCEPT ![t] = c] /\ mutex' = [mutex EXCEPT ![m] = t]
    BY <1>1, <1>4 DEF StartLocked, Holds, Goes
  <2>3. /\ Free(t, m) /\ mutex[m] = NoThread /\ process[m] = NoProcess
        /\ state' = [state EXCEPT ![m] = "Starting"]
    <3>1. Free(t, m) /\ state[m] = "Preparing" /\ state' = Moved(m, "Starting")
      BY <1>1, <1>4 DEF StartLocked, Startable
    <3>2. mutex[m] = NoThread
      BY <2>1, <3>1, Typed DEF Busy
    <3> QED BY <3>1, <3>2, Edges DEF ManagerInv, Resting, Moved, TypeOK
  <2> HIDE DEF c
  <2> QED BY <1>3, <2>1, <2>2, <2>3, FieldStep DEF Busy, ManagerStates
<1>5. CASE SpawnFails(t)
  <2> DEFINE c == [call[t] EXCEPT !.at = "refused"]
  <2>1. /\ c \in Calls /\ c.at = "refused" /\ c.of = m /\ c.for = "start" /\ call[t].at = "spawn"
        /\ state[m] = "Starting" /\ process[m] = NoProcess
    BY <1>1, <1>2, <1>5, CallGoesOn DEF SpawnFails, At, ThreadInv
  <2>2. call' = [call EXCEPT ![t] = c]
    BY <1>5 DEF SpawnFails, Goes
  <2>3. mutex[m] = t
    BY <1>1, <2>1, Exclusion DEF Busy
  <2>4. /\ Free(t, m) /\ mutex' = [mutex EXCEPT ![m] = t]
        /\ state' = [state EXCEPT ![m] = "Starting"]
    BY <1>5, <2>1, <2>3, Typed DEF SpawnFails, object
  <2> HIDE DEF c
  <2> QED BY <1>1, <1>3, <2>1, <2>2, <2>4, FieldStep DEF Busy, ManagerStates
<1>6. CASE StartupFailed(t)
  <2>1. call[t].at = "refused" /\ Returns(t) /\ state' = Moved(m, "Failed")
        /\ state[m] = "Starting"
    BY <1>1, <1>6 DEF StartupFailed, At, ThreadInv
  <2>2. mutex[m] = t /\ Free(t, m)
    BY <1>1, <2>1, Exclusion, Typed DEF Busy
  <2>3. state' = [state EXCEPT ![m] = "Failed"]
    BY <2>1, Edges DEF Moved
  <2>4. /\ Idle \in Calls /\ Idle.at = "idle" /\ call' = [call EXCEPT ![t] = Idle]
        /\ mutex' = [mutex EXCEPT ![m] = NoThread]
    BY <1>1, <2>1, <2>2, ReturnsFacts
  <2> QED BY <1>1, <1>3, <2>1, <2>2, <2>3, <2>4, FieldStep DEF Busy, ManagerStates, Resting, Fragile
<1> QED BY <1>4, <1>5, <1>6

\* What became of start() in the meantime does not matter to it.
LEMMA ReadyStep ==
  ASSUME ManagersInv, NEW t \in Threads, StartSucceeds(t) PROVE ManagersInv'
<1> USE DEF ManagersInv
<1>1. PICK m \in Managers : m = call[t].of
  BY TypedCall
<1>2. /\ call[t].at = "ready" /\ Free(t, m) /\ Returns(t)
      /\ process' = process /\ life' = life /\ told' = told /\ calls' = calls
      /\ crashed' \in BOOLEAN
  BY <1>1 DEF StartSucceeds, At
<1>3. mutex[m] = NoThread /\ state[m] \in ManagerStates
  BY <1>2, Typed DEF Busy
<1>4. PICK s \in ManagerStates : /\ state' = [state EXCEPT ![m] = s]
                                 /\ s = state[m] \/ (s = "Running" /\ state[m] = "WaitingReady")
  <2> DEFINE to == ManagerMove(m, state[m], "Running")
  <2>1. to \in {state[m], "Running"} /\ (to = "Running" => state[m] \in {"WaitingReady", "Running"})
    BY <1>3, Edges DEF ManagerStates
  <2>2. state' = [state EXCEPT ![m] = to]
    BY <1>1 DEF StartSucceeds, Moved
  <2> HIDE DEF to
  <2> QED BY <1>3, <2>1, <2>2 DEF ManagerStates
<1>5. /\ Idle \in Calls /\ Idle.at = "idle" /\ call' = [call EXCEPT ![t] = Idle]
      /\ mutex' = [mutex EXCEPT ![m] = NoThread]
  BY <1>2, ReturnsFacts DEF Busy
<1>6. /\ s \in Resting => process[m] = NoProcess
      /\ s \in Fragile /\ process[m] \in told => Pending(process[m], m)
  BY <1>3, <1>4 DEF ManagerInv, Resting, Fragile
<1> QED BY <1>2, <1>4, <1>5, <1>6, FieldStep DEF Busy

\* A start() that gives up takes whatever process its manager has by now.
LEMMA UnreadyStep ==
  ASSUME ManagersInv, NEW t \in Threads, StartUnready(t) PROVE ManagersInv'
<1> USE DEF ManagersInv
<1>1. PICK m \in Managers : m = call[t].of
  BY TypedCall
<1>2. /\ call[t].at = "unready" /\ Free(t, m)
      /\ process' = process /\ life' = life /\ told' = told /\ calls' = calls
      /\ crashed' \in BOOLEAN
      /\ call[t].for = "start"
  BY <1>1 DEF StartUnready, At, TypeOK, ThreadInv
<1>3. /\ mutex[m] = NoThread /\ state[m] \in ManagerStates
      /\ process[m] \in Handles \cup {NoProcess} /\ call[t] \in Calls
  BY <1>2, Typed DEF Busy
<1>4. PICK s \in ManagerStates : /\ state' = [state EXCEPT ![m] = s]
                                 /\ s \in {state[m], "Failed"}
                                 /\ state[m] \notin Resting => s = "Failed"
  <2> DEFINE to == ManagerMove(m, state[m], "Failed")
  <2>1. to \in {state[m], "Failed"} /\ (state[m] \notin Resting => to = "Failed")
    BY <1>3, Edges DEF ManagerStates
  <2>2. state' = [state EXCEPT ![m] = to]
    BY <1>1 DEF StartUnready, Moved
  <2> HIDE DEF to
  <2> QED BY <1>3, <2>1, <2>2 DEF ManagerStates
<1>5. CASE process[m] = NoProcess
  <2>1. Returns(t)
    BY <1>1, <1>5 DEF StartUnready
  <2>2. /\ Idle \in Calls /\ Idle.at = "idle" /\ call' = [call EXCEPT ![t] = Idle]
        /\ mutex' = [mutex EXCEPT ![m] = NoThread]
    BY <1>2, <2>1, ReturnsFacts DEF Busy
  <2>3. process[m] \notin told
    BY <1>5, Typed
  <2> QED BY <1>2, <1>4, <1>5, <2>2, <2>3, FieldStep DEF Busy
<1>6. CASE process[m] # NoProcess
  <2> DEFINE c == [call[t] EXCEPT !.at = "terminate"]
  <2>1. /\ c \in Calls /\ c.at = "terminate" /\ c.of = m /\ c.for = "start"
    BY <1>1, <1>2, <1>3, CallGoesOn DEF Places
  <2>2. call' = [call EXCEPT ![t] = c] /\ mutex' = [mutex EXCEPT ![m] = t]
    BY <1>1, <1>6 DEF StartUnready, Holds, Goes
  <2>3. state[m] \notin Resting /\ process[m] \in Handles
    BY <1>3, <1>6 DEF ManagerInv
  <2> HIDE DEF c
  <2> QED BY <1>2, <1>4, <2>1, <2>2, <2>3, FieldStep DEF Busy
<1> QED BY <1>5, <1>6

\* stop() and reset() of a manager without a process.
LEMMA StopNothingStep ==
  ASSUME ManagersInv, NEW t \in Threads, StopNothing(t) PROVE ManagersInv'
<1> USE DEF ManagersInv
<1>1. PICK m \in Managers : m = call[t].of
  BY TypedCall
<1>2. /\ call[t].at \in {"stop", "reset"} /\ Free(t, m) /\ Returns(t)
      /\ process[m] = NoProcess /\ process' = [process EXCEPT ![m] = NoProcess]
      /\ UNCHANGED <<life, told, calls, crashed>> /\ crashed' \in BOOLEAN
  BY <1>1 DEF StopNothing, At, Reusable, TypeOK
<1>3. PICK s \in Resting : state' = [state EXCEPT ![m] = s]
  BY <1>1 DEF StopNothing, Resting
<1>4. /\ Idle \in Calls /\ Idle.at = "idle" /\ call' = [call EXCEPT ![t] = Idle]
      /\ mutex' = [mutex EXCEPT ![m] = NoThread]
  BY <1>2, ReturnsFacts DEF Busy
<1>5. UNCHANGED process /\ s \in ManagerStates /\ s \notin Fragile
  BY <1>2, Typed DEF Resting, Fragile, ManagerStates
<1> QED BY <1>2, <1>3, <1>4, <1>5, FieldStep DEF Busy

\* stop() and reset() of a manager that has one.
LEMMA StopBeginsStep ==
  ASSUME ManagersInv, NEW t \in Threads, StopBegins(t) PROVE ManagersInv'
<1> USE DEF ManagersInv
<1>1. PICK m \in Managers : m = call[t].of
  BY TypedCall
<1>2. /\ call[t].at \in {"stop", "reset"} /\ Free(t, m) /\ Holds(t, "terminate")
      /\ process[m] # NoProcess
      /\ UNCHANGED <<process, life, told, calls, crashed>> /\ crashed' \in BOOLEAN
      /\ call[t].for = call[t].at
  BY <1>1 DEF StopBegins, At, Reusable, TypeOK, ThreadInv
<1>3. /\ mutex[m] = NoThread /\ state[m] \in ManagerStates
      /\ process[m] \in Handles /\ call[t] \in Calls
  BY <1>2, Typed DEF Busy
<1>4. PICK s \in ManagerStates : /\ state' = [state EXCEPT ![m] = s]
                                 /\ call[t].at = "stop" => s \in {"Stopping", "Failed"}
  <2>1. state[m] \notin Resting
    BY <1>2, <1>3 DEF ManagerInv, Handles, NoProcess
  <2>2. CASE call[t].at = "stop"
    BY <1>1, <1>3, <2>1, <2>2, Edges DEF StopBegins, At, Moved, ManagerStates
  <2>3. CASE call[t].at = "reset"
    BY <1>1, <1>3, <2>3, Typed DEF StopBegins, At
  <2> QED BY <1>2, <2>2, <2>3
<1> DEFINE c == [call[t] EXCEPT !.at = "terminate"]
<1>5. /\ c \in Calls /\ c.at = "terminate" /\ c.of = m /\ c.for = call[t].for
  BY <1>1, <1>3, CallGoesOn DEF Places
<1>6. call' = [call EXCEPT ![t] = c] /\ mutex' = [mutex EXCEPT ![m] = t]
  BY <1>1, <1>2 DEF Holds, Goes
<1> HIDE DEF c
<1> QED BY <1>2, <1>3, <1>4, <1>5, <1>6, FieldStep DEF Busy

\* A process is spawned by the thread that has the manager, and is nobody's yet.
LEMMA SpawnStep ==
  ASSUME ManagersInv, NEW t \in Threads, Spawn(t) PROVE ManagersInv'
<1> USE DEF ManagersInv
<1>1. PICK m \in Managers : m = call[t].of
  BY TypedCall
<1>2. PICK p \in Handles :
        /\ life[p] = "unused" /\ life' = [life EXCEPT ![p] = "alive"]
        /\ call' = [call EXCEPT ![t].at = "announce", ![t].on = p]
        /\ call[t].at = "spawn"
        /\ state' = state /\ process' = process /\ mutex' = mutex /\ told' = told
        /\ calls' = calls /\ crashed' = crashed
  BY DEF Spawn, At, object
<1>3. /\ mutex[m] = t /\ Free(t, m) /\ call[t] \in Calls /\ life \in [Handles -> Lives]
      /\ told \subseteq Handles /\ state[m] = "Starting" /\ process[m] = NoProcess
      /\ call[t].for = "start" /\ crashed' \in BOOLEAN
  BY <1>1, <1>2, Exclusion, Typed DEF Busy, ThreadInv, TypeOK
<1> DEFINE c == [call[t] EXCEPT !.at = "announce", !.on = p]
<1>4. /\ c \in Calls /\ c.at = "announce" /\ c.on = p /\ c.of = m /\ c.for = "start"
      /\ call' = [call EXCEPT ![t] = c]
  BY <1>1, <1>2, <1>3 DEF Calls, Places
<1> HIDE DEF c
<1>5. /\ call'[t] = c /\ mutex'[m] = t /\ state'[m] = "Starting" /\ process'[m] = NoProcess
      /\ life'[p] = "alive"
  BY <1>2, <1>3, <1>4 DEF TypeOK
<1>6. \A n, q : Pending(q, n) => Pending(q, n)'
  BY <1>2, <1>4 DEF Pending, TypeOK
<1>7. /\ \A n \in Managers : process[n] # p
      /\ p \in told => Pending(p, m)
  <2>1. \A n \in Managers : process[n] # p
    BY <1>2 DEF ManagerInv
  <2>2. p \notin told
    BY <1>2 DEF ToldAreUsed
  <2> QED BY <2>1, <2>2
<1>8. ThreadInv(t)'
  BY <1>2, <1>4, <1>5, <1>6, <1>7 DEF ThreadInv, Announced
<1>9. ManagerInv(m)'
  BY <1>3, <1>5, ManagersAssumption DEF ManagerInv, Handles, NoProcess
<1>10. PICK s \in ManagerStates : s = "Starting"
  BY DEF ManagerStates
<1>11. PICK r \in Handles \cup {NoProcess} : r = NoProcess
  OBVIOUS
<1>12. /\ state' = [state EXCEPT ![m] = s] /\ process' = [process EXCEPT ![m] = r]
  BY <1>2, <1>3, <1>10, <1>11, Typed
<1>13. mutex' = [mutex EXCEPT ![m] = IF c.at \in Busy THEN t ELSE NoThread]
  BY <1>2, <1>3, <1>4, Typed DEF Busy
<1>14. /\ life' \in [Handles -> Lives] /\ told' \subseteq Handles
       /\ \A q \in Handles : \/ life'[q] = life[q]
                             \/ q = process[m] /\ life'[q] = Ended(q)
                             \/ /\ life[q] = "unused" /\ life'[q] = "alive"
                                /\ c.at = "announce" /\ c.on = q
       /\ told \subseteq told' /\ told' \subseteq told \cup {process[m]}
  BY <1>2, <1>3, <1>4 DEF Lives
<1>15. /\ c.at # "deliver" /\ (c.at \in Busy => c.of = m)
       /\ call[t].at # "deliver" /\ (call[t].at \in Busy => call[t].of = m)
       /\ call[t].at # "announce"
       /\ (c.at = "announce" => life[c.on] = "unused" /\ r = NoProcess /\ c.on \in Handles)
       /\ r \in {process[m], NoProcess}
       /\ (process[m] \in Handles /\ r # process[m] => life'[process[m]] \notin Living)
  BY <1>1, <1>2, <1>3, <1>4, <1>11
<1>16. calls' = calls /\ crashed' \in BOOLEAN /\ Free(t, m) /\ call' = [call EXCEPT ![t] = c] /\ c \in Calls
  BY <1>2, <1>3, <1>4
<1> HIDE DEF ManagersInv
<1> QED
  BY <1>8, <1>9, <1>12, <1>13, <1>14, <1>15, <1>16, ThreadStep

\* start() takes the process it spawned and lets the mutex go for the wait.
LEMMA StartedStep ==
  ASSUME ManagersInv, NEW t \in Threads, Started(t) PROVE ManagersInv'
<1> USE DEF ManagersInv
<1>1. PICK m \in Managers : m = call[t].of
  BY TypedCall
<1>2. PICK r \in Handles \cup {NoProcess} : r = call[t].on
  BY TypedCall DEF Calls
<1>3. /\ call[t].at = "announce" /\ process' = [process EXCEPT ![m] = r]
      /\ mutex' = [mutex EXCEPT ![m] = NoThread]
      /\ life' = life /\ told' = told /\ calls' = calls /\ crashed' = crashed
  BY <1>1, <1>2 DEF Started, At, Inside
<1>4. /\ mutex[m] = t /\ Free(t, m) /\ call[t] \in Calls /\ life \in [Handles -> Lives]
      /\ told \subseteq Handles /\ crashed' \in BOOLEAN /\ NoProcess \notin Handles
  BY <1>1, <1>3, Exclusion, Typed DEF Busy, TypeOK
<1>5. /\ state[m] = "Starting" /\ process[m] = NoProcess /\ call[t].for = "start"
      /\ r \in Handles /\ life[r] # "unused" /\ (r \in told => Pending(r, m))
  BY <1>1, <1>2, <1>3 DEF ThreadInv, Announced
<1>6. PICK s \in ManagerStates : s = "WaitingReady"
  BY DEF ManagerStates
<1>7. state' = [state EXCEPT ![m] = s]
  <2>1. state' = [state EXCEPT ![m] = ManagerMove(m, state[m], "WaitingReady")]
    BY <1>1 DEF Started, Moved
  <2>2. ManagerMove(m, state[m], "WaitingReady") = s
    BY <1>5, <1>6, Edges
  <2> QED BY <2>1, <2>2
<1> DEFINE c == [call[t] EXCEPT !.at = "waiting"]
<1>8. /\ c \in Calls /\ c.at = "waiting" /\ c.of = m /\ c.for = "start" /\ c.on = r
  BY <1>1, <1>2, <1>4, <1>5, CallGoesOn DEF Places, Unlocked
<1>9. call' = [call EXCEPT ![t] = c]
  BY DEF Started, Goes
<1> HIDE DEF c
<1>10. /\ call'[t] = c /\ mutex'[m] = NoThread /\ state'[m] = s /\ process'[m] = r
  BY <1>3, <1>7, <1>9 DEF TypeOK
<1>11. Pending(r, m) => Pending(r, m)'
  BY <1>3, <1>9 DEF Pending, TypeOK
<1>12. ThreadInv(t)'
  BY <1>8, <1>10 DEF ThreadInv
<1>13. ManagerInv(m)'
  BY <1>3, <1>5, <1>6, <1>10, <1>11 DEF ManagerInv, Resting
<1>14. mutex' = [mutex EXCEPT ![m] = IF c.at \in Busy THEN t ELSE NoThread]
  BY <1>3, <1>8 DEF Busy
<1>15. /\ c.at # "deliver" /\ (c.at \in Busy => c.of = m)
       /\ call[t].at # "deliver" /\ (call[t].at \in Busy => call[t].of = m)
       /\ c.at # "announce"
       /\ (r \in {process[m], NoProcess} \/ call[t].at = "announce")
       /\ (call[t].at = "announce" => r = call[t].on)
       /\ ~(process[m] \in Handles)
  BY <1>1, <1>2, <1>3, <1>4, <1>5, <1>8
<1>16. /\ life' \in [Handles -> Lives] /\ told' \subseteq Handles
       /\ \A q \in Handles : life'[q] = life[q]
       /\ told \subseteq told' /\ told' \subseteq told \cup {process[m]}
  BY <1>3, <1>4
<1>17. calls' = calls /\ c \in Calls
  BY <1>3, <1>8
<1> HIDE DEF ManagersInv
<1> QED
  BY <1>3, <1>4, <1>7, <1>9, <1>12, <1>13, <1>14, <1>15, <1>16, <1>17, ThreadStep

\* Process::stop of the manager's process.
LEMMA TerminateStep ==
  ASSUME ManagersInv, NEW t \in Threads, Terminate(t) PROVE ManagersInv'
<1> USE DEF ManagersInv
<1>1. PICK m \in Managers : m = call[t].of
  BY TypedCall
<1>2. PICK r \in Handles \cup {NoProcess} : r = process[m]
  BY Typed
<1>3. /\ call[t].at = "terminate" /\ life' = [life EXCEPT ![r] = Ended(r)]
      /\ state' = state /\ process' = process /\ mutex' = mutex
      /\ told' = told /\ calls' = calls /\ crashed' = crashed
  BY <1>1, <1>2 DEF Terminate, At, object
<1>4. /\ mutex[m] = t /\ Free(t, m) /\ call[t] \in Calls /\ life \in [Handles -> Lives]
      /\ told \subseteq Handles /\ crashed' \in BOOLEAN
      /\ process = [process EXCEPT ![m] = process[m]] /\ mutex = [mutex EXCEPT ![m] = mutex[m]]
      /\ state = [state EXCEPT ![m] = state[m]]
  BY <1>1, <1>3, Exclusion, Typed DEF Busy, TypeOK
<1>5. /\ r \in Handles /\ life[r] # "unused"
      /\ call[t].for = "start" => state[m] = "Failed"
      /\ call[t].for = "stop" => state[m] \in {"Stopping", "Failed"}
      /\ call[t].for # "prepare"
  BY <1>1, <1>2, <1>3 DEF ThreadInv, ManagerInv
<1>6. PICK s \in ManagerStates : s = state[m]
  BY Typed
<1>7. state' = [state EXCEPT ![m] = s] /\ process' = [process EXCEPT ![m] = r]
  BY <1>2, <1>3, <1>4, <1>6
<1> DEFINE c == [call[t] EXCEPT !.at = "conclude"]
<1>8. /\ c \in Calls /\ c.at = "conclude" /\ c.of = m /\ c.for = call[t].for
  BY <1>1, <1>4, CallGoesOn DEF Places
<1>9. call' = [call EXCEPT ![t] = c]
  BY DEF Terminate, Goes
<1> HIDE DEF c
<1>10. /\ call'[t] = c /\ mutex'[m] = t /\ state'[m] = s /\ process'[m] = r
       /\ Ended(r) = "exited" /\ life'[r] = "exited"
  BY <1>2, <1>3, <1>4, <1>5, <1>6, <1>9 DEF TypeOK, Ended, Lives
<1>11. ThreadInv(t)'
  BY <1>5, <1>6, <1>8, <1>10 DEF ThreadInv
<1>12. ManagerInv(m)'
  BY <1>10, ManagersAssumption DEF ManagerInv
<1>13. mutex' = [mutex EXCEPT ![m] = IF c.at \in Busy THEN t ELSE NoThread]
  BY <1>3, <1>4, <1>8 DEF Busy
<1>14. /\ c.at # "deliver" /\ (c.at \in Busy => c.of = m)
       /\ call[t].at # "deliver" /\ (call[t].at \in Busy => call[t].of = m)
       /\ c.at # "announce" /\ call[t].at # "announce" /\ r = process[m]
  BY <1>1, <1>2, <1>3, <1>8
<1>15. /\ life' \in [Handles -> Lives] /\ told' \subseteq Handles
       /\ \A q \in Handles : \/ life'[q] = life[q]
                             \/ q = process[m] /\ life'[q] = Ended(q)
       /\ told \subseteq told' /\ told' \subseteq told \cup {process[m]}
  BY <1>2, <1>3, <1>4, <1>10 DEF Lives
<1>16. calls' = calls /\ c \in Calls
  BY <1>3, <1>8
<1> HIDE DEF ManagersInv
<1> QED
  BY <1>4, <1>7, <1>9, <1>11, <1>12, <1>13, <1>14, <1>15, <1>16, ThreadStep

\* The end of stop() and reset(), and of a start() that was not ready.
LEMMA ConcludeStep ==
  ASSUME ManagersInv, NEW t \in Threads, Conclude(t) PROVE ManagersInv'
<1> USE DEF ManagersInv
<1>1. PICK m \in Managers : m = call[t].of
  BY TypedCall
<1>2. /\ call[t].at = "conclude" /\ told' = told \cup {process[m]} /\ Returns(t)
      /\ life' = life /\ calls' = calls /\ crashed' = crashed
      /\ process' = IF call[t].for = "start" THEN process ELSE [process EXCEPT ![m] = NoProcess]
      /\ state' = CASE call[t].for = "start" -> state
                    [] call[t].for = "stop"  -> Moved(m, "Stopped")
                    [] OTHER                 -> [state EXCEPT ![m] = "Created"]
  BY <1>1 DEF Conclude, At
<1>3. /\ mutex[m] = t /\ Free(t, m) /\ life \in [Handles -> Lives]
      /\ told \subseteq Handles /\ crashed' \in BOOLEAN
      /\ state = [state EXCEPT ![m] = state[m]] /\ process = [process EXCEPT ![m] = process[m]]
      /\ NoProcess \notin Handles
  BY <1>1, <1>2, Exclusion, Typed DEF Busy, TypeOK
<1>4. /\ process[m] \in Handles /\ life[process[m]] = "exited"
      /\ call[t].for = "start" => state[m] = "Failed"
      /\ call[t].for = "stop" => state[m] \in {"Stopping", "Failed"}
      /\ call[t].for # "prepare"
  BY <1>1, <1>2 DEF ThreadInv
<1>5. PICK s \in ManagerStates :
        state' = [state EXCEPT ![m] = s] /\ s \notin Fragile
        /\ (call[t].for = "start" => s = "Failed")
  <2>1. CASE call[t].for = "start"
    BY <1>2, <1>3, <1>4, <2>1 DEF ManagerStates, Fragile
  <2>2. CASE call[t].for = "stop"
    <3>1. state' = [state EXCEPT ![m] = ManagerMove(m, state[m], "Stopped")]
      BY <1>2, <2>2 DEF Moved
    <3>2. ManagerMove(m, state[m], "Stopped") = "Stopped"
      BY <1>4, <2>2, Edges
    <3> QED BY <2>2, <3>1, <3>2 DEF ManagerStates, Fragile
  <2>3. CASE call[t].for \notin {"start", "stop"}
    BY <1>2, <2>3 DEF ManagerStates, Fragile
  <2> QED BY <2>1, <2>2, <2>3
<1>6. PICK r \in Handles \cup {NoProcess} :
        /\ process' = [process EXCEPT ![m] = r]
        /\ r = IF call[t].for = "start" THEN process[m] ELSE NoProcess
  BY <1>2, <1>3, <1>4
<1>7. PICK c \in Calls : c = Idle
  BY <1>1, <1>2, <1>3, ReturnsFacts
<1>8. /\ c.at = "idle" /\ call' = [call EXCEPT ![t] = c]
      /\ mutex' = [mutex EXCEPT ![m] = NoThread]
  BY <1>1, <1>2, <1>3, <1>7, ReturnsFacts
<1>9. /\ call'[t] = c /\ mutex'[m] = NoThread /\ state'[m] = s /\ process'[m] = r
  BY <1>5, <1>6, <1>8 DEF TypeOK
<1>10. ThreadInv(t)'
  BY <1>8, <1>9 DEF ThreadInv
<1>11. ManagerInv(m)'
  BY <1>2, <1>3, <1>4, <1>5, <1>6, <1>9 DEF ManagerInv, Resting
<1>12. mutex' = [mutex EXCEPT ![m] = IF c.at \in Busy THEN t ELSE NoThread]
  BY <1>8 DEF Busy
<1>13. /\ c.at # "deliver" /\ (c.at \in Busy => c.of = m)
       /\ call[t].at # "deliver" /\ (call[t].at \in Busy => call[t].of = m)
       /\ c.at # "announce" /\ call[t].at # "announce" /\ r \in {process[m], NoProcess}
       /\ (process[m] \in Handles /\ r # process[m] => life'[process[m]] \notin Living)
  BY <1>1, <1>2, <1>4, <1>6, <1>8 DEF Busy, Living
<1>14. /\ life' \in [Handles -> Lives] /\ told' \subseteq Handles
       /\ \A q \in Handles : life'[q] = life[q]
       /\ told \subseteq told' /\ told' \subseteq told \cup {process[m]}
  BY <1>2, <1>3, <1>4
<1> HIDE DEF ManagersInv
<1> QED
  BY <1>2, <1>3, <1>5, <1>6, <1>8, <1>10, <1>11, <1>12, <1>13, <1>14, ThreadStep

\* Steps that touch no manager.
LEMMA CallStep ==
  ASSUME ManagersInv, NEW t \in Threads, NEW n \in Managers,
         NEW op \in {"start", "stop", "reset", "prepare"}, Call(t, n, op)
  PROVE  ManagersInv'
<1> USE DEF ManagersInv
<1> DEFINE c == [Idle EXCEPT !.at = op, !.of = n, !.for = op]
<1>1. /\ c \in Calls /\ c.at = op /\ c.for = op
  BY DEF Calls, Places, Unlocked, Idle
<1>2. /\ call' = [call EXCEPT ![t] = c] /\ call[t].at = "idle"
      /\ UNCHANGED <<object, life, told, crashed>> /\ calls' \in Nat
  BY DEF Call, At, TypeOK
<1> HIDE DEF c
<1> QED BY <1>1, <1>2, QuietStep DEF Busy

LEMMA StartFreshStep ==
  ASSUME ManagersInv, NEW t \in Threads, StartFresh(t) PROVE ManagersInv'
<1> USE DEF ManagersInv
<1> DEFINE c == [call[t] EXCEPT !.at = "prepare"]
<1>1. call[t].at = "start" /\ call[t] \in Calls
  BY TypedCall DEF StartFresh, At
<1>2. c \in Calls /\ c.at = "prepare"
  BY <1>1, CallGoesOn DEF Places, Unlocked
<1>3. /\ call' = [call EXCEPT ![t] = c]
      /\ UNCHANGED <<object, life, told, crashed>> /\ calls' \in Nat
  BY DEF StartFresh, Goes, TypeOK
<1> HIDE DEF c
<1> QED BY <1>1, <1>2, <1>3, QuietStep DEF Busy

LEMMA ReadinessStep ==
  ASSUME ManagersInv, NEW t \in Threads, ReadinessAnswers(t) PROVE ManagersInv'
<1> USE DEF ManagersInv
<1>1. PICK place \in {"ready", "unready"} : call' = [call EXCEPT ![t].at = place]
  BY DEF ReadinessAnswers, Goes
<1> DEFINE c == [call[t] EXCEPT !.at = place]
<1>2. /\ call[t].at = "waiting" /\ call[t] \in Calls /\ call[t].for = "start"
  BY TypedCall DEF ReadinessAnswers, At, ThreadInv
<1>3. c \in Calls /\ c.at = place /\ c.for = "start"
  BY <1>1, <1>2, CallGoesOn DEF Places, Unlocked
<1>4. /\ call' = [call EXCEPT ![t] = c]
      /\ UNCHANGED <<object, life, told, crashed>> /\ calls' \in Nat
  BY <1>1 DEF ReadinessAnswers, TypeOK
<1> HIDE DEF c
<1> QED BY <1>1, <1>2, <1>3, <1>4, QuietStep DEF Busy

\* start() and stop() in a state that does not admit them.
LEMMA RefusedStep ==
  ASSUME ManagersInv, NEW t \in Threads, StartRefused(t) \/ StopRefused(t)
  PROVE  ManagersInv'
<1> USE DEF ManagersInv
<1>1. PICK m \in Managers : m = call[t].of
  BY TypedCall
<1>2. /\ call[t].at \in {"start", "locking", "stop"} /\ Free(t, m) /\ Returns(t)
      /\ UNCHANGED <<state, process, life, told, calls, crashed>>
  BY <1>1 DEF StartRefused, StopRefused, At
<1>3. /\ Idle \in Calls /\ Idle.at = "idle" /\ call' = [call EXCEPT ![t] = Idle]
      /\ mutex' = [mutex EXCEPT ![m] = NoThread]
  BY <1>2, ReturnsFacts DEF Busy
<1>4. mutex' = mutex /\ calls' \in Nat
  BY <1>2, <1>3, Typed DEF Busy, TypeOK
<1> QED BY <1>2, <1>3, <1>4, QuietStep DEF Busy, object

-----------------------------------------------------------------------------
LEMMA ManagersInvInit == Init => ManagersInv
<1> SUFFICES ASSUME Init PROVE ManagersInv
  OBVIOUS
<1>1. /\ \A t \in Threads : call[t] = Idle
      /\ \A m \in Managers : state[m] = "Created" /\ process[m] = NoProcess /\ mutex[m] = NoThread
      /\ \A p \in Handles : life[p] = "unused"
      /\ told = {} /\ NoProcess \notin Handles /\ NoThread \notin Threads
  BY ManagersAssumption DEF Init, Handles, NoProcess
<1>2. TypeOK
  BY <1>1 DEF Init, TypeOK, Calls, Idle, Places, Unlocked, Managers, ManagerStates, Holder
<1>3. ASSUME NEW t \in Threads PROVE ThreadInv(t)
  BY <1>1, <1>3 DEF ThreadInv, Idle
<1>4. ASSUME NEW m \in Managers PROVE ManagerInv(m)
  BY <1>1, <1>4 DEF ManagerInv, Fragile
<1>5. AnnouncedOnce /\ OwnedOnce /\ ToldAreUsed /\ ChildIsHeld
  BY <1>1 DEF AnnouncedOnce, OwnedOnce, ToldAreUsed, ChildIsHeld, Idle
<1> QED BY <1>2, <1>3, <1>4, <1>5 DEF ManagersInv

LEMMA ManagersInvNext == ManagersInv /\ [Next]_vars => ManagersInv'
<1> SUFFICES ASSUME ManagersInv, [Next]_vars PROVE ManagersInv'
  OBVIOUS
<1>1. ASSUME NEW t \in Threads, Step(t) PROVE ManagersInv'
  BY <1>1, PrepareStep, StartFreshStep, RefusedStep, StartSteps, SpawnStep, StartedStep,
     ReadinessStep, ReadyStep, UnreadyStep, StopNothingStep, StopBeginsStep,
     TerminateStep, ConcludeStep, DeliverStep DEF Step
<1>2. ASSUME NEW t \in Threads, Notice(t) PROVE ManagersInv'
  BY <1>2, NoticeStep
<1>3. ASSUME NEW t \in Threads, NEW m \in Managers,
             NEW op \in {"start", "stop", "reset", "prepare"}, Call(t, m, op)
      PROVE  ManagersInv'
  BY <1>3, CallStep
<1>4. ASSUME NEW p \in Handles, Exit(p) PROVE ManagersInv'
  BY <1>4, ExitStep
<1>5. CASE UNCHANGED vars
  BY <1>5 DEF vars, object, ManagersInv, TypeOK, ThreadInv, ManagerInv, AnnouncedOnce, OwnedOnce,
              ToldAreUsed, ChildIsHeld, Announced, Pending, Holder
<1> QED BY <1>1, <1>2, <1>3, <1>4, <1>5 DEF Next

-----------------------------------------------------------------------------
\* Every call of the two managers keeps the invariant, whatever the threads do.
THEOREM ManagersSafe == Spec => []ManagersInv
  BY ManagersInvInit, ManagersInvNext, PTL DEF Spec

\* The places of start(), stop() and reset() inside the mutex are those of the
\* one thread that holds it.
THEOREM ManagersTyped == Spec => []TypeOK
<1>1. ManagersInv => TypeOK
  BY DEF ManagersInv
<1> QED BY <1>1, ManagersSafe, PTL

\* No child of a manager escapes it: weston_manager.cpp and ldde_manager.cpp
\* hold whatever runs, or are about to.
THEOREM ChildrenHeld == Spec => []ChildIsHeld
<1>1. ManagersInv => ChildIsHeld
  BY DEF ManagersInv
<1> QED BY <1>1, ManagersSafe, PTL

\* A manager that was stopped or reset while start() waited stays without a child.
THEOREM RestingManagersEmpty == Spec => []RestingIsEmpty
<1>1. ManagersInv => RestingIsEmpty
  BY DEF ManagersInv, ManagerInv, RestingIsEmpty, Resting
<1> QED BY <1>1, ManagersSafe, PTL

\* An exit that all listeners had left no manager claiming to run.
THEOREM ExitsNoticed == Spec => []ExitIsNoticed
<1>1. ManagersInv => ExitIsNoticed
  BY DEF ManagersInv, ManagerInv, ExitIsNoticed, Fragile, Pending
<1> QED BY <1>1, ManagersSafe, PTL
-----------------------------------------------------------------------------
(* Whether calls return.  A thread that is not at "spawn", "waiting" or    *)
(* between two calls may have to wait for a mutex of another.              *)

\* The threads that reap are in no call of a manager.
ReapersReap == \A t \in Reapers : call[t].at \in {"idle", "deliver"}

LEMMA ReapersStep == ASSUME TypeOK, ReapersReap, [Next]_vars PROVE ReapersReap'
<1> SUFFICES ASSUME NEW r \in Reapers PROVE call'[r].at \in {"idle", "deliver"}
  BY DEF ReapersReap
<1>1. call \in [Threads -> Calls] /\ r \in Threads /\ r \notin Drivers
      /\ call[r].at \in {"idle", "deliver"}
  BY ManagersAssumption DEF TypeOK, Threads, ReapersReap
<1>2. ASSUME NEW t \in Threads, NEW m \in Managers,
             NEW op \in {"start", "stop", "reset", "prepare"}, Call(t, m, op)
      PROVE  call'[r] = call[r]
  BY <1>1, <1>2 DEF Call
<1>3. ASSUME NEW t \in Threads, Notice(t) PROVE call'[r].at \in {"idle", "deliver"}
  BY <1>1, <1>3 DEF Notice
<1>4. ASSUME NEW t \in Threads, t # r, Step(t) PROVE call'[r] = call[r]
  BY <1>1, <1>4 DEF Step, Prepare, StartFresh, StartRefused, StartLocked, Spawn, SpawnFails,
     StartupFailed, Started, ReadinessAnswers, StartSucceeds, StartUnready, StopRefused,
     StopNothing, StopBegins, Terminate, Conclude, Deliver, Goes, Holds, Returns
<1>5. ASSUME Step(r) PROVE call'[r].at \in {"idle", "deliver"}
  <2>1. PICK m \in Managers : Deliver(r, m)
    BY <1>1, <1>5 DEF Step, Prepare, StartFresh, StartRefused, StartLocked, Spawn, SpawnFails,
       StartupFailed, Started, ReadinessAnswers, StartSucceeds, StartUnready, StopRefused,
       StopNothing, StopBegins, Terminate, Conclude, At
  <2> QED BY <1>1, <2>1 DEF Deliver, At, Idle, Calls
<1>6. CASE (\E p \in Handles : Exit(p)) \/ UNCHANGED vars
  BY <1>1, <1>6 DEF Exit, vars
<1> QED BY <1>1, <1>2, <1>3, <1>4, <1>5, <1>6 DEF Next

\* Where one thread drives both managers, as the daemon's main thread does, the
\* two mutexes are never waited for in a cycle: the listeners of a manager may
\* take the mutex of the other one while it is inside its own.
THEOREM OneDriverNeverEmbraced ==
  ASSUME \A t, u \in Drivers : t = u
  PROVE  Spec => []NeverEmbraced
<1>1. Init => ReapersReap
  BY DEF Init, ReapersReap, Idle, Threads
<1>2. ManagersInv /\ ReapersReap /\ [Next]_vars => ReapersReap'
  BY ReapersStep DEF ManagersInv
<1>3. ManagersInv /\ ReapersReap => NeverEmbraced
  <2> SUFFICES ASSUME ManagersInv, ReapersReap, NEW t \in Threads, NEW u \in Threads,
                      mutex["weston"] = t, mutex["ldde"] = u
               PROVE  FALSE
    BY DEF NeverEmbraced, Embraced, Holder
  <2>1. /\ call[t].of = "weston" /\ call[t].at \in Busy
        /\ call[u].of = "ldde" /\ call[u].at \in Busy
    BY Exclusion DEF ManagersInv, Managers
  <2>2. t \in Drivers /\ u \in Drivers
    BY <2>1 DEF ReapersReap, Threads, Busy
  <2> QED BY <2>1, <2>2
<1> QED BY <1>1, <1>2, <1>3, ManagersSafe, PTL DEF Spec

-----------------------------------------------------------------------------
\* The guards of Step: what a thread inside a call waits for.
Ready(t) ==
  \/ call[t].at \in {"spawn", "waiting"}
  \/ call[t].at \in {"announce", "refused", "terminate", "conclude"} /\ Heard(t)
  \/ call[t].at \in {"start", "prepare", "locking", "ready", "unready", "stop", "reset"}
     /\ Free(t, call[t].of)
  \/ call[t].at = "deliver"
     /\ \E m \in call[t].to : Free(t, m) /\ ("weston" \in call[t].to => m = "weston")

SomeoneGoesOn ==
  ~crashed /\ ~Embraced /\ (\E t \in Threads : call[t].at # "idle") => \E t \in Threads : Ready(t)

\* A reaper has a listener left to call, or is done.
Delivering == \A t \in Threads : call[t].at = "deliver" => call[t].to # {}

\* Steps of its own a call may still take.
Ahead(c) ==
  CASE c.at = "start"                                    -> 9
    [] c.at = "prepare"                                  -> 8
    [] c.at = "locking"                                  -> 7
    [] c.at = "spawn"                                    -> 6
    [] c.at \in {"announce", "refused"}                  -> 5
    [] c.at = "waiting"                                  -> 4
    [] c.at \in {"ready", "unready", "stop", "reset"}    -> 3
    [] c.at = "terminate"                                -> 2
    [] c.at = "conclude"                                 -> 1
    [] c.at = "deliver"                                  -> IF c.to = Managers THEN 2 ELSE 1
    [] OTHER                                             -> 0

CallsAdvance ==
  \A t \in Threads :
    \/ call[t].at = "idle" \/ call'[t] = call[t]
    \/ Ahead(call'[t]) < Ahead(call[t])

\* Ahead, place by place.
LEMMA AheadOf ==
  ASSUME NEW c
  PROVE  /\ c.at = "start" => Ahead(c) = 9
         /\ c.at = "prepare" => Ahead(c) = 8
         /\ c.at = "locking" => Ahead(c) = 7
         /\ c.at = "spawn" => Ahead(c) = 6
         /\ c.at \in {"announce", "refused"} => Ahead(c) = 5
         /\ c.at = "waiting" => Ahead(c) = 4
         /\ c.at \in {"ready", "unready", "stop", "reset"} => Ahead(c) = 3
         /\ c.at = "terminate" => Ahead(c) = 2
         /\ c.at = "conclude" => Ahead(c) = 1
         /\ c.at = "deliver" => Ahead(c) = IF c.to = Managers THEN 2 ELSE 1
         /\ c.at = "idle" => Ahead(c) = 0
  BY DEF Ahead

\* Where a step of a thread may take its call.
Nearer(c, d) == Ahead(d) < Ahead(c) /\ (d.at = "deliver" => d.to # {})

LEMMA OwnStepAdvances ==
  ASSUME TypeOK, NEW t \in Threads, Step(t)
  PROVE  \E d : call' = [call EXCEPT ![t] = d] /\ Nearer(call[t], d)
<1>1. call \in [Threads -> Calls] /\ Idle.at = "idle" /\ Ahead(Idle) = 0
  BY AheadOf DEF TypeOK, Idle
<1>2. ASSUME NEW place \in {"prepare", "locking", "spawn", "announce", "refused", "waiting",
                            "ready", "unready", "terminate", "conclude"},
             NEW d, d.at = place, call' = [call EXCEPT ![t] = d],
             \/ place = "prepare" /\ call[t].at = "start"
             \/ place = "locking" /\ call[t].at = "prepare"
             \/ place = "spawn" /\ call[t].at \in {"start", "locking"}
             \/ place \in {"announce", "refused"} /\ call[t].at = "spawn"
             \/ place = "waiting" /\ call[t].at = "announce"
             \/ place \in {"ready", "unready"} /\ call[t].at = "waiting"
             \/ place = "terminate" /\ call[t].at \in {"unready", "stop", "reset"}
             \/ place = "conclude" /\ call[t].at = "terminate"
      PROVE  Nearer(call[t], d)
  BY <1>2, AheadOf DEF Nearer
<1>3. ASSUME NEW place \in Places, Goes(t, place)
      PROVE  \E d : d.at = place /\ call' = [call EXCEPT ![t] = d]
  <2>1. [call[t] EXCEPT !.at = place].at = place
    BY <1>1 DEF Calls
  <2>2. call' = [call EXCEPT ![t] = [call[t] EXCEPT !.at = place]]
    BY <1>1, <1>3 DEF Goes
  <2> QED BY <2>1, <2>2
<1>4. call[t].at \in {"prepare", "start", "locking", "refused", "ready", "unready",
                        "stop", "reset", "conclude", "deliver"} => Nearer(call[t], Idle)
  <2>1. call[t].at \in {"prepare", "start", "locking", "refused", "ready", "unready",
                        "stop", "reset", "conclude", "deliver"} =>
          Ahead(call[t]) \in 1..9
    BY AheadOf
  <2> QED BY <1>1, <2>1 DEF Nearer
<1>5. CASE /\ call' = [call EXCEPT ![t] = Idle]
           /\ call[t].at \in {"prepare", "start", "locking", "refused", "ready", "unready",
                              "stop", "reset", "conclude"}
  BY <1>5, <1>4
<1>6. CASE Prepare(t)
  <2>1. CASE Goes(t, "locking")
    BY <1>2, <1>3, <1>6, <2>1 DEF Prepare, At, Places, Unlocked
  <2> QED BY <1>5, <1>6, <2>1 DEF Prepare, At
<1>7. CASE StartFresh(t)
  BY <1>2, <1>3, <1>7 DEF StartFresh, At, Places, Unlocked
<1>8. CASE StartLocked(t)
  BY <1>2, <1>3, <1>8 DEF StartLocked, Holds, At, Places
<1>9. CASE Spawn(t)
  <2>1. PICK p \in Handles : call' = [call EXCEPT ![t].at = "announce", ![t].on = p]
    BY <1>9 DEF Spawn
  <2>2. PICK d : d = [call[t] EXCEPT !.at = "announce", !.on = p]
    OBVIOUS
  <2>3. d.at = "announce" /\ call' = [call EXCEPT ![t] = d]
    BY <1>1, <2>1, <2>2 DEF Calls
  <2> QED BY <1>2, <1>9, <2>3 DEF Spawn, At
<1>10. CASE SpawnFails(t)
  BY <1>2, <1>3, <1>10 DEF SpawnFails, At, Places
<1>11. CASE Started(t)
  BY <1>2, <1>3, <1>11 DEF Started, At, Places, Unlocked
<1>12. CASE ReadinessAnswers(t)
  BY <1>2, <1>3, <1>12 DEF ReadinessAnswers, At, Places, Unlocked
<1>13. CASE StartUnready(t)
  <2>1. CASE Goes(t, "terminate")
    BY <1>2, <1>3, <1>13, <2>1 DEF StartUnready, At, Places
  <2> QED BY <1>5, <1>13, <2>1 DEF StartUnready, Holds, Returns, At
<1>14. CASE StopBegins(t)
  BY <1>2, <1>3, <1>14 DEF StopBegins, Holds, At, Places
<1>15. CASE Terminate(t)
  BY <1>2, <1>3, <1>15 DEF Terminate, At, Places
<1>16. CASE StartRefused(t) \/ StartupFailed(t) \/ StartSucceeds(t) \/ StopRefused(t)
            \/ StopNothing(t) \/ Conclude(t)
  BY <1>5, <1>16 DEF StartRefused, StartupFailed, StartSucceeds, StopRefused, StopNothing,
     Conclude, Returns, At
<1>17. ASSUME NEW m \in Managers, Deliver(t, m)
       PROVE  \E d : call' = [call EXCEPT ![t] = d] /\ Nearer(call[t], d)
  <2>1. call[t].at = "deliver" /\ m \in call[t].to /\ call[t].to \subseteq Managers
    BY <1>1, <1>17 DEF Deliver, At, Calls
  <2>2. PICK d : d = IF call[t].to \ {m} = {} THEN Idle ELSE [call[t] EXCEPT !.to = call[t].to \ {m}]
    OBVIOUS
  <2>3. call' = [call EXCEPT ![t] = d]
    BY <1>17, <2>2 DEF Deliver
  <2>4. CASE call[t].to \ {m} = {}
    BY <1>4, <2>1, <2>2, <2>3, <2>4
  <2>5. CASE call[t].to \ {m} # {}
    <3>1. d.at = "deliver" /\ d.to = call[t].to \ {m} /\ call[t].to = Managers /\ d.to # Managers
      BY <1>1, <2>1, <2>2, <2>5 DEF Calls, Managers
    <3>2. Ahead(call[t]) = 2 /\ Ahead(d) = 1
      BY <2>1, <3>1, AheadOf
    <3>3. Nearer(call[t], d)
      BY <2>5, <3>1, <3>2 DEF Nearer
    <3> QED BY <2>3, <3>3
  <2> QED BY <2>4, <2>5
<1> QED BY <1>6, <1>7, <1>8, <1>9, <1>10, <1>11, <1>12, <1>13, <1>14, <1>15, <1>16, <1>17 DEF Step

\* Nobody touches the call of another thread.
LEMMA CallsStep ==
  ASSUME TypeOK, Delivering, [Next]_vars
  PROVE  CallsAdvance /\ Delivering'
<1>1. call \in [Threads -> Calls]
  BY DEF TypeOK
<1>2. ASSUME NEW t \in Threads, Step(t) PROVE CallsAdvance /\ Delivering'
  <2>1. PICK d : call' = [call EXCEPT ![t] = d] /\ Nearer(call[t], d)
    BY <1>2, OwnStepAdvances
  <2>2. call'[t] = d /\ \A u \in Threads \ {t} : call'[u] = call[u]
    BY <1>1, <2>1
  <2> QED BY <2>1, <2>2 DEF CallsAdvance, Delivering, Nearer
<1>3. ASSUME NEW t \in Threads, Notice(t) PROVE CallsAdvance /\ Delivering'
  <2>1. PICK p \in Handles :
           call' = [call EXCEPT ![t].at = "deliver", ![t].on = p, ![t].to = Managers]
    BY <1>3 DEF Notice
  <2>2. call[t].at = "idle" /\ call'[t].to # {} /\ \A u \in Threads \ {t} : call'[u] = call[u]
    BY <1>1, <1>3, <2>1 DEF Notice, At, Calls, Managers
  <2> QED BY <2>2 DEF CallsAdvance, Delivering
<1>4. ASSUME NEW t \in Threads, NEW m \in Managers,
             NEW op \in {"start", "stop", "reset", "prepare"}, Call(t, m, op)
      PROVE  CallsAdvance /\ Delivering'
  <2>1. PICK d : d = [Idle EXCEPT !.at = op, !.of = m, !.for = op]
    OBVIOUS
  <2>2. d.at = op /\ call' = [call EXCEPT ![t] = d] /\ call[t].at = "idle"
    BY <1>4, <2>1 DEF Call, At, Idle
  <2>3. call'[t] = d /\ \A u \in Threads \ {t} : call'[u] = call[u]
    BY <1>1, <2>2
  <2> QED BY <2>2, <2>3 DEF CallsAdvance, Delivering
<1>5. CASE (\E p \in Handles : Exit(p)) \/ UNCHANGED vars
  BY <1>5 DEF Exit, vars, CallsAdvance, Delivering
<1> QED BY <1>2, <1>3, <1>4, <1>5 DEF Next

\* Who waits for a mutex waits for somebody who, unless the two wait for each
\* other, can go on.
LEMMA HolderGoesOn ==
  ASSUME TypeOK, ~Embraced, NEW t \in Threads, NEW m \in Managers, mutex[m] = t
  PROVE  \E u \in Threads : Ready(u)
<1>1. call[t].at \in Busy
  BY Exclusion
<1>2. CASE call[t].at = "spawn"
  BY <1>2 DEF Ready
<1>3. CASE call[t].at # "spawn" /\ Heard(t)
  BY <1>1, <1>3 DEF Ready, Busy
<1>4. CASE call[t].at # "spawn" /\ ~Heard(t)
  <2>1. PICK n \in Managers : mutex[n] \notin {NoThread, t}
    BY <1>4 DEF Heard, Free
  <2>2. PICK u \in Threads : u = mutex[n]
    BY <2>1 DEF TypeOK
  <2>3. n # m /\ call[u].at \in Busy
    BY <2>1, <2>2, Exclusion
  <2>4. call[u].at = "spawn"
    BY <1>4, <2>2, <2>3 DEF Embraced, Holder, Managers
  <2> QED BY <2>4 DEF Ready
<1> QED BY <1>2, <1>3, <1>4

LEMMA GoesOn == TypeOK /\ Delivering => SomeoneGoesOn
<1> SUFFICES ASSUME TypeOK, Delivering, ~Embraced, NEW t \in Threads, call[t].at # "idle"
             PROVE  \E u \in Threads : Ready(u)
  BY DEF SomeoneGoesOn
<1>1. call[t].of \in Managers /\ call[t].to \subseteq Managers /\ call[t].at \in Places
  BY DEF TypeOK, Calls
<1>2. CASE \A m \in Managers : mutex[m] = NoThread
  <2>1. Heard(t) /\ \A m \in Managers : Free(t, m)
    BY <1>2 DEF Heard, Free
  <2>2. call[t].at = "deliver" =>
          \E m \in call[t].to : Free(t, m) /\ ("weston" \in call[t].to => m = "weston")
    BY <1>1, <2>1 DEF Delivering
  <2> QED BY <1>1, <2>1, <2>2 DEF Ready, Places, Unlocked
<1>3. CASE \E m \in Managers : mutex[m] # NoThread
  BY <1>3, HolderGoesOn DEF TypeOK
<1> QED BY <1>2, <1>3

\* The safety core of CallsReturn.  Every step of a thread inside start(), stop(),
\* reset() or prepare() brings the call nearer to its end and no other thread
\* takes it back, so that a call takes at most nine steps of its own; and unless
\* the process died of a null process_ or two threads each hold a mutex the other
\* one waits for, somebody inside a call does not wait for a mutex.
THEOREM CallsDoNotStick == Spec => []SomeoneGoesOn /\ [][CallsAdvance]_vars
<1>1. Init => Delivering
  BY DEF Init, Delivering, Idle
<1>2. ManagersInv /\ Delivering /\ [Next]_vars => Delivering' /\ [CallsAdvance]_vars
  BY CallsStep DEF ManagersInv
<1>3. ManagersInv /\ Delivering => SomeoneGoesOn
  BY GoesOn DEF ManagersInv
<1> QED BY <1>1, <1>2, <1>3, ManagersSafe, PTL DEF Spec
==============================================================================
