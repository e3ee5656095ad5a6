------------------------- MODULE NodeRegistryProofs -------------------------
(***************************************************************************)
(* Proofs about NodeRegistry, for any number of nodes, sockets and         *)
(* disruptions.                                                            *)
(***************************************************************************)
EXTENDS NodeRegistry, TLAPS

(* The longest time between two firings of a heartbeat timer.              *)
Period == HEARTBEAT_INTERVAL + MaxLate

(* The last heartbeat in the table of a running node is older than the     *)
(* last firing of its timer by one period at most for every disruption.    *)
Fresh(n) == status[n] = "active" /\ age[n] <= beat[n] + disruptions * Period
RunningFresh == \A n \in Nodes : proc[n] = "running" => Fresh(n)

(* A cleanup that is about to deactivate the session of an open socket, of *)
(* a node that runs, had read the node's id when the session was created.  *)
SweptAreExposed ==
  \A m \in Nodes, s \in Sockets :
    /\ at[s] # None /\ session[s] # None
    /\ proc[at[s]] = "running"
    /\ at[s] \in sweep[m].dead
    => s \in exposed

(* Sockets are opened once, each to one process.                           *)
Located ==
  \A s \in Sockets :
    /\ at[s] # None \/ creating[s] # None \/ session[s] # None => s \in opened
    /\ at[s] # None => proc[at[s]] # "down"
    /\ at[s] # None /\ creating[s] # None => creating[s] = at[s]

-----------------------------------------------------------------------------
(* A disruption is counted; a statement that is executed is none.          *)
LEMMA Disruptions ==
  ASSUME disruptions \in 0 .. MaxDisruptions
  PROVE  /\ Executed => disruptions' = disruptions
         /\ Disrupt => disruptions' = disruptions + 1
         /\ Disrupt => disruptions' \in 0 .. MaxDisruptions
BY ConstantsAssumption DEF Executed, Disrupt

(* Marking stale nodes as dead, and deactivating sessions, keep the types. *)
LEMMA TablesTyped ==
  ASSUME TypeOK
  PROVE  /\ MarkedDead \in [Nodes -> {"active", "inactive", "dead", None}]
         /\ \A nodes \in SUBSET Nodes : Deactivated(nodes) \in
              [Sockets -> [node : Nodes, active : BOOLEAN] \cup {None}]
<1> DEFINE Rows == [node : Nodes, active : BOOLEAN]
<1>1. \A r \in Rows : [r EXCEPT !.active = FALSE] \in Rows
  OBVIOUS
<1>2. QED
  BY <1>1 DEF TypeOK, MarkedDead, Deactivated

(* The cleanup of a node goes on to a call without nodes in mind.          *)
LEMMA GotoTyped ==
  ASSUME TypeOK, NEW n \in Nodes, NEW call \in Calls, Goto(n, call)
  PROVE  /\ sweep' \in [Nodes -> [call : Calls, dead : SUBSET Nodes]]
         /\ sweep'[n].dead = {}
         /\ \A m \in Nodes \ {n} : sweep'[m] = sweep[m]
<1>1. [IdleSweep EXCEPT !.call = call] = [call |-> call, dead |-> {}]
  BY DEF IdleSweep
<1>2. QED
  BY <1>1 DEF TypeOK, Goto

(* An idle cleanup is one.                                                 *)
LEMMA IdleTyped == IdleSweep \in [call : Calls, dead : SUBSET Nodes]
BY DEF IdleSweep, Calls

(* Every step keeps the types.                                             *)
LEMMA TypeStep == TypeOK /\ [Next]_vars => TypeOK'
<1> SUFFICES ASSUME TypeOK, [Next]_vars PROVE TypeOK'
  OBVIOUS
<1> USE DEF sockets, tables
<1>1. ASSUME NEW n \in Nodes, Register(n) PROVE TypeOK'
  BY <1>1, ConstantsAssumption DEF TypeOK, Register, Registered, ProcStates
<1>2. ASSUME NEW n \in Nodes, Heartbeat(n) PROVE TypeOK'
  BY <1>2, Disruptions, ConstantsAssumption DEF TypeOK, Heartbeat, DbError
<1>3. ASSUME NEW n \in Nodes, Terminate(n),
             disruptions' \in 0 .. MaxDisruptions
      PROVE  TypeOK'
  BY <1>3, IdleTyped, ConstantsAssumption DEF TypeOK, Terminate, ProcStates
<1>4. ASSUME NEW n \in Nodes, Crash(n) PROVE TypeOK'
  BY <1>3, <1>4, Disruptions DEF TypeOK, Crash
<1>5. ASSUME NEW n \in Nodes, Exit(n) PROVE TypeOK'
  BY <1>3, <1>5 DEF TypeOK, Exit
<1>6. ASSUME NEW n \in Nodes, Shutdown(n) PROVE TypeOK'
  BY <1>6, Disruptions, ConstantsAssumption DEF TypeOK, Shutdown, ProcStates
<1>7. ASSUME NEW n \in Nodes, DeregisterSessions(n) PROVE TypeOK'
  <2>1. session' \in [Sockets -> [node : Nodes, active : BOOLEAN] \cup {None}]
    BY <1>7, TablesTyped DEF TypeOK, DeregisterSessions
  <2>2. proc' \in [Nodes -> ProcStates]
    BY <1>7 DEF TypeOK, DeregisterSessions, ProcStates
  <2>3. QED
    BY <1>7, <2>1, <2>2, Disruptions DEF TypeOK, DeregisterSessions, DbError
<1>8. ASSUME NEW n \in Nodes, DeregisterNode(n) PROVE TypeOK'
  BY <1>8, Disruptions
     DEF TypeOK, DeregisterNode, Deregistered, ProcStates, DbError
<1>9. ASSUME NEW s \in Sockets, NEW n \in Nodes, Connect(s, n) PROVE TypeOK'
  BY <1>9 DEF TypeOK, Connect
<1>10. ASSUME NEW s \in Sockets, CreateSession(s) PROVE TypeOK'
  <2>1. creating[s] \in Nodes
    BY <1>10 DEF TypeOK, CreateSession
  <2>2. [node |-> creating[s], active |-> TRUE] \in [node : Nodes, active : BOOLEAN]
    BY <2>1
  <2>3. session' \in [Sockets -> [node : Nodes, active : BOOLEAN] \cup {None}]
    BY <1>10, <2>2 DEF TypeOK, CreateSession
  <2>4. QED
    BY <1>10, <2>3, Disruptions DEF TypeOK, CreateSession, DbError
<1>11. ASSUME NEW s \in Sockets, Disconnect(s) PROVE TypeOK'
  BY <1>11, Disruptions DEF TypeOK, Disconnect, DbError
<1>12. ASSUME NEW n \in Nodes, SkipToCleanup(n), UNCHANGED <<proc, beat, sockets, exposed>>
       PROVE  TypeOK'
  BY <1>12, GotoTyped, Disruptions DEF TypeOK, SkipToCleanup, DbError, Calls
<1>13. ASSUME NEW n \in Nodes, MarkDead(n) PROVE TypeOK'
  <2>1. CASE SkipToCleanup(n)
    BY <1>12, <1>13, <2>1 DEF MarkDead
  <2>2. CASE /\ Executed
             /\ status' = MarkedDead
             /\ \E call \in Calls : Goto(n, call)
             /\ UNCHANGED <<age, session>>
    BY <1>13, <2>2, GotoTyped, TablesTyped, Disruptions DEF TypeOK, MarkDead
  <2>3. QED
    BY <1>13, <2>1, <2>2 DEF MarkDead, Calls
<1>14. ASSUME NEW n \in Nodes, FindDead(n) PROVE TypeOK'
  <2>1. CASE SkipToCleanup(n)
    BY <1>12, <1>14, <2>1 DEF FindDead
  <2>2. CASE /\ Executed
             /\ sweep' = [sweep EXCEPT ![n] =
                  [call |-> "deactivate", dead |-> {m \in Nodes : status[m] = "dead"}]]
             /\ UNCHANGED tables
    <3>1. [call |-> "deactivate", dead |-> {m \in Nodes : status[m] = "dead"}]
            \in [call : Calls, dead : SUBSET Nodes]
      BY DEF Calls
    <3>2. QED
      BY <1>14, <2>2, <3>1, Disruptions DEF TypeOK, FindDead
  <2>3. QED
    BY <1>14, <2>1, <2>2 DEF FindDead
<1>15. ASSUME NEW n \in Nodes, DeactivateSessions(n) PROVE TypeOK'
  <2>1. CASE SkipToCleanup(n)
    BY <1>12, <1>15, <2>1 DEF DeactivateSessions
  <2>2. CASE /\ Executed
             /\ session' = Deactivated(sweep[n].dead)
             /\ Goto(n, "delete")
             /\ UNCHANGED <<status, age>>
    <3>1. sweep[n].dead \in SUBSET Nodes /\ "delete" \in Calls
      BY DEF TypeOK, Calls
    <3>2. QED
      BY <1>15, <2>2, <3>1, GotoTyped, TablesTyped, Disruptions
         DEF TypeOK, DeactivateSessions
  <2>3. QED
    BY <1>15, <2>1, <2>2 DEF DeactivateSessions
<1>16. ASSUME NEW n \in Nodes, DeleteSessions(n) PROVE TypeOK'
  <2>1. sweep' \in [Nodes -> [call : Calls, dead : SUBSET Nodes]]
    BY <1>16, GotoTyped DEF DeleteSessions, Calls
  <2>2. session' \in [Sockets -> [node : Nodes, active : BOOLEAN] \cup {None}]
    BY <1>16 DEF TypeOK, DeleteSessions
  <2>3. QED
    BY <1>16, <2>1, <2>2, Disruptions DEF TypeOK, DeleteSessions, DbError
<1>17. ASSUME NEW n \in Nodes, MarkDeadAgain(n) PROVE TypeOK'
  BY <1>17, GotoTyped, TablesTyped, Disruptions
     DEF TypeOK, MarkDeadAgain, DbError, Calls
<1>18. CASE Tick
  BY <1>18, ConstantsAssumption DEF TypeOK, Tick
<1>19. CASE UNCHANGED vars
  BY <1>19 DEF TypeOK, vars
<1>20. QED
  BY <1>1, <1>2, <1>4, <1>5, <1>6, <1>7, <1>8, <1>9, <1>10, <1>11, <1>13,
     <1>14, <1>15, <1>16, <1>17, <1>18, <1>19 DEF Next, Deregister, Sweep

(* The initial state is typed.                                             *)
LEMMA TypeInit == Init => TypeOK
BY IdleTyped, ConstantsAssumption DEF Init, TypeOK, ProcStates

(* TypeOK: the tables, processes and cleanups keep their types, whatever   *)
(* interleaves and fails.                                                  *)
THEOREM TypeCorrect == Spec => []TypeOK
BY TypeInit, TypeStep, PTL DEF Spec

-----------------------------------------------------------------------------
(* Running nodes are active.                                               *)

(* Facts about products, which the solver does not find.                   *)
LEMMA Times ==
  ASSUME NEW p \in Nat, NEW d \in Nat
  PROVE  /\ d * p \in Nat
         /\ (d + 1) * p = d * p + p
         /\ \A e \in Nat : d <= e => d * p <= e * p
BY Z3

(* A running node is never stale, however old its last heartbeat.          *)
LEMMA FreshNotStale ==
  ASSUME TypeOK, Frequent, NEW n \in Nodes, Fresh(n)
  PROVE  ~Stale(n)
<1>1. /\ Period \in Nat /\ disruptions \in Nat /\ MaxDisruptions \in Nat
      /\ disruptions + 1 <= MaxDisruptions + 1
      /\ age[n] \in Nat /\ beat[n] \in Nat /\ beat[n] <= Period
      /\ DEAD_AFTER \in Nat
  BY ConstantsAssumption DEF TypeOK, Period
<1>2. (disruptions + 1) * Period <= (MaxDisruptions + 1) * Period
  BY <1>1, Times
<1>3. (disruptions + 1) * Period = disruptions * Period + Period
  BY <1>1, Times
<1>4. (MaxDisruptions + 1) * Period <= DEAD_AFTER
  BY DEF Frequent, Period
<1>5. /\ disruptions * Period \in Nat
      /\ (disruptions + 1) * Period \in Nat
      /\ (MaxDisruptions + 1) * Period \in Nat
  BY <1>1, Times
<1>6. age[n] <= beat[n] + disruptions * Period
  BY DEF Fresh
<1>7. age[n] <= DEAD_AFTER
  <2> DEFINE x == disruptions * Period
             y == (disruptions + 1) * Period
             z == (MaxDisruptions + 1) * Period
  <2>1. /\ x \in Nat /\ y \in Nat /\ z \in Nat
        /\ y <= z /\ y = x + Period /\ z <= DEAD_AFTER
        /\ age[n] <= beat[n] + x
    BY <1>2, <1>3, <1>4, <1>5, <1>6
  <2> HIDE DEF x, y, z
  <2>2. QED
    BY <1>1, <2>1
<1>8. QED
  BY <1>1, <1>7 DEF Stale

(* A disruption, and a timer that fires, leave room for the old heartbeat. *)
LEMMA SlackGrows ==
  ASSUME TypeOK
  PROVE  /\ disruptions * Period <= (disruptions + 1) * Period
         /\ disruptions * Period \in Nat
         /\ (disruptions + 1) * Period \in Nat
         /\ \A n \in Nodes : beat[n] <= Period
                /\ beat[n] + disruptions * Period <= (disruptions + 1) * Period
<1>1. /\ Period \in Nat /\ disruptions \in Nat
      /\ \A n \in Nodes : beat[n] \in Nat /\ beat[n] <= Period
  BY ConstantsAssumption DEF TypeOK, Period
<1> DEFINE x == disruptions * Period
           y == (disruptions + 1) * Period
<1>2. x \in Nat /\ y \in Nat /\ y = x + Period
  BY <1>1, Times
<1> HIDE DEF x, y
<1>3. x <= y /\ \A n \in Nodes : beat[n] + x <= y
  BY <1>1, <1>2
<1>4. QED
  BY <1>1, <1>2, <1>3 DEF x, y

(* Nothing but a timer, time and the end of a process concerns the         *)
(* freshness of a node, as long as its status stays.                       *)
LEMMA FreshKept ==
  ASSUME TypeOK, NEW n \in Nodes, Fresh(n),
         status'[n] = status[n], age'[n] = age[n], beat'[n] = beat[n],
         Executed \/ Disrupt
  PROVE  Fresh(n)'
<1>1. disruptions' * Period = disruptions * Period
      \/ disruptions' * Period = (disruptions + 1) * Period
  BY Disruptions DEF TypeOK
<1>2. disruptions' * Period \in Nat /\ disruptions * Period <= disruptions' * Period
  BY <1>1, SlackGrows
<1>3. age[n] \in Nat /\ beat[n] \in Nat /\ disruptions * Period \in Nat
  BY SlackGrows, ConstantsAssumption DEF TypeOK
<1> DEFINE x == disruptions * Period
           y == disruptions' * Period
<1>4. x \in Nat /\ y \in Nat /\ x <= y /\ age[n] <= beat[n] + x
  BY <1>2, <1>3 DEF Fresh
<1> HIDE DEF x, y
<1>5. age[n] <= beat[n] + y
  BY <1>3, <1>4
<1>6. age'[n] <= beat'[n] + y
  BY <1>5
<1>7. status'[n] = "active"
  BY DEF Fresh
<1>8. QED
  BY <1>6, <1>7 DEF Fresh, y, Period

(* Cleanups leave running nodes alone.                                     *)
LEMMA MarkingSpares ==
  ASSUME TypeOK, Frequent, RunningFresh, NEW n \in Nodes, proc[n] = "running"
  PROVE  MarkedDead[n] = status[n]
BY FreshNotStale DEF RunningFresh, MarkedDead

(* Every step keeps running nodes fresh.                                   *)
LEMMA FreshStep ==
  TypeOK /\ Frequent /\ RunningFresh /\ [Next]_vars => RunningFresh'
<1> SUFFICES ASSUME TypeOK, Frequent, RunningFresh, [Next]_vars,
                    NEW n \in Nodes, proc'[n] = "running"
             PROVE  Fresh(n)'
  BY DEF RunningFresh, Fresh, Period
<1> USE DEF sockets, tables
<1>1. ASSUME proc[n] = "running",
             status'[n] = status[n], age'[n] = age[n], beat'[n] = beat[n],
             Executed \/ Disrupt
      PROVE  Fresh(n)'
  BY <1>1, FreshKept DEF RunningFresh
<1>2. ASSUME age'[n] = 0, status'[n] = "active", beat'[n] = 0, Executed
      PROVE  Fresh(n)'
  <2>1. disruptions' * Period \in Nat
    BY <1>2, SlackGrows, Disruptions DEF TypeOK
  <2>2. age'[n] <= beat'[n] + disruptions' * Period
    BY <1>2, <2>1
  <2>3. QED
    BY <1>2, <2>2 DEF Fresh, Period
<1>3. ASSUME NEW m \in Nodes, Register(m) PROVE Fresh(n)'
  <2>1. CASE m = n
    BY <1>2, <1>3, <2>1 DEF Register, Registered, Executed, TypeOK
  <2>2. CASE m # n
    BY <1>1, <1>3, <2>2 DEF Register, Registered, Executed, TypeOK
  <2>3. QED
    BY <2>1, <2>2
<1>4. ASSUME NEW m \in Nodes, Heartbeat(m) PROVE Fresh(n)'
  <2>1. CASE m # n
    BY <1>1, <1>4, <2>1 DEF Heartbeat, DbError, TypeOK
  <2>2. CASE m = n /\ Executed /\ age' = [age EXCEPT ![m] = 0]
    BY <1>2, <1>4, <2>2 DEF Heartbeat, TypeOK, RunningFresh, Fresh
  <2>3. CASE m = n /\ Disrupt /\ UNCHANGED age
    <3>1. /\ disruptions' = disruptions + 1
          /\ beat'[n] = 0 /\ age'[n] = age[n] /\ status'[n] = "active"
      BY <1>4, <2>3, Disruptions DEF Heartbeat, TypeOK, RunningFresh, Fresh
    <3>2. /\ age[n] <= beat[n] + disruptions * Period
          /\ beat[n] + disruptions * Period <= (disruptions + 1) * Period
          /\ disruptions * Period \in Nat /\ (disruptions + 1) * Period \in Nat
      BY <1>4, <2>3, SlackGrows DEF Heartbeat, RunningFresh, Fresh
    <3>3. age[n] \in Nat /\ beat[n] \in Nat
      BY ConstantsAssumption DEF TypeOK
    <3> DEFINE x == disruptions * Period
               y == (disruptions + 1) * Period
    <3>4. /\ x \in Nat /\ y \in Nat
          /\ age[n] <= beat[n] + x /\ beat[n] + x <= y
      BY <3>2
    <3> HIDE DEF x, y
    <3>5. age[n] <= 0 + y
      BY <3>3, <3>4
    <3>6. age'[n] <= beat'[n] + y
      BY <3>1, <3>5
    <3>7. QED
      BY <3>1, <3>6 DEF Fresh, Period, y
  <2>4. QED
    BY <1>4, <2>1, <2>2, <2>3 DEF Heartbeat, DbError
<1>5. ASSUME NEW m \in Nodes, Terminate(m), Executed \/ Disrupt
      PROVE  Fresh(n)'
  BY <1>1, <1>5 DEF Terminate, TypeOK
<1>6. ASSUME NEW m \in Nodes, Crash(m) \/ Exit(m) PROVE Fresh(n)'
  BY <1>5, <1>6 DEF Crash, Exit, Executed
<1>7. ASSUME NEW m \in Nodes, Shutdown(m) PROVE Fresh(n)'
  BY <1>1, <1>7 DEF Shutdown, TypeOK
<1>8. ASSUME NEW m \in Nodes, Deregister(m) PROVE Fresh(n)'
  BY <1>1, <1>8
     DEF Deregister, DeregisterSessions, DeregisterNode, Deregistered, DbError,
         TypeOK
<1>9. ASSUME NEW s \in Sockets, NEW m \in Nodes, Connect(s, m) PROVE Fresh(n)'
  BY <1>1, <1>9 DEF Connect, Executed
<1>10. ASSUME NEW s \in Sockets, CreateSession(s) \/ Disconnect(s)
       PROVE  Fresh(n)'
  BY <1>1, <1>10 DEF CreateSession, Disconnect, DbError
<1>11. ASSUME proc' = proc, beat' = beat, age' = age, Executed \/ Disrupt,
              status' = MarkedDead \/ status' = status
       PROVE  Fresh(n)'
  BY <1>1, <1>11, MarkingSpares
<1>12. ASSUME NEW m \in Nodes, Sweep(m) PROVE Fresh(n)'
  BY <1>11, <1>12
     DEF Sweep, MarkDead, FindDead, DeactivateSessions, DeleteSessions,
         MarkDeadAgain, SkipToCleanup, DbError
<1>13. CASE Tick
  <2>1. /\ proc[n] = "running" /\ status'[n] = status[n] /\ beat'[n] = beat[n] + 1
        /\ age'[n] <= age[n] + 1
        /\ disruptions' = disruptions
    BY <1>13, ConstantsAssumption DEF Tick, TypeOK
  <2>2. age'[n] \in Nat /\ age[n] \in Nat /\ beat[n] \in Nat /\ disruptions * Period \in Nat
    BY <1>13, SlackGrows, ConstantsAssumption DEF Tick, TypeOK
  <2> DEFINE x == disruptions * Period
  <2>3. x \in Nat /\ age[n] <= beat[n] + x /\ status[n] = "active"
    BY <2>1, <2>2 DEF RunningFresh, Fresh
  <2> HIDE DEF x
  <2>4. age'[n] <= beat'[n] + x
    BY <2>1, <2>2, <2>3
  <2>5. QED
    BY <2>1, <2>3, <2>4 DEF Fresh, Period, x
<1>14. CASE UNCHANGED vars
  BY <1>1, <1>14 DEF vars, Executed
<1>15. QED
  BY <1>3, <1>4, <1>6, <1>7, <1>8, <1>9, <1>10, <1>12, <1>13, <1>14 DEF Next

(* No node runs at first.                                                  *)
LEMMA FreshInit == Init => RunningFresh
BY DEF Init, RunningFresh

(* RunningIsActive: the cleanups mark no running node as dead, if its      *)
(* heartbeats are frequent enough for the number of disruptions.           *)
THEOREM RunningStaysActive == Frequent /\ Spec => []RunningIsActive
<1>1. RunningFresh => RunningIsActive
  BY DEF RunningFresh, Fresh, RunningIsActive
<1>2. CASE Frequent
  <2>1. TypeOK /\ RunningFresh /\ [Next]_vars => RunningFresh'
    BY <1>2, FreshStep
  <2>2. Spec => []RunningIsActive
    BY <1>1, <2>1, TypeCorrect, FreshInit, PTL DEF Spec
  <2>3. QED
    BY <2>2
<1>3. CASE ~Frequent
  BY <1>3
<1>4. QED
  BY <1>2, <1>3

-----------------------------------------------------------------------------
(* Sessions of open sockets are active.                                    *)

(* A cleanup does not read the id of a node that runs, nor does a node come *)
(* to run under sockets that are open: only a session created in between    *)
(* can be in a cleanup's way.                                               *)
LEMMA SweptStep ==
  TypeOK /\ RunningIsActive /\ Located /\ SweptAreExposed /\ [Next]_vars
    => SweptAreExposed'
<1> SUFFICES ASSUME TypeOK, RunningIsActive, Located, SweptAreExposed, [Next]_vars,
                    NEW m \in Nodes, NEW s \in Sockets,
                    at'[s] # None, session'[s] # None,
                    proc'[at'[s]] = "running",
                    at'[s] \in sweep'[m].dead
             PROVE  s \in exposed'
  BY DEF SweptAreExposed
<1> USE DEF sockets, tables
<1>1. ASSUME at'[s] = at[s], session[s] # None, proc[at[s]] = "running",
             at[s] \in sweep[m].dead, exposed' = exposed
      PROVE  s \in exposed'
  BY <1>1 DEF SweptAreExposed
<1>2. ASSUME NEW k \in Nodes, Register(k) PROVE s \in exposed'
  <2>1. at[s] \in Nodes /\ at[s] # k
    BY <1>2 DEF Register, Located, TypeOK
  <2>2. QED
    BY <1>1, <1>2, <2>1 DEF Register, TypeOK
<1>3. ASSUME NEW k \in Nodes, Heartbeat(k) PROVE s \in exposed'
  BY <1>1, <1>3 DEF Heartbeat
<1>4. ASSUME NEW k \in Nodes, Terminate(k) PROVE s \in exposed'
  <2>1. m # k
    BY <1>4 DEF Terminate, IdleSweep, TypeOK
  <2>2. at'[s] = at[s] /\ at[s] # k /\ at[s] \in Nodes
    BY <1>4, ConstantsAssumption DEF Terminate, TypeOK
  <2>3. QED
    BY <1>1, <1>4, <2>1, <2>2 DEF Terminate, TypeOK
<1>5. ASSUME NEW k \in Nodes, Crash(k) \/ Exit(k) PROVE s \in exposed'
  BY <1>4, <1>5 DEF Crash, Exit
<1>6. ASSUME NEW k \in Nodes, Shutdown(k) PROVE s \in exposed'
  BY <1>1, <1>6 DEF Shutdown, TypeOK
<1>7. ASSUME NEW k \in Nodes, Deregister(k) PROVE s \in exposed'
  <2>1. /\ UNCHANGED <<at, sweep, exposed>>
        /\ session[s] # None /\ at[s] \in Nodes
    BY <1>7
       DEF Deregister, DeregisterSessions, DeregisterNode, Deactivated, TypeOK
  <2>2. proc[at[s]] = "running"
    BY <1>7, <2>1 DEF Deregister, DeregisterSessions, DeregisterNode, TypeOK
  <2>3. QED
    BY <1>1, <2>1, <2>2
<1>8. ASSUME NEW k \in Sockets, NEW n \in Nodes, Connect(k, n)
      PROVE  s \in exposed'
  <2>1. s # k
    BY <1>8 DEF Connect, Located
  <2>2. QED
    BY <1>1, <1>8, <2>1 DEF Connect, TypeOK
<1>9. ASSUME NEW k \in Sockets, CreateSession(k) PROVE s \in exposed'
  <2>1. UNCHANGED <<at, proc, sweep>>
    BY <1>9 DEF CreateSession
  <2>2. CASE s # k \/ session' = session
    <3>1. session'[s] = session[s]
      BY <1>9, <2>2 DEF CreateSession, TypeOK
    <3>2. s \in exposed
      BY <2>1, <3>1 DEF SweptAreExposed
    <3>3. QED
      BY <1>9, <3>2 DEF CreateSession
  <2>3. CASE /\ s = k
             /\ exposed' = IF \E n \in Nodes : creating[k] \in sweep[n].dead
                           THEN exposed \cup {k} ELSE exposed
    <3>1. creating[k] = at[k]
      BY <1>9, <2>1, <2>3 DEF CreateSession, Located
    <3>2. QED
      BY <2>1, <2>3, <3>1
  <2>4. QED
    BY <1>9, <2>2, <2>3 DEF CreateSession
<1>10. ASSUME NEW k \in Sockets, Disconnect(k) PROVE s \in exposed'
  <2>1. s # k
    BY <1>10 DEF Disconnect, TypeOK
  <2>2. QED
    BY <1>1, <1>10, <2>1 DEF Disconnect, TypeOK
<1>11. ASSUME NEW k \in Nodes, Sweep(k) PROVE s \in exposed'
  <2>1. UNCHANGED <<at, proc, exposed>>
    BY <1>11
       DEF Sweep, MarkDead, FindDead, DeactivateSessions, DeleteSessions,
           MarkDeadAgain
  <2>2. session[s] # None
    BY <1>11
       DEF Sweep, MarkDead, FindDead, DeactivateSessions, DeleteSessions,
           MarkDeadAgain, SkipToCleanup, Deactivated, TypeOK
  <2>3. CASE \E call \in Calls : Goto(k, call)
    <3>1. m # k /\ sweep'[m] = sweep[m]
      BY <2>3, GotoTyped
    <3>2. QED
      BY <1>1, <2>1, <2>2, <3>1
  <2>4. CASE sweep' = [sweep EXCEPT ![k] =
               [call |-> "deactivate", dead |-> {i \in Nodes : status[i] = "dead"}]]
    <3>1. at[s] \in Nodes /\ status[at[s]] = "active"
      BY <2>1 DEF TypeOK, RunningIsActive
    <3>2. m # k
      BY <2>1, <2>4, <3>1 DEF TypeOK
    <3>3. QED
      BY <1>1, <2>1, <2>2, <2>4, <3>2 DEF TypeOK
  <2>5. QED
    BY <1>11, <2>3, <2>4
       DEF Sweep, MarkDead, FindDead, DeactivateSessions, DeleteSessions,
           MarkDeadAgain, SkipToCleanup, Calls
<1>12. CASE Tick
  BY <1>1, <1>12 DEF Tick
<1>13. CASE UNCHANGED vars
  BY <1>1, <1>13 DEF vars
<1>14. QED
  BY <1>2, <1>3, <1>5, <1>6, <1>7, <1>8, <1>9, <1>10, <1>11, <1>12, <1>13 DEF Next

(* Every step keeps sockets at their process.                              *)
LEMMA LocatedStep == TypeOK /\ Located /\ [Next]_vars => Located'
<1> SUFFICES ASSUME TypeOK, Located, [Next]_vars PROVE Located'
  OBVIOUS
<1> USE DEF sockets, tables
<1>1. ASSUME NEW n \in Nodes, Register(n) PROVE Located'
  BY <1>1 DEF Register, Located, TypeOK
<1>2. ASSUME NEW n \in Nodes, Terminate(n) PROVE Located'
  BY <1>2, ConstantsAssumption DEF Terminate, Located, TypeOK
<1>3. ASSUME NEW n \in Nodes, Crash(n) \/ Exit(n) PROVE Located'
  BY <1>2, <1>3 DEF Crash, Exit
<1>4. ASSUME NEW n \in Nodes, Shutdown(n) PROVE Located'
  BY <1>4 DEF Shutdown, Located, TypeOK
<1>5. ASSUME \A s \in Sockets : session[s] = None => session'[s] = None,
             UNCHANGED sockets,
             \A n \in Nodes : proc[n] # "down" => proc'[n] # "down"
      PROVE  Located'
  BY <1>5 DEF Located, TypeOK
<1>6. ASSUME NEW n \in Nodes, Deregister(n) PROVE Located'
  <2>1. \A s \in Sockets : session[s] = None => session'[s] = None
    BY <1>6 DEF Deregister, DeregisterSessions, DeregisterNode, Deactivated
  <2>2. \A k \in Nodes : proc[k] # "down" => proc'[k] # "down"
    BY <1>6 DEF Deregister, DeregisterSessions, DeregisterNode, TypeOK
  <2>3. UNCHANGED sockets
    BY <1>6 DEF Deregister, DeregisterSessions, DeregisterNode
  <2>4. QED
    BY <1>5, <2>1, <2>2, <2>3
<1>7. ASSUME NEW n \in Nodes, Sweep(n) PROVE Located'
  <2>1. \A s \in Sockets : session[s] = None => session'[s] = None
    BY <1>7
       DEF Sweep, MarkDead, FindDead, DeactivateSessions, DeleteSessions,
           MarkDeadAgain, SkipToCleanup, Deactivated
  <2>2. UNCHANGED <<proc, sockets>>
    BY <1>7
       DEF Sweep, MarkDead, FindDead, DeactivateSessions, DeleteSessions,
           MarkDeadAgain
  <2>3. QED
    BY <1>5, <2>1, <2>2
<1>8. ASSUME NEW s \in Sockets, NEW n \in Nodes, Connect(s, n) PROVE Located'
  BY <1>8 DEF Connect, Located, TypeOK
<1>9. ASSUME NEW s \in Sockets, CreateSession(s) PROVE Located'
  BY <1>9 DEF CreateSession, Located, TypeOK
<1>10. ASSUME NEW s \in Sockets, Disconnect(s) PROVE Located'
  BY <1>10 DEF Disconnect, Located, TypeOK
<1>11. CASE (\E n \in Nodes : Heartbeat(n)) \/ Tick \/ UNCHANGED vars
  BY <1>11 DEF Heartbeat, Tick, vars, Located
<1>12. QED
  BY <1>1, <1>3, <1>4, <1>6, <1>7, <1>8, <1>9, <1>10, <1>11 DEF Next

(* Every step keeps the sessions of open sockets active.                   *)
LEMMA OpenStep ==
  TypeOK /\ SweptAreExposed /\ Located /\ OpenIsActive /\ [Next]_vars
    => OpenIsActive'
<1> SUFFICES ASSUME TypeOK, SweptAreExposed, Located, OpenIsActive, [Next]_vars,
                    NEW s \in Sockets \ exposed', at'[s] # None, session'[s] # None,
                    proc'[at'[s]] = "running"
             PROVE  session'[s] = [node |-> at'[s], active |-> TRUE]
  BY DEF OpenIsActive
<1> USE DEF sockets, tables
<1>0. s \notin exposed
  BY DEF Next, Register, Heartbeat, Crash, Exit, Terminate, Shutdown, Deregister,
         DeregisterSessions, DeregisterNode, Connect, CreateSession, Disconnect,
         Sweep, MarkDead, FindDead, DeactivateSessions, DeleteSessions,
         MarkDeadAgain, Tick, vars
<1>1. ASSUME at'[s] = at[s], session'[s] = session[s],
             proc[at[s]] = "running"
      PROVE  session'[s] = [node |-> at'[s], active |-> TRUE]
  BY <1>0, <1>1 DEF OpenIsActive
<1>2. ASSUME NEW n \in Nodes, Register(n)
      PROVE  session'[s] = [node |-> at'[s], active |-> TRUE]
  <2>1. at[s] \in Nodes /\ at[s] # n
    BY <1>2 DEF Register, Located, TypeOK
  <2>2. proc[at[s]] = "running"
    BY <1>2, <2>1 DEF Register, TypeOK
  <2>3. QED
    BY <1>1, <1>2, <2>2 DEF Register
<1>3. ASSUME NEW n \in Nodes, Terminate(n)
      PROVE  session'[s] = [node |-> at'[s], active |-> TRUE]
  <2>1. at[s] = at'[s] /\ at[s] \in Nodes /\ at[s] # n
    BY <1>3, ConstantsAssumption DEF Terminate, TypeOK
  <2>2. QED
    BY <1>1, <1>3, <2>1 DEF Terminate, TypeOK
<1>4. ASSUME NEW n \in Nodes, Crash(n) \/ Exit(n)
      PROVE  session'[s] = [node |-> at'[s], active |-> TRUE]
  BY <1>3, <1>4 DEF Crash, Exit
<1>5. ASSUME NEW n \in Nodes, Shutdown(n)
      PROVE  session'[s] = [node |-> at'[s], active |-> TRUE]
  BY <1>1, <1>5 DEF Shutdown, TypeOK
<1>6. ASSUME NEW nodes \in SUBSET Nodes, session' = Deactivated(nodes),
             at[s] \notin nodes, at' = at, proc[at[s]] = "running"
      PROVE  session'[s] = [node |-> at'[s], active |-> TRUE]
  <2>1. session[s] # None
    BY <1>6 DEF Deactivated
  <2>2. session[s] = [node |-> at[s], active |-> TRUE]
    BY <1>0, <1>6, <2>1 DEF OpenIsActive
  <2>3. session[s].node = at[s] /\ at[s] \notin nodes
    BY <1>6, <2>2
  <2>4. session'[s] = session[s]
    BY <1>6, <2>3 DEF Deactivated
  <2>5. QED
    BY <1>6, <2>2, <2>4
<1>7. ASSUME NEW n \in Nodes, Deregister(n)
      PROVE  session'[s] = [node |-> at'[s], active |-> TRUE]
  <2>1. /\ at' = at
        /\ proc[n] # "running"
        /\ session' = session \/ session' = Deactivated({n})
    BY <1>7 DEF Deregister, DeregisterSessions, DeregisterNode
  <2>2. at[s] \in Nodes
    BY <2>1 DEF TypeOK
  <2>3. proc[at[s]] = "running"
    BY <1>7, <2>1, <2>2 DEF Deregister, DeregisterSessions, DeregisterNode, TypeOK
  <2>4. CASE session' = session
    BY <1>1, <2>1, <2>3, <2>4
  <2>5. CASE session' = Deactivated({n})
    <3>1. {n} \in SUBSET Nodes /\ at[s] \notin {n}
      BY <2>1, <2>3
    <3>2. QED
      BY <1>6, <2>1, <2>3, <2>5, <3>1
  <2>6. QED
    BY <2>1, <2>4, <2>5
<1>8. ASSUME NEW n \in Nodes, Sweep(n)
      PROVE  session'[s] = [node |-> at'[s], active |-> TRUE]
  <2>1. at' = at /\ proc' = proc
    BY <1>8
       DEF Sweep, MarkDead, FindDead, DeactivateSessions, DeleteSessions,
           MarkDeadAgain
  <2>2. CASE session'[s] = session[s]
    BY <1>1, <2>1, <2>2
  <2>3. CASE session' = Deactivated(sweep[n].dead)
    <3>1. sweep[n].dead \in SUBSET Nodes
      BY DEF TypeOK
    <3>2. proc[at[s]] = "running" /\ session[s] # None
      BY <2>1, <2>3 DEF Deactivated
    <3>3. at[s] \notin sweep[n].dead
      BY <1>0, <2>1, <3>2 DEF SweptAreExposed
    <3>4. QED
      BY <1>6, <2>1, <2>3, <3>1, <3>2, <3>3
  <2>4. session'[s] = session[s] \/ session' = Deactivated(sweep[n].dead)
    BY <1>8
       DEF Sweep, MarkDead, FindDead, DeactivateSessions, DeleteSessions,
           MarkDeadAgain, SkipToCleanup, TypeOK
  <2>5. QED
    BY <2>2, <2>3, <2>4
<1>9. ASSUME NEW k \in Sockets, NEW n \in Nodes, Connect(k, n)
      PROVE  session'[s] = [node |-> at'[s], active |-> TRUE]
  <2>1. s # k
    BY <1>9 DEF Connect, Located
  <2>2. QED
    BY <1>1, <1>9, <2>1 DEF Connect, TypeOK
<1>10. ASSUME NEW k \in Sockets, CreateSession(k)
       PROVE  session'[s] = [node |-> at'[s], active |-> TRUE]
  <2>1. CASE s # k
    BY <1>1, <1>10, <2>1 DEF CreateSession, TypeOK
  <2>2. CASE s = k /\ session' = session
    BY <1>1, <1>10, <2>2 DEF CreateSession
  <2>3. CASE /\ s = k
             /\ session' = [session EXCEPT ![k] =
                              [node |-> creating[k], active |-> TRUE]]
    BY <1>10, <2>3 DEF CreateSession, Located, TypeOK
  <2>4. QED
    BY <1>10, <2>1, <2>2, <2>3 DEF CreateSession
<1>11. ASSUME NEW k \in Sockets, Disconnect(k)
       PROVE  session'[s] = [node |-> at'[s], active |-> TRUE]
  BY <1>1, <1>11 DEF Disconnect, TypeOK
<1>12. CASE (\E n \in Nodes : Heartbeat(n)) \/ Tick \/ UNCHANGED vars
  BY <1>1, <1>12 DEF Heartbeat, Tick, vars
<1>13. QED
  BY <1>2, <1>4, <1>5, <1>7, <1>8, <1>9, <1>10, <1>11, <1>12 DEF Next

(* There is no socket and no cleanup at first.                             *)
LEMMA OpenInit == Init => SweptAreExposed /\ Located /\ OpenIsActive
BY DEF Init, SweptAreExposed, Located, OpenIsActive, IdleSweep

(* OpenIsActive, through crashes and restarts at any point of a cleanup:   *)
(* if heartbeats are frequent enough, a cleanup ends the session of an     *)
(* open socket of a node that runs only if it had read the id of the node  *)
(* among the dead before the session was created.                          *)
THEOREM OpenStaysActive == Frequent /\ Spec => []OpenIsActive
<1>1. CASE Frequent
  <2>1. Spec => []RunningIsActive
    BY <1>1, RunningStaysActive, PTL
  <2>2. Spec => []OpenIsActive
    BY <2>1, TypeCorrect, OpenInit, SweptStep, LocatedStep, OpenStep, PTL DEF Spec
  <2>3. QED
    BY <2>2
<1>2. CASE ~Frequent
  BY <1>2
<1>3. QED
  BY <1>1, <1>2
=============================================================================
