------------------------ MODULE MasterElectionProofs ------------------------
(* What MasterElection guarantees for every number of nodes and every value *)
(* of its times.                                                            *)
EXTENDS MasterElection, TLAPS

-----------------------------------------------------------------------------
(* The inductive invariant behind MasterHoldsKey.                           *)

Live(n) == proc[n] \in {"running", "stopping"}

(* The node routes, or is about to: SET has just given it the key.          *)
Leads(n) == Live(n) /\ (isMaster[n] \/ pc[n] = "acquired")

(* The longest a live node lets elapsed grow before it must act.            *)
Clocks(n) ==
  /\ proc[n] = "running" /\ pc[n] = "idle" =>
       elapsed[n] <= ELECTION_INTERVAL + MaxLate
  /\ proc[n] = "running" /\ pc[n] # "idle" => elapsed[n] <= RoundTime
  /\ proc[n] = "stopping" => elapsed[n] <= StopTime

(* What a round, and a process, may remember at each place.                 *)
Places(n) ==
  /\ proc[n] = "down" => pc[n] = "idle" /\ ~isMaster[n]
  /\ proc[n] = "drained" => pc[n] \notin RedisStates \cup ReplyStates
  /\ pc[n] \in {"mine", "renewed"} => isMaster[n]
  /\ pc[n] = "theirs" => ~isMaster[n]

(* A live node believes itself master exactly when the key names it.        *)
Belief(n) == Live(n) => (Leads(n) <=> masterKey = n)

(* Time that may have passed between the last refresh and the moment from   *)
(* which elapsed[n] counts.                                                 *)
Spent(n) ==
  IF proc[n] = "stopping" THEN ELECTION_INTERVAL + MaxLate + RoundTime
  ELSE IF pc[n] \in RedisStates THEN ELECTION_INTERVAL + MaxLate
  ELSE 0

(* The key of a leading node was refreshed no longer ago than its clock     *)
(* says.                                                                    *)
Lasts(n) == Leads(n) => ttl + elapsed[n] + Spent(n) >= MASTER_TTL

KeyHasTtl == masterKey = NoNode <=> ttl = 0

HoldInv ==
  /\ TypeOK
  /\ KeyHasTtl
  /\ \A n \in Nodes : Clocks(n) /\ Places(n) /\ Belief(n) /\ Lasts(n)

(* The inductive invariant behind RoleSettles.                              *)
RoleInv ==
  /\ TypeOK
  /\ \A n \in Nodes :
       /\ proc[n] = "down" => ~isMaster[n] /\ ~told[n] /\ pc[n] = "idle"
       /\ pc[n] \in {"saveMaster", "tellMaster"} => isMaster[n]
       /\ pc[n] \in {"saveWorker", "tellWorker"} => ~isMaster[n]
       /\ pc[n] \notin RoleStates =>
            told[n] = isMaster[n] /\ (isMaster[n] => role[n] = "master")
       /\ pc[n] = "tellMaster" => role[n] = "master"

-----------------------------------------------------------------------------
(* Every variable keeps its type: no round, shutdown or restart leads a     *)
(* node to a place tryBecomeMaster does not have.                           *)
THEOREM TypeCorrect == Spec => []TypeOK
<1>1. Init => TypeOK
  BY ConstantsAssumption DEF Init, TypeOK, ProcStates, PcStates
<1>2. TypeOK /\ [Next]_vars => TypeOK'
  <2> SUFFICES ASSUME TypeOK, [Next]_vars
               PROVE  TypeOK'
    OBVIOUS
  <2> USE ConstantsAssumption DEF TypeOK, ProcStates, PcStates, RedisStates,
          ReplyStates, RoleStates, Goto, redis
  <2>1. ASSUME NEW n \in Nodes, Start(n) PROVE TypeOK'
    BY <2>1 DEF Start
  <2>2. ASSUME NEW n \in Nodes, Crash(n) PROVE TypeOK'
    BY <2>2 DEF Crash, Terminate, Disrupt
  <2>3. ASSUME NEW n \in Nodes, Shutdown(n) PROVE TypeOK'
    BY <2>3 DEF Shutdown, Disrupt
  <2>4. ASSUME NEW n \in Nodes, RejectedByQuit(n) PROVE TypeOK'
    BY <2>4 DEF RejectedByQuit
  <2>5. ASSUME NEW n \in Nodes, Drain(n) PROVE TypeOK'
    BY <2>5 DEF Drain
  <2>6. ASSUME NEW n \in Nodes, Exit(n) PROVE TypeOK'
    BY <2>6 DEF Exit, Terminate
  <2>7. ASSUME NEW n \in Nodes, RedisError(n) PROVE TypeOK'
    BY <2>7 DEF RedisError, Disrupt
  <2>8. ASSUME NEW n \in Nodes, Round(n) PROVE TypeOK'
    <3>1. CASE Fire(n)         BY <3>1 DEF Fire
    <3>2. CASE SetNX(n)        BY <3>2 DEF SetNX, Lease
    <3>3. CASE GetMaster(n)    BY <3>3 DEF GetMaster, Verdict
    <3>4. CASE Extend(n)       BY <3>4 DEF Extend, Refreshed
    <3>5. CASE BecomeMaster(n) BY <3>5 DEF BecomeMaster
    <3>6. CASE StepDown(n)     BY <3>6 DEF StepDown, AfterTheirs
    <3>7. CASE SaveRole(n)     BY <3>7 DEF SaveRole, Disrupt
    <3>8. CASE TellClients(n)  BY <3>8 DEF TellClients, ToldRole
    <3> QED  BY <2>8, <3>1, <3>2, <3>3, <3>4, <3>5, <3>6, <3>7, <3>8 DEF Round
  <2>9. CASE Tick
    BY <2>9 DEF Tick, Remaining
  <2>10. CASE UNCHANGED vars
    BY <2>10 DEF vars
  <2> QED
    BY <2>1, <2>2, <2>3, <2>4, <2>5, <2>6, <2>7, <2>8, <2>9, <2>10 DEF Next
<1> QED
  BY <1>1, <1>2, PTL DEF Spec

-----------------------------------------------------------------------------
(* What a node remembers and what it has told its clients and the database  *)
(* agree between rounds, whatever the timing and the Redis faults, as long  *)
(* as the database accepts the role (updateRole swallows its errors).       *)
THEOREM RolesSettle ==
  ASSUME "dbError" \notin Faults
  PROVE  Spec => []RoleSettles
<1>1. Init => RoleInv
  BY ConstantsAssumption DEF Init, RoleInv, TypeOK, ProcStates, PcStates, RoleStates
<1>2. TypeOK' /\ RoleInv /\ [Next]_vars => RoleInv'
  <2> SUFFICES ASSUME TypeOK', RoleInv, [Next]_vars
               PROVE  RoleInv'
    OBVIOUS
  <2> USE DEF RoleInv, TypeOK, ProcStates, PcStates, RedisStates, ReplyStates,
          RoleStates, Goto, redis
  <2>1. ASSUME NEW n \in Nodes, Start(n) PROVE RoleInv'
    BY <2>1 DEF Start
  <2>2. ASSUME NEW n \in Nodes, Crash(n) PROVE RoleInv'
    BY <2>2 DEF Crash, Terminate, Disrupt
  <2>3. ASSUME NEW n \in Nodes, Shutdown(n) PROVE RoleInv'
    BY <2>3 DEF Shutdown, Disrupt
  <2>4. ASSUME NEW n \in Nodes, RejectedByQuit(n) PROVE RoleInv'
    BY <2>4 DEF RejectedByQuit
  <2>5. ASSUME NEW n \in Nodes, Drain(n) PROVE RoleInv'
    BY <2>5 DEF Drain
  <2>6. ASSUME NEW n \in Nodes, Exit(n) PROVE RoleInv'
    BY <2>6 DEF Exit, Terminate
  <2>7. ASSUME NEW n \in Nodes, RedisError(n) PROVE RoleInv'
    BY <2>7 DEF RedisError, Disrupt
  <2>8. ASSUME NEW n \in Nodes, Round(n) PROVE RoleInv'
    <3>1. CASE Fire(n)         BY <3>1 DEF Fire
    <3>2. CASE SetNX(n)        BY <3>2 DEF SetNX, Lease
    <3>3. CASE GetMaster(n)    BY <3>3 DEF GetMaster, Verdict
    <3>4. CASE Extend(n)       BY <3>4 DEF Extend, Refreshed
    <3>5. CASE BecomeMaster(n) BY <3>5 DEF BecomeMaster
    <3>6. CASE StepDown(n)
      <4>1. CASE isMaster[n]   BY <3>6, <4>1 DEF StepDown, AfterTheirs
      <4>2. CASE ~isMaster[n]
        <5>1. isMaster[n] = FALSE
          BY <4>2
        <5>2. isMaster' = isMaster
          BY <3>6, <5>1 DEF StepDown, AfterTheirs
        <5> QED  BY <3>6, <4>2, <5>2 DEF StepDown
      <4> QED  BY <4>1, <4>2
    <3>7. CASE SaveRole(n)     BY <3>7 DEF SaveRole, Disrupt
    <3>8. CASE TellClients(n)  BY <3>8 DEF TellClients, ToldRole
    <3> QED  BY <2>8, <3>1, <3>2, <3>3, <3>4, <3>5, <3>6, <3>7, <3>8 DEF Round
  <2>9. CASE Tick
    BY <2>9 DEF Tick
  <2>10. CASE UNCHANGED vars
    BY <2>10 DEF vars
  <2> QED
    BY <2>1, <2>2, <2>3, <2>4, <2>5, <2>6, <2>7, <2>8, <2>9, <2>10 DEF Next
<1>3. RoleInv => RoleSettles
  BY DEF RoleInv, RoleSettles, RoleStates
<1> QED
  BY <1>1, <1>2, <1>3, TypeCorrect, PTL DEF Spec

-----------------------------------------------------------------------------
(* The heart of the election: as long as rounds and shutdowns keep their    *)
(* times, Redis answers, and no process comes back while the key still      *)
(* names its former life, a node that routes is the node the key names.     *)
LEMMA HoldInvInit == Init => HoldInv
  BY ConstantsAssumption
     DEF Init, HoldInv, TypeOK, KeyHasTtl, Clocks, Places, Belief, Lasts, Leads,
         Live, ProcStates, PcStates, RedisStates, ReplyStates

LEMMA HoldInvStep ==
  ASSUME Timely, Faults \subseteq {"dbError"}
  PROVE  TypeOK' /\ HoldInv /\ [Next]_vars => HoldInv'
<1> SUFFICES ASSUME TypeOK', HoldInv, [Next]_vars
             PROVE  HoldInv'
  OBVIOUS
<1> USE ConstantsAssumption DEF HoldInv, TypeOK, KeyHasTtl, Clocks, Places, Belief, Lasts, Leads,
        Live, Spent, ProcStates, PcStates, RedisStates, ReplyStates,
        RoleStates, Goto, redis
<1>1. ASSUME NEW n \in Nodes, Start(n) PROVE HoldInv'
  BY <1>1 DEF Start
<1>2. ASSUME NEW n \in Nodes, Crash(n) PROVE HoldInv'
  BY <1>2 DEF Crash, Terminate
<1>3. ASSUME NEW n \in Nodes, Shutdown(n) PROVE HoldInv'
  BY <1>3 DEF Shutdown
<1>4. ASSUME NEW n \in Nodes, RejectedByQuit(n) PROVE HoldInv'
  BY <1>4 DEF RejectedByQuit
<1>5. ASSUME NEW n \in Nodes, Drain(n) PROVE HoldInv'
  BY <1>5 DEF Drain
<1>6. ASSUME NEW n \in Nodes, Exit(n) PROVE HoldInv'
  BY <1>6 DEF Exit, Terminate
<1>7. ASSUME NEW n \in Nodes, RedisError(n) PROVE HoldInv'
  BY <1>7 DEF RedisError
<1>8. ASSUME NEW n \in Nodes, Round(n) PROVE HoldInv'
  <2>1. CASE Fire(n)         BY <2>1 DEF Fire
  <2>2. CASE SetNX(n)        BY <2>2 DEF SetNX, Lease
  <2>3. CASE GetMaster(n)    BY <2>3 DEF GetMaster, Verdict
  <2>4. CASE Extend(n)       BY <2>4 DEF Extend, Refreshed
  <2>5. CASE BecomeMaster(n) BY <2>5 DEF BecomeMaster
  <2>6. CASE StepDown(n)     BY <2>6 DEF StepDown, AfterTheirs
  <2>7. CASE SaveRole(n)     BY <2>7 DEF SaveRole
  <2>8. CASE TellClients(n)  BY <2>8 DEF TellClients
  <2> QED  BY <1>8, <2>1, <2>2, <2>3, <2>4, <2>5, <2>6, <2>7, <2>8 DEF Round
<1>9. CASE Tick
  BY <1>9 DEF Tick, Remaining, CanWait, Timely
<1>10. CASE UNCHANGED vars
  BY <1>10 DEF vars
<1> QED
  BY <1>1, <1>2, <1>3, <1>4, <1>5, <1>6, <1>7, <1>8, <1>9, <1>10 DEF Next

THEOREM MasterNamedByKey ==
  ASSUME Timely, Faults \subseteq {"dbError"}
  PROVE  Spec => []MasterHoldsKey
<1>1. HoldInv => MasterHoldsKey
  BY DEF HoldInv, Belief, Leads, Live, MasterHoldsKey, Routes
<1> QED
  BY <1>1, HoldInvInit, HoldInvStep, TypeCorrect, PTL DEF Spec

(* Under the same assumptions no routing request finds two nodes that       *)
(* answer it.                                                               *)
THEOREM RouterUnique ==
  ASSUME Timely, Faults \subseteq {"dbError"}
  PROVE  Spec => []OneRouter
<1>1. MasterHoldsKey => OneRouter
  BY DEF MasterHoldsKey, OneRouter
<1> QED
  BY <1>1, MasterNamedByKey, PTL

(* The EXPIRE that follows a GET by a round trip still finds the node's own *)
(* id in the key.                                                           *)
THEOREM RefreshSafe ==
  ASSUME Timely, Faults \subseteq {"dbError"}
  PROVE  Spec => RenewsOwnKey
<1>1. HoldInv /\ [Next]_vars =>
        [\A n \in Nodes :
           pc[n] = "mine" /\ pc'[n] = "renewed" => masterKey = n]_vars
  BY DEF HoldInv, TypeOK, Places, Belief, Leads, Live, ProcStates, RedisStates,
         ReplyStates
<1> QED
  BY <1>1, HoldInvInit, HoldInvStep, TypeCorrect, PTL DEF Spec, RenewsOwnKey

(* Under the same assumptions the election implements its abstract          *)
(* specification: no step of a round, a crash or a shutdown hands routing   *)
(* from one node to another.                                                *)
THEOREM ElectionKeepsPromise ==
  ASSUME Timely, Faults \subseteq {"dbError"}
  PROVE  Spec => KeepsPromise
<1> DEFINE routers == {n \in Nodes : Routes(n)}
<1>1. Init => routers = {}
  BY DEF Init, Routes
<1>2. HoldInv /\ [Next]_vars =>
        \/ UNCHANGED routers
        \/ \E n \in Nodes : \A m \in Nodes \ {n} : Routes(m)' <=> Routes(m)
  <2> SUFFICES ASSUME HoldInv, [Next]_vars, ~UNCHANGED routers
               PROVE  \E n \in Nodes : \A m \in Nodes \ {n} :
                        Routes(m)' <=> Routes(m)
    OBVIOUS
  <2> USE DEF HoldInv, TypeOK, Routes
  <2>1. ~UNCHANGED vars
    BY DEF vars
  <2>2. ~Tick
    BY DEF Tick
  <2>3. PICK n \in Nodes : \/ Round(n) \/ RedisError(n)
                           \/ Start(n) \/ Crash(n) \/ Shutdown(n)
                           \/ RejectedByQuit(n) \/ Drain(n) \/ Exit(n)
    BY <2>1, <2>2 DEF Next
  <2>4. \A m \in Nodes \ {n} : proc'[m] = proc[m] /\ isMaster'[m] = isMaster[m]
    <3>1. CASE Round(n)
      BY <3>1 DEF Round, Fire, SetNX, GetMaster, Extend, BecomeMaster,
                  StepDown, AfterTheirs, SaveRole, TellClients
    <3>2. CASE RedisError(n) \/ Start(n) \/ Shutdown(n)
      BY <3>2 DEF RedisError, Start, Shutdown
    <3>3. CASE Crash(n) \/ Exit(n)
      BY <3>3 DEF Crash, Exit, Terminate
    <3>4. CASE RejectedByQuit(n) \/ Drain(n)
      BY <3>4 DEF RejectedByQuit, Drain
    <3> QED  BY <2>3, <3>1, <3>2, <3>3, <3>4
  <2> QED
    BY <2>4
<1>3. (HoldInv => OneRouter) /\ (HoldInv' => OneRouter')
  BY DEF HoldInv, Belief, Leads, Live, OneRouter, Routes
<1>4. ASSUME OneRouter, OneRouter', NEW n \in Nodes,
             \A m \in Nodes \ {n} : Routes(m)' <=> Routes(m)
      PROVE  \/ UNCHANGED routers
             \/ routers = {} /\ routers' = {n}
             \/ routers = {n} /\ routers' = {}
  <2>1. CASE Routes(n)' <=> Routes(n)
    BY <1>4, <2>1
  <2>2. CASE Routes(n)' /\ ~Routes(n)
    <3>1. \A m \in Nodes : Routes(m)' <=> m = n
      BY <1>4, <2>2 DEF OneRouter
    <3>2. \A m \in Nodes : ~Routes(m)
      BY <1>4, <2>2, <3>1
    <3> QED  BY <3>1, <3>2
  <2>3. CASE Routes(n) /\ ~Routes(n)'
    <3>1. \A m \in Nodes : Routes(m) <=> m = n
      BY <1>4, <2>3 DEF OneRouter
    <3>2. \A m \in Nodes : ~Routes(m)'
      BY <1>4, <2>3, <3>1
    <3> QED  BY <3>1, <3>2
  <2> QED  BY <2>1, <2>2, <2>3
<1>5. HoldInv /\ HoldInv' /\ [Next]_vars => [Promise!Next]_routers
  <2> SUFFICES ASSUME HoldInv, HoldInv', [Next]_vars
               PROVE  [Promise!Next]_routers
    OBVIOUS
  <2>1. OneRouter /\ OneRouter'
    BY <1>3
  <2>2. CASE UNCHANGED routers
    BY <2>2
  <2>3. CASE ~UNCHANGED routers
    <3>1. PICK n \in Nodes : \A m \in Nodes \ {n} : Routes(m)' <=> Routes(m)
      BY <1>2, <2>3
    <3>2. \/ routers = {} /\ routers' = {n}
          \/ routers = {n} /\ routers' = {}
      BY <1>4, <2>1, <2>3, <3>1
    <3> QED  BY <3>2 DEF Promise!Next, Promise!TakeOver, Promise!GiveUp
  <2> QED  BY <2>2, <2>3
<1> QED
  BY <1>1, <1>5, HoldInvInit, HoldInvStep, TypeCorrect, PTL
  DEF Spec, KeepsPromise, Promise!Spec, Promise!Init
=============================================================================
