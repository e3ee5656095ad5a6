--------------------------- MODULE MasterElection ---------------------------
(***************************************************************************)
(* Leader election of the cluster: ClusterManager.startElection, run by    *)
(* every backend node against the Redis key "cluster:master".              *)
(*                                                                         *)
(* Every ELECTION_INTERVAL a node runs tryBecomeMaster, an async function  *)
(* that gives the event loop away at each Redis or database call.  A round *)
(* is therefore a walk through the values of pc[n]; each action is the     *)
(* code between two awaits together with the remote command it issues.     *)
(* Time is discrete.  The key's TTL counts down in Redis, and elapsed[n]   *)
(* counts up at the node: since its last round began, or, once it is       *)
(* shutting down, since the shutdown began.                                *)
(***************************************************************************)
EXTENDS Naturals

CONSTANTS
  Nodes,              \* node ids; NodeService.register gives a restarted
                      \* process the id it had before
  NoNode,             \* the key "cluster:master" does not exist
  ELECTION_INTERVAL,  \* ticks between two rounds of a node
  MASTER_TTL,         \* ticks a written or refreshed key lives
  MaxLate,            \* bound: how late the interval timer may fire
  RoundTime,          \* bound: how long a round may take
  StopTime,           \* bound: from SIGTERM to the pub/sub disconnect
  Faults,             \* which of the kinds of fault below may happen
  MaxDisruptions      \* bound: crashes, shutdowns and faults of one behaviour

FaultKinds == {"redisError", "dbError", "quickRestart"}

(* RoundTime < ELECTION_INTERVAL: setInterval starts a round whether or not *)
(* the one before has ended, so without it two rounds of a node overlap.    *)
ASSUME ConstantsAssumption ==
  /\ NoNode \notin Nodes
  /\ ELECTION_INTERVAL \in Nat /\ MASTER_TTL \in Nat \ {0}
  /\ MaxLate \in Nat /\ RoundTime \in Nat /\ StopTime \in Nat
  /\ RoundTime < ELECTION_INTERVAL
  /\ Faults \subseteq FaultKinds
  /\ MaxDisruptions \in Nat

VARIABLES
  masterKey,   \* Redis: the value of "cluster:master"
  ttl,         \* Redis: its remaining TTL; 0 on an existing key: it has none
  proc,        \* the process of each node
  isMaster,    \* ClusterManager.isMaster
  pc,          \* where each node's tryBecomeMaster is
  elapsed,     \* time since the round, or the shutdown, began
  role,        \* PostgreSQL: Node.role
  told,        \* what the last "cluster-role-change" told the node's clients
  disruptions  \* how many of MaxDisruptions have happened

redis == <<masterKey, ttl>>
vars == <<masterKey, ttl, proc, isMaster, pc, elapsed, role, told, disruptions>>

(* In "stopping" the interval is cleared and the Redis client is closing;  *)
(* in "drained" pub/sub is disconnected too, but the process lives until   *)
(* httpServer.close has seen every connection end.                         *)
ProcStates == {"down", "running", "stopping", "drained"}

(* The reply a round last received, or the call it is about to make.       *)
RedisStates == {"set", "refused", "mine"}
ReplyStates == {"acquired", "theirs", "renewed"}
RoleStates  == {"saveMaster", "saveWorker", "tellMaster", "tellWorker"}
PcStates    == {"idle"} \cup RedisStates \cup ReplyStates \cup RoleStates

TypeOK ==
  /\ masterKey \in Nodes \cup {NoNode}
  /\ ttl \in 0 .. MASTER_TTL
  /\ proc \in [Nodes -> ProcStates]
  /\ isMaster \in [Nodes -> BOOLEAN]
  /\ pc \in [Nodes -> PcStates]
  /\ elapsed \in [Nodes -> Nat]
  /\ role \in [Nodes -> {"master", "worker"}]
  /\ told \in [Nodes -> BOOLEAN]
  /\ disruptions \in 0 .. MaxDisruptions

Init ==
  /\ masterKey = NoNode
  /\ ttl = 0
  /\ proc = [n \in Nodes |-> "down"]
  /\ isMaster = [n \in Nodes |-> FALSE]
  /\ pc = [n \in Nodes |-> "idle"]
  /\ elapsed = [n \in Nodes |-> 0]
  /\ role = [n \in Nodes |-> "worker"]
  /\ told = [n \in Nodes |-> FALSE]
  /\ disruptions = 0

(* Another disruption happens, within the bound on their number.           *)
Disrupt ==
  /\ disruptions < MaxDisruptions
  /\ disruptions' = disruptions + 1

Goto(n, place) == pc' = [pc EXCEPT ![n] = place]

-----------------------------------------------------------------------------
(* The life of a process.                                                  *)

(* initialize: the node registers, keeping its old row and its old role,   *)
(* and startElection calls tryBecomeMaster at once.  Without the fault     *)
(* "quickRestart" a process comes back only after the key that its former  *)
(* life may have left has expired.                                         *)
Start(n) ==
  /\ proc[n] = "down"
  /\ masterKey = n => "quickRestart" \in Faults
  /\ proc' = [proc EXCEPT ![n] = "running"]
  /\ elapsed' = [elapsed EXCEPT ![n] = 0]
  /\ Goto(n, "set")
  /\ UNCHANGED <<redis, isMaster, role, told, disruptions>>

(* A process ends: what it held in memory is gone, Redis and the database  *)
(* keep what it wrote.                                                     *)
Terminate(n) ==
  /\ proc' = [proc EXCEPT ![n] = "down"]
  /\ isMaster' = [isMaster EXCEPT ![n] = FALSE]
  /\ told' = [told EXCEPT ![n] = FALSE]
  /\ elapsed' = [elapsed EXCEPT ![n] = 0]
  /\ Goto(n, "idle")
  /\ UNCHANGED <<redis, role>>

Crash(n) ==
  /\ proc[n] # "down"
  /\ Disrupt
  /\ Terminate(n)

(* SIGTERM: shutdown clears the interval and closes the Redis client.  The *)
(* key is not deleted and isMaster keeps its value.                        *)
Shutdown(n) ==
  /\ proc[n] = "running"
  /\ Disrupt
  /\ proc' = [proc EXCEPT ![n] = "stopping"]
  /\ elapsed' = [elapsed EXCEPT ![n] = 0]
  /\ UNCHANGED <<redis, isMaster, pc, role, told>>

(* The closing client rejects a command that a round has yet to send.      *)
RejectedByQuit(n) ==
  /\ proc[n] = "stopping"
  /\ pc[n] \in {"refused", "mine"}
  /\ Goto(n, "idle")
  /\ UNCHANGED <<redis, proc, isMaster, elapsed, role, told, disruptions>>

(* quit has resolved, so no Redis call is open; deregister has run and     *)
(* pub/sub is disconnected: the node hears no routing request any more.    *)
Drain(n) ==
  /\ proc[n] = "stopping"
  /\ pc[n] \notin RedisStates \cup ReplyStates
  /\ proc' = [proc EXCEPT ![n] = "drained"]
  /\ elapsed' = [elapsed EXCEPT ![n] = 0]
  /\ UNCHANGED <<redis, isMaster, pc, role, told, disruptions>>

(* The last connection has closed and the process exits.                   *)
Exit(n) ==
  /\ proc[n] = "drained"
  /\ Terminate(n)
  /\ UNCHANGED disruptions

-----------------------------------------------------------------------------
(* tryBecomeMaster, call by call.                                          *)

(* setInterval fires.                                                      *)
Fire(n) ==
  /\ proc[n] = "running"
  /\ pc[n] = "idle"
  /\ elapsed[n] >= ELECTION_INTERVAL
  /\ elapsed' = [elapsed EXCEPT ![n] = 0]
  /\ Goto(n, "set")
  /\ UNCHANGED <<redis, proc, isMaster, role, told, disruptions>>

(* The TTL that SET ... EX gives the key it writes.                        *)
LeaseNoEX == 0
LeaseInMs == 1000 * MASTER_TTL
Lease == MASTER_TTL

(* SET cluster:master <nodeId> NX EX MASTER_TTL.                           *)
SetNX(n) ==
  /\ proc[n] \in {"running", "stopping"}
  /\ pc[n] = "set"
  /\ \/ /\ masterKey = NoNode
        /\ masterKey' = n
        /\ ttl' = Lease
        /\ Goto(n, "acquired")
     \/ /\ masterKey # NoNode
        /\ Goto(n, "refused")
        /\ UNCHANGED redis
  /\ UNCHANGED <<proc, isMaster, elapsed, role, told, disruptions>>

(* The verdict of a round on the key it reads.                             *)
VerdictAnyKey(n) == IF masterKey # NoNode THEN "mine" ELSE "theirs"
Verdict(n) == IF masterKey = n THEN "mine" ELSE "theirs"

(* GET cluster:master, and the comparison with the node's own id.          *)
GetMaster(n) ==
  /\ proc[n] \in {"running", "stopping"}
  /\ pc[n] = "refused"
  /\ Goto(n, Verdict(n))
  /\ UNCHANGED <<redis, proc, isMaster, elapsed, role, told, disruptions>>

(* EXPIRE cluster:master MASTER_TTL: whoever holds the key by now, and     *)
(* nothing if nobody does.  The code ignores which of these it was.        *)
RefreshedNever == ttl
Refreshed == IF masterKey = NoNode THEN 0 ELSE MASTER_TTL

Extend(n) ==
  /\ proc[n] \in {"running", "stopping"}
  /\ pc[n] = "mine"
  /\ ttl' = Refreshed
  /\ Goto(n, "renewed")
  /\ UNCHANGED <<masterKey, proc, isMaster, elapsed, role, told, disruptions>>

(* The node was given the key, or found its own id in it.                  *)
BecomeMaster(n) ==
  /\ proc[n] \in {"running", "stopping"}
  /\ pc[n] \in {"acquired", "renewed"}
  /\ isMaster' = [isMaster EXCEPT ![n] = TRUE]
  /\ Goto(n, IF isMaster[n] THEN "idle" ELSE "saveMaster")
  /\ UNCHANGED <<redis, proc, elapsed, role, told, disruptions>>

(* The key names another node, or nobody.                                  *)
AfterTheirsKeeps(n) == isMaster
AfterTheirs(n) == [isMaster EXCEPT ![n] = FALSE]

StepDown(n) ==
  /\ proc[n] \in {"running", "stopping"}
  /\ pc[n] = "theirs"
  /\ isMaster' = AfterTheirs(n)
  /\ Goto(n, IF isMaster[n] THEN "saveWorker" ELSE "idle")
  /\ UNCHANGED <<redis, proc, elapsed, role, told, disruptions>>

(* NodeService.updateRole, which logs a database error and returns.        *)
SaveRole(n) ==
  /\ proc[n] # "down"
  /\ \/ pc[n] = "saveMaster" /\ Goto(n, "tellMaster")
     \/ pc[n] = "saveWorker" /\ Goto(n, "tellWorker")
  /\ \/ /\ role' = [role EXCEPT ![n] =
                      IF pc[n] = "saveMaster" THEN "master" ELSE "worker"]
        /\ UNCHANGED disruptions
     \/ /\ "dbError" \in Faults
        /\ Disrupt
        /\ UNCHANGED role
  /\ UNCHANGED <<redis, proc, isMaster, elapsed, told>>

(* notifyLocalClientsOfRoleChange.                                         *)
ToldOnlyMaster(n) ==
  [told EXCEPT ![n] = told[n] \/ pc[n] = "tellMaster"]
ToldRole(n) == [told EXCEPT ![n] = pc[n] = "tellMaster"]

TellClients(n) ==
  /\ proc[n] # "down"
  /\ pc[n] \in {"tellMaster", "tellWorker"}
  /\ told' = ToldRole(n)
  /\ Goto(n, "idle")
  /\ UNCHANGED <<redis, proc, isMaster, elapsed, role, disruptions>>

(* A command fails, before or after Redis has executed it: the round ends  *)
(* in the catch block, and isMaster keeps its value.                       *)
RedisError(n) ==
  /\ "redisError" \in Faults
  /\ proc[n] \in {"running", "stopping"}
  /\ pc[n] \in RedisStates \cup ReplyStates
  /\ Disrupt
  /\ Goto(n, "idle")
  /\ UNCHANGED <<redis, proc, isMaster, elapsed, role, told>>

-----------------------------------------------------------------------------
(* Time.                                                                   *)

(* The node may let one more tick pass before its next step.               *)
CanWait(n) ==
  CASE proc[n] \in {"down", "drained"} -> TRUE
    [] proc[n] = "stopping" -> elapsed[n] < StopTime
    [] proc[n] = "running" /\ pc[n] = "idle" ->
         elapsed[n] < ELECTION_INTERVAL + MaxLate
    [] OTHER -> elapsed[n] < RoundTime

Remaining == IF ttl = 0 THEN 0 ELSE ttl - 1

Tick ==
  /\ \A n \in Nodes : CanWait(n)
  /\ ttl' = Remaining
  /\ masterKey' = IF ttl = 1 THEN NoNode ELSE masterKey
  /\ elapsed' = [n \in Nodes |->
       IF proc[n] \in {"running", "stopping"} THEN elapsed[n] + 1
                                              ELSE elapsed[n]]
  /\ UNCHANGED <<proc, isMaster, pc, role, told, disruptions>>

-----------------------------------------------------------------------------
Round(n) ==
  \/ Fire(n) \/ SetNX(n) \/ GetMaster(n) \/ Extend(n)
  \/ BecomeMaster(n) \/ StepDown(n) \/ SaveRole(n) \/ TellClients(n)

Next ==
  \/ \E n \in Nodes :
       \/ Round(n) \/ RedisError(n)
       \/ Start(n) \/ Crash(n) \/ Shutdown(n)
       \/ RejectedByQuit(n) \/ Drain(n) \/ Exit(n)
  \/ Tick

Spec == Init /\ [][Next]_vars

(* Time passes, timers of a running process fire and its calls return, and *)
(* a shutdown that has begun runs to the pub/sub disconnect.  Nothing      *)
(* obliges a process to start, to crash, to be told to stop, or to lose    *)
(* its last connection.                                                    *)
Fairness ==
  /\ WF_vars(Tick)
  /\ \A n \in Nodes : WF_vars(Round(n)) /\ WF_vars(Drain(n))

FairSpec == Spec /\ Fairness

-----------------------------------------------------------------------------
(* Properties.                                                             *)

(* The node answers routing requests (cluster.service.ts:223).             *)
Routes(n) == isMaster[n] /\ proc[n] \in {"running", "stopping"}

(* Every refresh comes before the key expires, with enough left for a      *)
(* shutdown that begins just before the next refresh is due.               *)
Timely == ELECTION_INTERVAL + MaxLate + RoundTime + StopTime < MASTER_TTL

(* "The node holding the lock acts as the Master": a node that answers     *)
(* routing requests as master is named by the Redis key, at every moment,  *)
(* although it remembers its mastership in isMaster and does not look.     *)
MasterHoldsKey == \A n \in Nodes : Routes(n) => masterKey = n

(* Only one node answers routing requests: a request is dispatched once.   *)
OneRouter == \A m, n \in Nodes : Routes(m) /\ Routes(n) => m = n

(* The election implements Mastership: what a node does at its Redis calls *)
(* and in its shutdown amounts to taking over from nobody and giving up.    *)
Promise == INSTANCE Mastership WITH routers <- {n \in Nodes : Routes(n)}
KeepsPromise == Promise!Spec

(* A node that is between two rounds has told its clients the role it has, *)
(* and a master's row in the database says so.                             *)
RoleSettles ==
  \A n \in Nodes :
    proc[n] = "running" /\ pc[n] = "idle" =>
      /\ told[n] = isMaster[n]
      /\ isMaster[n] => role[n] = "master"

(* The EXPIRE of a round only ever prolongs the key of the node itself,    *)
(* although the GET that justified it is a round trip older.               *)
RenewsOwnKey ==
  [][\A n \in Nodes :
       pc[n] = "mine" /\ pc'[n] = "renewed" => masterKey = n]_vars

(* "If the Master goes down, another node can take over automatically":    *)
(* as long as a node runs, some running node becomes master.               *)
Failover ==
  \A n \in Nodes :
    proc[n] = "running" ~>
      \/ proc[n] # "running"
      \/ \E m \in Nodes : proc[m] = "running" /\ isMaster[m]

(* A node that still acts as master after losing the key, to a stall or to *)
(* failing Redis calls, finds out: it steps down or regains the key.       *)
StaleMasterYields ==
  \A n \in Nodes :
    Routes(n) /\ masterKey # n ~> ~Routes(n) \/ masterKey = n
=============================================================================
