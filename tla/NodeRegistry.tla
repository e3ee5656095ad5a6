---------------------------- MODULE NodeRegistry ----------------------------
(***************************************************************************)
(* The tables Node and Session in PostgreSQL, and those who keep them:     *)
(* registration, heartbeat, cleanup and deregistration of the nodes        *)
(* (node.service.ts, prisma.service.ts), and the sessions their clients'   *)
(* sockets have (session.service.ts).                                      *)
(*                                                                         *)
(* An action is one database statement, or a read and a write of one row   *)
(* by its key.  The cleanup of every node is a sequence of five, which     *)
(* those of other nodes, registrations and connections interleave with.    *)
(* Time is discrete; ages are counted up to the first one that is too old, *)
(* which is as good as any later.                                          *)
(***************************************************************************)
EXTENDS Naturals

CONSTANTS
  Nodes,               \* hostname and port, which give a node its id
  Sockets,             \* each is opened once
  None,                \* no row, or no connection
  HEARTBEAT_INTERVAL,  \* ticks between two heartbeats of a node
  DEAD_AFTER,          \* ticks without heartbeat after which a node is dead
  MaxLate,             \* bound: how late the heartbeat timer may fire
  Faults,              \* whether statements may fail
  MaxDisruptions       \* bound: crashes, shutdowns and faults of one behaviour

ASSUME ConstantsAssumption ==
  /\ None \notin Nodes
  /\ HEARTBEAT_INTERVAL \in Nat /\ DEAD_AFTER \in Nat /\ MaxLate \in Nat
  /\ Faults \subseteq {"dbError"}
  /\ MaxDisruptions \in Nat

VARIABLES
  status,      \* Node.status
  age,         \* how long ago Node.lastHeartbeat is
  session,     \* Session: the row of each socket
  proc,        \* the process of each node
  beat,        \* time since its heartbeat timer last fired
  at,          \* the node a socket is connected to
  creating,    \* the node whose createSession for a socket is under way
  opened,      \* the sockets that have been opened
  sweep,       \* where each node's cleanup is, and the dead nodes it has read
  exposed,     \* sockets whose row was created while a cleanup had their node
               \* among the dead it had read
  disruptions

tables == <<status, age, session>>
sockets == <<at, creating, opened>>
vars == <<tables, proc, beat, sockets, sweep, exposed, disruptions>>

(* "stopping" and "stopped": deregister is about to update the sessions,   *)
(* or the node; "drained": the process waits for its connections to end.   *)
ProcStates == {"down", "running", "stopping", "stopped", "drained"}

Calls == {"none", "find", "deactivate", "delete", "mark"}

IdleSweep == [call |-> "none", dead |-> {}]

TypeOK ==
  /\ status \in [Nodes -> {"active", "inactive", "dead", None}]
  /\ age \in [Nodes -> 0 .. DEAD_AFTER + 1]
  /\ session \in [Sockets -> [node : Nodes, active : BOOLEAN] \cup {None}]
  /\ proc \in [Nodes -> ProcStates]
  /\ beat \in [Nodes -> 0 .. HEARTBEAT_INTERVAL + MaxLate]
  /\ at \in [Sockets -> Nodes \cup {None}]
  /\ creating \in [Sockets -> Nodes \cup {None}]
  /\ opened \subseteq Sockets
  /\ sweep \in [Nodes -> [call : Calls, dead : SUBSET Nodes]]
  /\ exposed \subseteq Sockets
  /\ disruptions \in 0 .. MaxDisruptions

Init ==
  /\ status = [n \in Nodes |-> None]
  /\ age = [n \in Nodes |-> 0]
  /\ session = [s \in Sockets |-> None]
  /\ proc = [n \in Nodes |-> "down"]
  /\ beat = [n \in Nodes |-> 0]
  /\ at = [s \in Sockets |-> None]
  /\ creating = [s \in Sockets |-> None]
  /\ opened = {}
  /\ sweep = [n \in Nodes |-> IdleSweep]
  /\ exposed = {}
  /\ disruptions = 0

Disrupt ==
  /\ disruptions < MaxDisruptions
  /\ disruptions' = disruptions + 1

(* A statement is executed, or fails: the error is logged.                 *)
Executed == UNCHANGED disruptions
DbError == "dbError" \in Faults /\ Disrupt

-----------------------------------------------------------------------------
(* A node and its process.                                                 *)

(* register finds the row by hostname and port, or creates it, and writes  *)
(* the status and the time of the heartbeat; both timers start.            *)
Registered(n) == [age EXCEPT ![n] = 0]

Register(n) ==
  /\ proc[n] = "down"
  /\ status' = [status EXCEPT ![n] = "active"]
  /\ age' = Registered(n)
  /\ proc' = [proc EXCEPT ![n] = "running"]
  /\ beat' = [beat EXCEPT ![n] = 0]
  /\ UNCHANGED <<session, sockets, sweep, exposed, disruptions>>

(* The heartbeat writes its time, and leaves the status as it is.          *)
Heartbeat(n) ==
  /\ proc[n] = "running"
  /\ beat[n] >= HEARTBEAT_INTERVAL
  /\ beat' = [beat EXCEPT ![n] = 0]
  /\ \/ Executed /\ age' = [age EXCEPT ![n] = 0]
     \/ DbError /\ UNCHANGED age
  /\ UNCHANGED <<status, session, proc, sockets, sweep, exposed>>

(* A process ends; no disconnect of its sockets is handled any more.       *)
Terminate(n) ==
  /\ proc' = [proc EXCEPT ![n] = "down"]
  /\ beat' = [beat EXCEPT ![n] = 0]
  /\ at' = [s \in Sockets |-> IF at[s] = n THEN None ELSE at[s]]
  /\ creating' = [s \in Sockets |-> IF creating[s] = n THEN None ELSE creating[s]]
  /\ sweep' = [sweep EXCEPT ![n] = IdleSweep]
  /\ UNCHANGED <<tables, opened, exposed>>

Crash(n) ==
  /\ proc[n] # "down"
  /\ Disrupt
  /\ Terminate(n)

(* SIGTERM: deregister stops the timers.                                   *)
Shutdown(n) ==
  /\ proc[n] = "running"
  /\ Disrupt
  /\ proc' = [proc EXCEPT ![n] = "stopping"]
  /\ beat' = [beat EXCEPT ![n] = 0]
  /\ UNCHANGED <<tables, sockets, sweep, exposed>>

(* The sessions of a set of nodes become inactive.                         *)
DeactivatedAll(nodes) ==
  [s \in Sockets |->
     IF session[s] # None THEN [session[s] EXCEPT !.active = FALSE] ELSE None]

Deactivated(nodes) ==
  [s \in Sockets |->
     IF session[s] # None /\ session[s].node \in nodes
     THEN [session[s] EXCEPT !.active = FALSE]
     ELSE session[s]]

DeregisterSessions(n) ==
  /\ proc[n] = "stopping"
  /\ \/ /\ Executed
        /\ session' = Deactivated({n})
        /\ proc' = [proc EXCEPT ![n] = "stopped"]
     \/ /\ DbError
        /\ proc' = [proc EXCEPT ![n] = "drained"]
        /\ UNCHANGED session
  /\ UNCHANGED <<status, age, beat, sockets, sweep, exposed>>

DeregisteredFreely(n) == [status EXCEPT ![n] = "disconnected"]
Deregistered(n) == [status EXCEPT ![n] = "inactive"]

DeregisterNode(n) ==
  /\ proc[n] = "stopped"
  /\ \/ Executed /\ status' = Deregistered(n)
     \/ DbError /\ UNCHANGED status
  /\ proc' = [proc EXCEPT ![n] = "drained"]
  /\ UNCHANGED <<age, session, beat, sockets, sweep, exposed>>

(* httpServer.close has seen every connection end.                         *)
Exit(n) ==
  /\ proc[n] = "drained"
  /\ \A s \in Sockets : at[s] # n
  /\ Terminate(n)
  /\ UNCHANGED disruptions

-----------------------------------------------------------------------------
(* Sockets and their sessions.                                             *)

(* A client registers on its socket, and createSession begins.             *)
Connect(s, n) ==
  /\ s \notin opened
  /\ proc[n] # "down"
  /\ opened' = opened \cup {s}
  /\ at' = [at EXCEPT ![s] = n]
  /\ creating' = [creating EXCEPT ![s] = n]
  /\ UNCHANGED <<tables, proc, beat, sweep, exposed, disruptions>>

(* The row is created, be the socket still open or not; an error leaves    *)
(* the client without one.                                                 *)
CreateSession(s) ==
  /\ creating[s] # None
  /\ creating' = [creating EXCEPT ![s] = None]
  /\ \/ /\ Executed
        /\ session' = [session EXCEPT ![s] = [node |-> creating[s], active |-> TRUE]]
        /\ exposed' = IF \E n \in Nodes : creating[s] \in sweep[n].dead
                      THEN exposed \cup {s} ELSE exposed
     \/ DbError /\ UNCHANGED <<session, exposed>>
  /\ UNCHANGED <<status, age, proc, beat, at, opened, sweep>>

(* removeSession deletes the row, if there is one by now; an error leaves  *)
(* it there.                                                               *)
Disconnect(s) ==
  /\ at[s] # None
  /\ at' = [at EXCEPT ![s] = None]
  /\ \/ Executed /\ session' = [session EXCEPT ![s] = None]
     \/ DbError /\ UNCHANGED session
  /\ UNCHANGED <<status, age, proc, beat, creating, opened, sweep, exposed>>

-----------------------------------------------------------------------------
(* The cleanup of a node: cleanupDeadNodes, then PrismaService.cleanup.    *)

StaleEarly(n) == status[n] = "active" /\ age[n] >= DEAD_AFTER
StaleInactive(n) == status[n] = "inactive" /\ age[n] > DEAD_AFTER
Stale(n) == status[n] = "active" /\ age[n] > DEAD_AFTER

MarkedDead == [n \in Nodes |-> IF Stale(n) THEN "dead" ELSE status[n]]

Goto(n, call) == sweep' = [sweep EXCEPT ![n] = [IdleSweep EXCEPT !.call = call]]

(* An error in cleanupDeadNodes is logged, and cleanup comes next.         *)
SkipToCleanup(n) ==
  /\ DbError
  /\ Goto(n, "delete")
  /\ UNCHANGED tables

(* Stale nodes become dead; if there were any, their sessions come next.   *)
MarkDead(n) ==
  /\ proc[n] = "running"
  /\ sweep[n].call = "none"
  /\ \/ /\ Executed
        /\ status' = MarkedDead
        /\ Goto(n, IF \E m \in Nodes : Stale(m) THEN "find" ELSE "delete")
        /\ UNCHANGED <<age, session>>
     \/ SkipToCleanup(n)
  /\ UNCHANGED <<proc, beat, sockets, exposed>>

(* All nodes that are dead now, not only those just marked.                *)
FindDead(n) ==
  /\ sweep[n].call = "find"
  /\ \/ /\ Executed
        /\ sweep' = [sweep EXCEPT ![n] =
             [call |-> "deactivate", dead |-> {m \in Nodes : status[m] = "dead"}]]
        /\ UNCHANGED tables
     \/ SkipToCleanup(n)
  /\ UNCHANGED <<proc, beat, sockets, exposed>>

DeactivateSessions(n) ==
  /\ sweep[n].call = "deactivate"
  /\ \/ /\ Executed
        /\ session' = Deactivated(sweep[n].dead)
        /\ Goto(n, "delete")
        /\ UNCHANGED <<status, age>>
     \/ SkipToCleanup(n)
  /\ UNCHANGED <<proc, beat, sockets, exposed>>

(* PrismaService.cleanup deletes rows that have been inactive for a day,   *)
(* which may be any inactive row ...                                       *)
DeleteSessions(n) ==
  /\ sweep[n].call = "delete"
  /\ \/ /\ Executed
        /\ \E old \in SUBSET {s \in Sockets :
                                session[s] # None /\ ~session[s].active} :
             session' = [s \in Sockets |-> IF s \in old THEN None ELSE session[s]]
        /\ Goto(n, "mark")
     \/ DbError /\ Goto(n, "none") /\ UNCHANGED session
  /\ UNCHANGED <<status, age, proc, beat, sockets, exposed>>

(* ... and marks stale nodes as dead too, without a look at their sessions. *)
MarkDeadAgain(n) ==
  /\ sweep[n].call = "mark"
  /\ \/ Executed /\ status' = MarkedDead
     \/ DbError /\ UNCHANGED status
  /\ Goto(n, "none")
  /\ UNCHANGED <<age, session, proc, beat, sockets, exposed>>

-----------------------------------------------------------------------------
(* Time passes; a running node's heartbeat timer fires at last.            *)
Tick ==
  /\ \A n \in Nodes :
       proc[n] = "running" => beat[n] < HEARTBEAT_INTERVAL + MaxLate
  /\ age' = [n \in Nodes |-> IF age[n] > DEAD_AFTER THEN age[n] ELSE age[n] + 1]
  /\ beat' = [n \in Nodes |->
                IF proc[n] = "running" THEN beat[n] + 1 ELSE beat[n]]
  /\ UNCHANGED <<status, session, proc, sockets, sweep, exposed, disruptions>>

-----------------------------------------------------------------------------
Sweep(n) ==
  \/ MarkDead(n) \/ FindDead(n) \/ DeactivateSessions(n)
  \/ DeleteSessions(n) \/ MarkDeadAgain(n)

Deregister(n) == DeregisterSessions(n) \/ DeregisterNode(n)

Next ==
  \/ \E n \in Nodes :
       \/ Register(n) \/ Heartbeat(n) \/ Crash(n) \/ Shutdown(n)
       \/ Deregister(n) \/ Exit(n) \/ Sweep(n)
       \/ \E s \in Sockets : Connect(s, n)
  \/ \E s \in Sockets : CreateSession(s) \/ Disconnect(s)
  \/ Tick

Spec == Init /\ [][Next]_vars

(* Time passes, timers fire and statements return.                         *)
Fairness ==
  /\ WF_vars(Tick)
  /\ \A n \in Nodes : WF_vars(Heartbeat(n)) /\ WF_vars(Sweep(n))

FairSpec == Spec /\ Fairness

-----------------------------------------------------------------------------
(* Properties.                                                             *)

(* Heartbeats are frequent enough for a node to stay active, however many  *)
(* of them the disruptions swallow.                                        *)
Frequent ==
  (MaxDisruptions + 1) * (HEARTBEAT_INTERVAL + MaxLate) <= DEAD_AFTER

(* "Start heartbeat to keep node alive in cluster": nobody's cleanup marks *)
(* a running node as dead, although some of its heartbeats may fail.       *)
RunningIsActive == \A n \in Nodes : proc[n] = "running" => status[n] = "active"

(* The session of an open socket stays active while its node runs,         *)
(* whatever cleanups, crashes and restarts there are, but for one created  *)
(* while a cleanup had read the id of the node among the dead, in a former *)
(* life of it, and had not updated their sessions yet.  Neither a cleanup  *)
(* before nor one after does any harm.                                     *)
OpenIsActive ==
  \A s \in Sockets \ exposed :
    /\ at[s] # None /\ session[s] # None
    /\ proc[at[s]] = "running"
    => session[s] = [node |-> at[s], active |-> TRUE]

(* "Mark nodes as dead if they haven't sent heartbeat": a node that has    *)
(* crashed does not stay active in a cluster that goes on.                 *)
CrashIsNoticed ==
  \A n \in Nodes :
    proc[n] = "down" /\ status[n] = "active" ~>
      \/ status[n] # "active" \/ proc[n] # "down"
      \/ \A m \in Nodes : proc[m] # "running"
=============================================================================
