---------------------------- MODULE RoutingProofs ----------------------------
(* What Routing guarantees for every number of nodes, clients, sockets,      *)
(* messages and disruptions.                                                 *)
EXTENDS Routing, TLAPS

(* Sockets that others name have been opened, and nothing is under way for  *)
(* one that has not.                                                        *)
Opened(s) == client[s] # None /\ node[s] # None

Known ==
  /\ \A s \in Sockets :
       /\ s \in open \cup rows => Opened(s)
       /\ registering[s] # "none" \/ leaving[s] # "none" => Opened(s)
       /\ client[s] = None <=> node[s] = None
  /\ \A c \in Clients : session[c] # None => Opened(session[c])
  /\ \A m \in Messages, n \in Nodes :
       /\ task[m][n].found # None => Opened(task[m][n].found)
       /\ \A s \in task[m][n].todo : Opened(s)
  /\ \A p \in wire : p.kind # "request" => p.socket # None

(* A socket that nothing excuses, from its row to the end of its row.       *)
Rowed(s) ==
  /\ s \in open => leaving[s] = "none"
  /\ client[s] # None /\ s \notin excused =>
       /\ registering[s] = "row" => s \notin rows /\ s \in open
       /\ registering[s] # "row" =>
            /\ leaving[s] = "none" => (s \in open <=> s \in rows)
            /\ leaving[s] = "remove" => s \in rows /\ s \notin open
            /\ leaving[s] \in {"forget", "scan", "mark"} =>
                 s \notin rows /\ s \notin open

Excused == \A n \in Nodes : proc[n] = "down" => SocketsAt(n) \subseteq excused

Inv == TypeOK /\ Known /\ Excused /\ \A s \in Sockets : Rowed(s)

-----------------------------------------------------------------------------
LEMMA IdleTyped ==
  /\ Idle \in Tasks /\ Idle.step = "none" /\ Idle.found = None
  /\ Idle.todo = {} /\ Idle.request = FALSE
BY DEF Idle, Tasks

LEMMA TaskMoves ==
  ASSUME TypeOK, NEW m \in Messages, NEW n \in Nodes, NEW t \in Tasks,
         Task(m, n, t)
  PROVE  /\ task' \in [Messages -> [Nodes -> Tasks]]
         /\ task'[m][n] = t
         /\ \A k \in Messages, l \in Nodes :
              k # m \/ l # n => task'[k][l] = task[k][l]
<1>1. task' = [task EXCEPT ![m] = [task[m] EXCEPT ![n] = t]]
  BY DEF Task
<1>2. [task[m] EXCEPT ![n] = t] \in [Nodes -> Tasks]
  BY DEF TypeOK
<1> QED  BY <1>1, <1>2 DEF TypeOK

LEMMA DisruptTyped ==
  ASSUME TypeOK, NEW fault, Disrupt(fault)
  PROVE  disruptions' \in 0 .. MaxDisruptions
BY ConstantsAssumption DEF TypeOK, Disrupt

LEMMA DisturbsTyped ==
  ASSUME TypeOK, NEW clients, Disturbs(clients)
  PROVE  sure' \in SUBSET Messages
BY DEF TypeOK, Disturbs

LEMMA EmitTyped ==
  ASSUME TypeOK, NEW d \in Deliveries, Emit(d)
  PROVE  delivered' \in SUBSET Deliveries /\ twice' \in SUBSET delivered'
BY DEF TypeOK, Emit

LEMMA DeliveryTyped ==
  ASSUME NEW m \in Messages, NEW s \in Sockets, NEW a \in Sockets,
         NEW via \in {"local", "session", "row"}, NEW n \in Nodes
  PROVE  Delivery(m, s, a, via, n) \in Deliveries
BY DEF Delivery, Deliveries

LEMMA PacketTyped ==
  ASSUME NEW to \in Nodes, NEW m \in Messages,
         NEW kind \in {"request", "session", "row"},
         NEW s \in Sockets \cup {None}, NEW named \in BOOLEAN, NEW n \in Nodes
  PROVE  Packet(to, m, kind, s, named, n) \in Packets
BY DEF Packet, Packets

LEMMA PublishTyped ==
  ASSUME TypeOK, NEW packets \in SUBSET Packets, Publish(packets)
  PROVE  wire' \in SUBSET Packets
BY DEF TypeOK, Publish

(* What a node that ends leaves of the types.                               *)
LEMMA EndsTyped ==
  ASSUME TypeOK, NEW n \in Nodes, Ends(n), disruptions' \in 0 .. MaxDisruptions
  PROVE  TypeOK'
<1> DEFINE S == SocketsAt(n)
<1>1. /\ proc' \in [Nodes -> {"down", "joining", "ready"}]
      /\ isMaster' \in SUBSET Nodes
      /\ open' \in SUBSET Sockets /\ excused' \in SUBSET Sockets
      /\ wire' \in SUBSET Packets
  BY DEF TypeOK, Ends, SocketsAt
<1>2. /\ registering' \in [Sockets -> {"none", "row", "cache"}]
      /\ leaving' \in [Sockets -> {"none", "remove", "forget", "scan", "mark"}]
  BY DEF TypeOK, Ends
<1>3. localClients' \in [Nodes -> [Clients -> Sockets \cup {None}]]
  BY DEF TypeOK, Ends
<1>4. task' \in [Messages -> [Nodes -> Tasks]]
  BY IdleTyped DEF TypeOK, Ends
<1>5. sure' \in SUBSET Messages
  BY DisturbsTyped DEF Ends
<1>6. UNCHANGED <<client, node, session, rows, target, delivered, twice>>
  BY DEF Ends
<1> QED  BY <1>1, <1>2, <1>3, <1>4, <1>5, <1>6 DEF TypeOK

LEMMA TypeStep == Inv /\ [Next]_vars => TypeOK'
<1> SUFFICES ASSUME Inv, [Next]_vars PROVE TypeOK'
  OBVIOUS
<1>a. /\ TypeOK /\ Known
      /\ client \in [Sockets -> Clients \cup {None}]
      /\ node \in [Sockets -> Nodes \cup {None}]
      /\ open \in SUBSET Sockets /\ rows \in SUBSET Sockets
      /\ localClients \in [Nodes -> [Clients -> Sockets \cup {None}]]
      /\ task \in [Messages -> [Nodes -> Tasks]]
      /\ session \in [Clients -> Sockets \cup {None}]
      /\ wire \in SUBSET Packets
  BY DEF Inv, TypeOK
<1>b. \A s \in Sockets : Opened(s) => client[s] \in Clients /\ node[s] \in Nodes
  BY <1>a DEF Opened
<1> USE DEF nodes, sockets, stores, mail
<1>1. ASSUME NEW s \in Sockets, NEW c \in Clients, NEW n \in Nodes,
             Register(s, c, n)
      PROVE  TypeOK'
  BY <1>1, DisturbsTyped, <1>a DEF Register, TypeOK
<1>2. ASSUME NEW s \in Sockets, CreateRow(s) PROVE TypeOK'
  BY <1>2, DisruptTyped, <1>a DEF CreateRow, TypeOK
<1>3. ASSUME NEW s \in Sockets, CacheLocally(s) PROVE TypeOK'
  <2>1. Opened(s) /\ client[s] \in Clients /\ node[s] \in Nodes
    BY <1>3, <1>a, <1>b DEF CacheLocally, Known
  <2>2. localClients' = [localClients EXCEPT ![node[s]] =
                           [localClients[node[s]] EXCEPT ![client[s]] = s]]
    BY <1>3 DEF CacheLocally
  <2>3. localClients' \in [Nodes -> [Clients -> Sockets \cup {None}]]
    BY <1>a, <2>1, <2>2
  <2> QED  BY <1>3, <1>a, <2>3 DEF CacheLocally, TypeOK
<1>4. ASSUME NEW s \in Sockets, Close(s) PROVE TypeOK'
  BY <1>4, DisturbsTyped, <1>a DEF Close, TypeOK
<1>5. ASSUME NEW s \in Sockets, RemoveRow(s) PROVE TypeOK'
  <2>1. disruptions' \in 0 .. MaxDisruptions
    BY <1>5, <1>a, DisruptTyped DEF RemoveRow, TypeOK
  <2>2. rows' \in SUBSET Sockets /\ excused' \in SUBSET Sockets
    BY <1>5, <1>a DEF RemoveRow, WithoutRow, TypeOK
  <2>3. /\ leaving' \in [Sockets -> {"none", "remove", "forget", "scan", "mark"}]
        /\ UNCHANGED <<nodes, client, node, open, registering, mail>>
    <3>1. PICK next \in {"forget", "scan"} : LeaveStep(s, "remove", next)
      BY <1>5 DEF RemoveRow
    <3> QED  BY <1>a, <3>1 DEF LeaveStep, TypeOK
  <2>4. UNCHANGED <<session, localClients, sure>>
    BY <1>5 DEF RemoveRow
  <2> QED  BY <1>a, <2>1, <2>2, <2>3, <2>4 DEF TypeOK
<1>6. ASSUME NEW s \in Sockets, Forget(s) PROVE TypeOK'
  <2>1. leaving[s] = "forget"
    BY <1>6 DEF Forget, LeaveStep
  <2>2. Opened(s) /\ client[s] \in Clients /\ node[s] \in Nodes
    BY <2>1, <1>a, <1>b DEF Known
  <2>3. localClients' = [localClients EXCEPT ![node[s]] =
                           [localClients[node[s]] EXCEPT ![client[s]] = None]]
    BY <1>6 DEF Forget, Forgotten
  <2>4. localClients' \in [Nodes -> [Clients -> Sockets \cup {None}]]
    BY <1>a, <2>2, <2>3
  <2> QED  BY <1>6, <1>a, <2>4 DEF Forget, LeaveStep, AfterScan, TypeOK
<1>7. ASSUME NEW s \in Sockets, ScanSessions(s) PROVE TypeOK'
  BY <1>7, <1>a DEF ScanSessions, LeaveStep, AfterScan, TypeOK
<1>8. ASSUME NEW s \in Sockets, MarkGone(s) PROVE TypeOK'
  BY <1>8, <1>a, DisturbsTyped DEF MarkGone, LeaveStep, TypeOK
<1>9. ASSUME NEW c \in Clients, ExpireSession(c) PROVE TypeOK'
  BY <1>9, <1>a, DisturbsTyped, DisruptTyped DEF ExpireSession, TypeOK
<1>10. ASSUME NEW m \in Messages, NEW n \in Nodes, NEW c \in Clients,
              Send(m, n, c)
       PROVE  TypeOK'
  <2> DEFINE s == localClients[n][c]
  <2>1. PICK found \in {session[c], None} :
          /\ sure' = IF Settled(n, c, found) THEN sure \cup {m} ELSE sure
          /\ \/ /\ Cached(s) /\ found = session[c]
                /\ Emit(Delivery(m, s, s, "local", n))
                /\ UNCHANGED <<localClients, task, disruptions>>
             \/ /\ ~Cached(s)
                /\ localClients' = [localClients EXCEPT ![n][c] = None]
                /\ Task(m, n, [Idle EXCEPT !.step = "resolve", !.found = found])
                /\ \/ found = session[c] /\ UNCHANGED disruptions
                   \/ found = None /\ Disrupt("redisError")
                /\ NoEmit
    BY <1>10 DEF Send
  <2>2. /\ target' \in [Messages -> Clients \cup {None}]
        /\ UNCHANGED <<nodes, sockets, session, rows, wire, excused>>
        /\ sure' \in SUBSET Messages
    BY <1>10, <1>a, <2>1 DEF Send, TypeOK
  <2>3. CASE /\ Cached(s) /\ Emit(Delivery(m, s, s, "local", n))
             /\ UNCHANGED <<localClients, task, disruptions>>
    <3>1. s \in Sockets
      BY <2>3, <1>a DEF Cached
    <3>2. Delivery(m, s, s, "local", n) \in Deliveries
      BY <3>1, DeliveryTyped
    <3>3. delivered' \in SUBSET Deliveries /\ twice' \in SUBSET delivered'
      BY <2>3, <3>2, <1>a, EmitTyped
    <3> QED  BY <2>2, <2>3, <3>3, <1>a DEF TypeOK
  <2>4. CASE /\ localClients' = [localClients EXCEPT ![n][c] = None]
             /\ Task(m, n, [Idle EXCEPT !.step = "resolve", !.found = found])
             /\ UNCHANGED disruptions \/ Disrupt("redisError")
             /\ NoEmit
    <3>1. localClients' \in [Nodes -> [Clients -> Sockets \cup {None}]]
      BY <2>4, <1>a
    <3>2. [Idle EXCEPT !.step = "resolve", !.found = found] \in Tasks
      BY <1>a DEF Idle, Tasks
    <3>3. task' \in [Messages -> [Nodes -> Tasks]]
      BY <2>4, <3>2, <1>a, TaskMoves
    <3>4. disruptions' \in 0 .. MaxDisruptions
      BY <2>4, <1>a, DisruptTyped DEF TypeOK
    <3> QED  BY <2>2, <2>4, <3>1, <3>3, <3>4, <1>a DEF TypeOK, NoEmit
  <2> QED  BY <2>1, <2>3, <2>4
(* A task goes on without changing more than itself, what is delivered and  *)
(* what is under way to other nodes.                                        *)
<1>c. ASSUME NEW m \in Messages, NEW n \in Nodes, NEW t \in Tasks, Task(m, n, t),
             delivered' \in SUBSET Deliveries, twice' \in SUBSET delivered',
             wire' \in SUBSET Packets, sure' \in SUBSET Messages,
             disruptions' \in 0 .. MaxDisruptions,
             UNCHANGED <<nodes, sockets, stores, target, excused>>
      PROVE  TypeOK'
  <2>1. task' \in [Messages -> [Nodes -> Tasks]]
    BY <1>c, <1>a, TaskMoves
  <2> QED  BY <1>c, <1>a, <2>1 DEF TypeOK
<1>d. /\ delivered \in SUBSET Deliveries /\ twice \in SUBSET delivered
      /\ sure \in SUBSET Messages /\ disruptions \in 0 .. MaxDisruptions
  BY <1>a DEF TypeOK
<1>11. ASSUME NEW m \in Messages, NEW n \in Nodes, Resolve(m, n) PROVE TypeOK'
  <2> DEFINE s == task[m][n].found
  <2>1. /\ s # None /\ Task(m, n, Idle)
        /\ IF node[s] = n
           THEN EmitIfOpen(m, s, "session", n) /\ UNCHANGED wire
           ELSE Publish(ToSession(m, n, s)) /\ NoEmit
        /\ UNCHANGED <<nodes, sockets, stores, target, sure, excused, disruptions>>
    BY <1>11 DEF Resolve
  <2>2. s \in Sockets /\ node[s] \in Nodes
    <3>1. task[m][n] \in Tasks
      BY <1>a
    <3> QED  BY <1>a, <1>b, <2>1, <3>1 DEF Known, Tasks
  <2>3. delivered' \in SUBSET Deliveries /\ twice' \in SUBSET delivered'
    <3>1. Delivery(m, s, s, "session", n) \in Deliveries
      BY <2>2, DeliveryTyped
    <3> QED  BY <2>1, <3>1, <1>a, <1>d, EmitTyped DEF EmitIfOpen, NoEmit
  <2>4. wire' \in SUBSET Packets
    <3>1. Packet(node[s], m, "session", s, TRUE, n) \in Packets
      BY <2>2, PacketTyped
    <3>2. ToSession(m, n, s) \in SUBSET Packets
      BY <3>1 DEF ToSession
    <3> QED  BY <2>1, <3>2, <1>a, PublishTyped
  <2> QED  BY <1>c, <1>d, <2>1, <2>3, <2>4, IdleTyped
<1>12. ASSUME NEW m \in Messages, NEW n \in Nodes, AskMaster(m, n) PROVE TypeOK'
  <2>1. /\ Publish(ToMaster(m, n)) /\ Task(m, n, Idle) /\ NoEmit
        /\ UNCHANGED <<nodes, sockets, stores, target, sure, excused, disruptions>>
    BY <1>12 DEF AskMaster
  <2>2. ToMaster(m, n) \in SUBSET Packets
    BY PacketTyped DEF ToMaster
  <2>3. wire' \in SUBSET Packets
    BY <2>1, <2>2, <1>a, PublishTyped
  <2> QED  BY <1>c, <1>d, <2>1, <2>3, IdleTyped DEF NoEmit
<1>e. ASSUME NEW m \in Messages, NEW n \in Nodes, NEW request \in BOOLEAN,
             Query(m, n, request)
      PROVE  /\ \E t \in Tasks : Task(m, n, t)
             /\ sure' \in SUBSET Messages /\ disruptions' \in 0 .. MaxDisruptions
  <2> DEFINE t == [Idle EXCEPT !.step = "dispatch", !.request = request,
                               !.todo = rows \cap SocketsOf(target[m])]
  <2>1. t \in Tasks
    BY <1>a DEF Idle, Tasks
  <2> HIDE DEF t
  <2>2. CASE /\ Task(m, n, t) /\ UNCHANGED <<sure, disruptions>>
    BY <2>1, <2>2, <1>d
  <2>3. CASE Disrupt("dbError") /\ Task(m, n, Idle) /\ Disturbs({target[m]})
    BY <2>3, <1>a, IdleTyped, DisruptTyped, DisturbsTyped
  <2> QED  BY <1>e, <2>2, <2>3 DEF Query, t
<1>13. ASSUME NEW m \in Messages, NEW n \in Nodes, AskDatabase(m, n)
       PROVE  TypeOK'
  <2>1. /\ Query(m, n, FALSE) /\ NoEmit
        /\ UNCHANGED <<nodes, sockets, stores, target, wire, excused>>
    BY <1>13 DEF AskDatabase
  <2>2. PICK t \in Tasks : Task(m, n, t)
    BY <1>e, <2>1
  <2> QED  BY <1>a, <1>c, <1>d, <1>e, <2>1, <2>2 DEF NoEmit
<1>14. ASSUME NEW m \in Messages, NEW n \in Nodes, NEW s \in Sockets,
              Dispatch(m, n, s)
       PROVE  TypeOK'
  <2> DEFINE t == task[m][n]
             new == [t EXCEPT !.todo = t.todo \ {s}]
  <2>1. /\ s \in t.todo
        /\ IF node[s] = n
           THEN EmitIfOpen(m, s, "row", n) /\ UNCHANGED wire
           ELSE Publish({Packet(node[s], m, "row", s, ~t.request, n)}) /\ NoEmit
        /\ Task(m, n, new)
        /\ UNCHANGED <<nodes, sockets, stores, target, sure, excused, disruptions>>
    BY <1>14 DEF Dispatch
  <2>2. t \in Tasks /\ new \in Tasks /\ (~t.request) \in BOOLEAN
    <3>1. t \in Tasks
      BY <1>a
    <3> QED  BY <3>1 DEF Tasks
  <2>3. node[s] \in Nodes
    BY <1>a, <1>b, <2>1 DEF Known
  <2> HIDE DEF new
  <2>4. delivered' \in SUBSET Deliveries /\ twice' \in SUBSET delivered'
    <3>1. Delivery(m, s, s, "row", n) \in Deliveries
      BY DeliveryTyped
    <3> QED  BY <2>1, <3>1, <1>a, <1>d, EmitTyped DEF EmitIfOpen, NoEmit
  <2>5. wire' \in SUBSET Packets
    <3>1. Packet(node[s], m, "row", s, ~t.request, n) \in Packets
      BY <2>2, <2>3, PacketTyped
    <3> QED  BY <2>1, <3>1, <1>a, PublishTyped
  <2> QED  BY <1>c, <1>d, <2>1, <2>2, <2>4, <2>5
<1>15. ASSUME NEW m \in Messages, NEW n \in Nodes, Dispatched(m, n)
       PROVE  TypeOK'
  <2>1. /\ Task(m, n, Idle)
        /\ UNCHANGED <<nodes, sockets, stores, target, wire, delivered, twice,
                       sure, excused, disruptions>>
    BY <1>15 DEF Dispatched
  <2> QED  BY <1>a, <1>c, <1>d, <2>1, IdleTyped
<1>16. ASSUME NEW m \in Messages, NEW n \in Nodes, PublishRejected(m, n)
       PROVE  TypeOK'
  <2>1. disruptions' \in 0 .. MaxDisruptions
    BY <1>16, <1>a, DisruptTyped DEF PublishRejected
  <2>2. CASE Ends(n)
    BY <1>a, <2>1, <2>2, EndsTyped
  <2>3. CASE /\ Task(m, n, Idle) /\ Disturbs({target[m]})
             /\ UNCHANGED <<nodes, sockets, stores, target, wire, delivered,
                            twice, excused>>
    BY <1>a, <1>c, <1>d, <2>1, <2>3, IdleTyped, DisturbsTyped
  <2> QED  BY <1>16, <2>2, <2>3 DEF PublishRejected
<1>17. ASSUME NEW p \in wire, ReceiveRoute(p) PROVE TypeOK'
  <2> DEFINE s == Substitute(p)
  <2>1. /\ p.kind # "request" /\ wire' = wire \ {p}
        /\ IF p.socket \in open
           THEN Emit(Delivery(p.msg, p.socket, p.socket, p.kind, p.by))
           ELSE IF Cached(s) THEN Emit(Delivery(p.msg, s, p.socket, p.kind, p.by))
                ELSE NoEmit
        /\ UNCHANGED <<nodes, sockets, stores, target, task, sure, excused,
                       disruptions>>
    BY <1>17 DEF ReceiveRoute
  <2>2. /\ p.socket \in Sockets /\ p.msg \in Messages /\ p.by \in Nodes
        /\ p.kind \in {"session", "row"}
    BY <1>17, <1>a, <2>1 DEF Known, Packets
  <2>3. Delivery(p.msg, p.socket, p.socket, p.kind, p.by) \in Deliveries
    BY <2>2, DeliveryTyped
  <2>4. Cached(s) => Delivery(p.msg, s, p.socket, p.kind, p.by) \in Deliveries
    BY <2>2, <1>a, DeliveryTyped DEF Cached
  <2>5. delivered' \in SUBSET Deliveries /\ twice' \in SUBSET delivered'
    BY <1>a, <1>d, <2>1, <2>3, <2>4, EmitTyped DEF NoEmit
  <2> QED  BY <1>a, <2>1, <2>5 DEF TypeOK
<1>18. ASSUME NEW p \in wire, ReceiveRequest(p) PROVE TypeOK'
  <2>1. /\ wire' = wire \ {p}
        /\ Query(p.msg, p.to, TRUE) \/ UNCHANGED <<task, sure, disruptions>>
        /\ UNCHANGED <<nodes, sockets, stores, target, delivered, twice, excused>>
    BY <1>18 DEF ReceiveRequest
  <2>2. p.msg \in Messages /\ p.to \in Nodes /\ wire' \in SUBSET Packets
    BY <1>18, <1>a, <2>1 DEF Packets
  <2>3. CASE Query(p.msg, p.to, TRUE)
    <3>1. PICK t \in Tasks : Task(p.msg, p.to, t)
      BY <1>e, <2>2, <2>3
    <3> QED  BY <1>c, <1>d, <1>e, <2>1, <2>2, <2>3, <3>1
  <2>4. CASE UNCHANGED <<task, sure, disruptions>>
    BY <1>a, <2>1, <2>2, <2>4 DEF TypeOK
  <2> QED  BY <2>1, <2>3, <2>4
<1>19. ASSUME NEW p \in wire, Lose(p) PROVE TypeOK'
  <2>1. disruptions' \in 0 .. MaxDisruptions /\ sure' \in SUBSET Messages
    BY <1>19, <1>a, <1>d, DisruptTyped, DisturbsTyped DEF Lose
  <2> QED  BY <1>19, <1>a, <2>1 DEF Lose, TypeOK
<1>20. ASSUME NEW n \in Nodes, Crash(n) PROVE TypeOK'
  BY <1>20, <1>a, DisruptTyped, EndsTyped DEF Crash
<1>21. ASSUME NEW n \in Nodes, Restart(n) \/ Joined(n) \/ Sweep(n) \/ TakeOver(n)
       PROVE  TypeOK'
  BY <1>21, <1>a DEF Restart, Joined, Sweep, TakeOver, TypeOK
<1>22. ASSUME NEW n \in Nodes, GiveUp(n) PROVE TypeOK'
  BY <1>22, <1>a, DisruptTyped, DisturbsTyped DEF GiveUp, TypeOK
<1>23. CASE UNCHANGED vars
  BY <1>23, <1>a DEF vars, TypeOK
<1> QED
  BY <1>1, <1>2, <1>3, <1>4, <1>5, <1>6, <1>7, <1>8, <1>9, <1>10, <1>11, <1>12,
     <1>13, <1>14, <1>15, <1>16, <1>17, <1>18, <1>19, <1>20, <1>21, <1>22, <1>23
  DEF Next
-----------------------------------------------------------------------------
(* What has been opened stays opened, by the same client and at the same    *)
(* node.                                                                    *)
LEMMA KnownStep == Inv /\ TypeOK' /\ [Next]_vars => Known'
<1> SUFFICES ASSUME Inv, TypeOK', [Next]_vars PROVE Known'
  OBVIOUS
<1>a. /\ TypeOK /\ Known
      /\ client \in [Sockets -> Clients \cup {None}]
      /\ node \in [Sockets -> Nodes \cup {None}]
      /\ open \in SUBSET Sockets /\ rows \in SUBSET Sockets
      /\ registering \in [Sockets -> {"none", "row", "cache"}]
      /\ leaving \in [Sockets -> {"none", "remove", "forget", "scan", "mark"}]
      /\ task \in [Messages -> [Nodes -> Tasks]]
      /\ session \in [Clients -> Sockets \cup {None}]
      /\ wire \in SUBSET Packets
  BY DEF Inv, TypeOK
<1>b. None \notin Nodes \cup Clients \cup Sockets
  BY ConstantsAssumption
<1> USE DEF nodes, sockets, stores, mail
<1>1. ASSUME NEW s \in Sockets, NEW c \in Clients, NEW n \in Nodes,
             Register(s, c, n)
      PROVE  Known'
  <2>1. /\ client' = [client EXCEPT ![s] = c]
        /\ node' = [node EXCEPT ![s] = n]
        /\ open' = open \cup {s}
        /\ session' = [session EXCEPT ![c] = s]
        /\ registering' = [registering EXCEPT ![s] = "row"]
        /\ client[s] = None
        /\ UNCHANGED <<leaving, rows, task, wire>>
    BY <1>1 DEF Register
  <2>2. Opened(s)' /\ (client[s] = None <=> node[s] = None)'
    BY <1>a, <1>b, <2>1 DEF Opened
  <2>3. \A k \in Sockets : Opened(k) => Opened(k)'
    BY <1>a, <2>1 DEF Opened
  <2>4. \A k \in Sockets : k # s => UNCHANGED <<client[k], node[k], registering[k]>>
    BY <1>a, <2>1
  <2>5. \A k \in Sockets :
          /\ k \in open' \cup rows' => Opened(k)'
          /\ registering'[k] # "none" \/ leaving'[k] # "none" => Opened(k)'
          /\ client'[k] = None <=> node'[k] = None
    BY <1>a, <2>1, <2>2, <2>3, <2>4 DEF Known
  <2>6. \A k \in Clients : session'[k] # None => Opened(session[k])'
    BY <1>a, <2>1, <2>2, <2>3 DEF Known, Opened
  <2>7. \A m \in Messages, l \in Nodes :
          /\ task'[m][l].found # None => Opened(task[m][l].found)'
          /\ \A k \in task'[m][l].todo : Opened(k)'
    <3> SUFFICES ASSUME NEW m \in Messages, NEW l \in Nodes
                 PROVE  /\ task[m][l].found # None => Opened(task[m][l].found)'
                        /\ \A k \in task[m][l].todo : Opened(k)'
      BY <2>1
    <3>1. task[m][l].found \in Sockets \cup {None} /\ task[m][l].todo \subseteq Sockets
      BY <1>a DEF Tasks
    <3> QED  BY <1>a, <2>1, <2>3, <3>1 DEF Known, Opened
  <2> QED  BY <1>a, <2>1, <2>5, <2>6, <2>7 DEF Known, Opened
(* Everything else keeps client and node.                                   *)
<1>c. ASSUME UNCHANGED <<client, node>>,
             \A k \in Sockets :
               /\ k \in open' \cup rows' => Opened(k)
               /\ registering'[k] # "none" \/ leaving'[k] # "none" => Opened(k),
             \A k \in Clients : session'[k] # None => Opened(session'[k]),
             \A m \in Messages, l \in Nodes :
               /\ task'[m][l].found # None => Opened(task'[m][l].found)
               /\ \A k \in task'[m][l].todo : Opened(k),
             \A p \in wire' : p.kind # "request" => p.socket # None
      PROVE  Known'
  BY <1>a, <1>c DEF Known, Opened
<1>2. ASSUME NEW s \in Sockets,
             \/ CreateRow(s) \/ CacheLocally(s) \/ Close(s) \/ RemoveRow(s)
             \/ Forget(s) \/ ScanSessions(s) \/ MarkGone(s)
      PROVE  Known'
  <2>1. UNCHANGED <<client, node, task, wire>>
    BY <1>2 DEF CreateRow, CacheLocally, Close, RemoveRow, Forget, ScanSessions,
                MarkGone, LeaveStep
  <2>2. Opened(s)
    <3>1. registering[s] # "none" \/ leaving[s] # "none" \/ s \in open
      BY <1>2 DEF CreateRow, CacheLocally, Close, RemoveRow, Forget, ScanSessions,
                  MarkGone, LeaveStep
    <3> QED  BY <1>a, <3>1 DEF Known
  <2>3. /\ open' \subseteq open /\ rows' \subseteq rows \cup {s}
        /\ \A k \in Sockets \ {s} : UNCHANGED <<registering[k], leaving[k]>>
    BY <1>2, <1>a DEF CreateRow, CacheLocally, Close, RemoveRow, Forget,
                      ScanSessions, MarkGone, LeaveStep, WithoutRow
  <2>4. \A k \in Clients : session'[k] \in {session[k], s}
    BY <1>2, <1>a DEF CreateRow, CacheLocally, Close, RemoveRow, Forget,
                      ScanSessions, MarkGone, LeaveStep
  <2> QED  BY <1>a, <1>c, <2>1, <2>2, <2>3, <2>4 DEF Known
<1>3. ASSUME NEW c \in Clients, ExpireSession(c) PROVE Known'
  BY <1>3, <1>a, <1>c DEF ExpireSession, Known
(* A node turns to another task, and pub/sub takes packets.                 *)
<1>d. ASSUME UNCHANGED <<client, node, open, registering, leaving, session, rows>>,
             NEW m \in Messages, NEW n \in Nodes, NEW t \in Tasks, Task(m, n, t),
             t.found # None => Opened(t.found),
             \A k \in t.todo : Opened(k),
             \A p \in wire' : p.kind # "request" => p.socket # None
      PROVE  Known'
  <2>1. /\ task'[m][n] = t
        /\ \A k \in Messages, l \in Nodes :
             k # m \/ l # n => task'[k][l] = task[k][l]
    BY <1>a, <1>d, TaskMoves
  <2>2. \A k \in Messages, l \in Nodes :
          /\ task'[k][l].found # None => Opened(task'[k][l].found)
          /\ \A x \in task'[k][l].todo : Opened(x)
    <3> SUFFICES ASSUME NEW k \in Messages, NEW l \in Nodes
                 PROVE  /\ task'[k][l].found # None => Opened(task'[k][l].found)
                        /\ \A x \in task'[k][l].todo : Opened(x)
      OBVIOUS
    <3>1. CASE k = m /\ l = n
      BY <1>d, <2>1, <3>1
    <3>2. CASE k # m \/ l # n
      BY <1>a, <2>1, <3>2 DEF Known
    <3> QED  BY <3>1, <3>2
  <2> QED  BY <1>a, <1>c, <1>d, <2>2 DEF Known
<1>e. \A p \in wire : p.kind # "request" => p.socket # None
  BY <1>a DEF Known
<1>f. ASSUME NEW m \in Messages, NEW n \in Nodes,
             UNCHANGED <<client, node, open, registering, leaving, session, rows>>,
             Task(m, n, Idle),
             \A p \in wire' : p.kind # "request" => p.socket # None
      PROVE  Known'
  BY <1>d, <1>f, IdleTyped
<1>4. ASSUME NEW m \in Messages, NEW n \in Nodes, NEW c \in Clients, Send(m, n, c)
      PROVE  Known'
  <2>1. UNCHANGED <<client, node, open, registering, leaving, session, rows, wire>>
    BY <1>4 DEF Send
  <2>2. CASE UNCHANGED task
    BY <1>a, <1>c, <2>1, <2>2 DEF Known
  <2>3. CASE \E found \in {session[c], None} :
               Task(m, n, [Idle EXCEPT !.step = "resolve", !.found = found])
    <3>1. PICK found \in {session[c], None} :
            Task(m, n, [Idle EXCEPT !.step = "resolve", !.found = found])
      BY <2>3
    <3> DEFINE t == [Idle EXCEPT !.step = "resolve", !.found = found]
    <3>2. t \in Tasks /\ t.found = found /\ t.todo = {}
      BY <1>a DEF Idle, Tasks
    <3>3. found # None => Opened(found)
      BY <1>a DEF Known
    <3> HIDE DEF t
    <3>4. Task(m, n, t)
      BY <3>1 DEF t
    <3> QED  BY <1>d, <1>e, <2>1, <3>2, <3>3, <3>4
  <2> QED  BY <1>4, <2>2, <2>3 DEF Send
<1>5. ASSUME NEW m \in Messages, NEW n \in Nodes, Resolve(m, n) PROVE Known'
  <2> DEFINE s == task[m][n].found
  <2>1. /\ s # None /\ Task(m, n, Idle)
        /\ UNCHANGED wire \/ Publish(ToSession(m, n, s))
        /\ UNCHANGED <<client, node, open, registering, leaving, session, rows>>
    BY <1>5 DEF Resolve
  <2>2. \A p \in wire' : p.kind # "request" => p.socket # None
    BY <1>e, <2>1 DEF Publish, ToSession, Packet
  <2> QED  BY <1>f, <2>1, <2>2
<1>6. ASSUME NEW m \in Messages, NEW n \in Nodes, AskMaster(m, n) PROVE Known'
  <2>1. /\ Publish(ToMaster(m, n)) /\ Task(m, n, Idle)
        /\ UNCHANGED <<client, node, open, registering, leaving, session, rows>>
    BY <1>6 DEF AskMaster
  <2>2. \A p \in wire' : p.kind # "request" => p.socket # None
    BY <1>e, <2>1 DEF Publish, ToMaster, Packet
  <2> QED  BY <1>f, <2>1, <2>2
<1>g. ASSUME NEW m \in Messages, NEW n \in Nodes, NEW request \in BOOLEAN,
             Query(m, n, request), wire' \subseteq wire,
             UNCHANGED <<client, node, open, registering, leaving, session, rows>>
      PROVE  Known'
  <2> DEFINE t == [Idle EXCEPT !.step = "dispatch", !.request = request,
                               !.todo = rows \cap SocketsOf(target[m])]
  <2>1. /\ t \in Tasks /\ t.found = None /\ t.todo \subseteq rows
    BY <1>a DEF Idle, Tasks
  <2>2. \A k \in t.todo : Opened(k)
    BY <1>a, <2>1 DEF Known
  <2> HIDE DEF t
  <2>3. CASE Task(m, n, t)
    BY <1>d, <1>e, <1>g, <2>1, <2>2, <2>3
  <2>4. CASE Task(m, n, Idle)
    BY <1>e, <1>f, <1>g, <2>4
  <2> QED  BY <1>g, <2>3, <2>4 DEF Query, t
<1>7. ASSUME NEW m \in Messages, NEW n \in Nodes, AskDatabase(m, n) PROVE Known'
  BY <1>7, <1>g DEF AskDatabase
<1>8. ASSUME NEW m \in Messages, NEW n \in Nodes, NEW s \in Sockets,
             Dispatch(m, n, s)
      PROVE  Known'
  <2> DEFINE new == [task[m][n] EXCEPT !.todo = task[m][n].todo \ {s}]
  <2>1. /\ Task(m, n, new)
        /\ \/ UNCHANGED wire
           \/ Publish({Packet(node[s], m, "row", s, ~task[m][n].request, n)})
        /\ UNCHANGED <<client, node, open, registering, leaving, session, rows>>
    BY <1>8 DEF Dispatch
  <2>2. /\ new \in Tasks /\ new.found = task[m][n].found
        /\ new.todo \subseteq task[m][n].todo
    <3>1. task[m][n] \in Tasks
      BY <1>a
    <3> QED  BY <3>1 DEF Tasks
  <2>3. \A p \in wire' : p.kind # "request" => p.socket # None
    BY <1>b, <1>e, <2>1 DEF Publish, Packet
  <2> HIDE DEF new
  <2>4. /\ new.found # None => Opened(new.found)
        /\ \A k \in new.todo : Opened(k)
    BY <1>a, <2>2 DEF Known
  <2> QED  BY <1>d, <2>1, <2>2, <2>3, <2>4
<1>9. ASSUME NEW m \in Messages, NEW n \in Nodes, Dispatched(m, n) PROVE Known'
  BY <1>9, <1>e, <1>f DEF Dispatched
<1>10. ASSUME NEW p \in wire, ReceiveRoute(p) \/ Lose(p) PROVE Known'
  BY <1>10, <1>a, <1>c DEF ReceiveRoute, Lose, Known
<1>11. ASSUME NEW p \in wire, ReceiveRequest(p) PROVE Known'
  <2>1. p.msg \in Messages /\ p.to \in Nodes
    BY <1>a DEF Packets
  <2>2. /\ Query(p.msg, p.to, TRUE) \/ UNCHANGED task
        /\ wire' \subseteq wire
        /\ UNCHANGED <<client, node, open, registering, leaving, session, rows>>
    BY <1>11 DEF ReceiveRequest
  <2> QED  BY <1>a, <1>c, <1>g, <2>1, <2>2 DEF Known
<1>h. ASSUME NEW n \in Nodes, Ends(n) PROVE Known'
  <2>1. /\ open' \subseteq open /\ wire' \subseteq wire
        /\ UNCHANGED <<client, node, session, rows>>
        /\ \A k \in Sockets : /\ registering'[k] \in {registering[k], "none"}
                              /\ leaving'[k] \in {leaving[k], "none"}
    BY <1>h DEF Ends
  <2>2. \A m \in Messages, l \in Nodes : task'[m][l] \in {task[m][l], Idle}
    BY <1>a, <1>h DEF Ends
  <2>3. \A m \in Messages, l \in Nodes :
          /\ task'[m][l].found # None => Opened(task'[m][l].found)
          /\ \A k \in task'[m][l].todo : Opened(k)
    <3> SUFFICES ASSUME NEW m \in Messages, NEW l \in Nodes
                 PROVE  /\ task'[m][l].found # None => Opened(task'[m][l].found)
                        /\ \A k \in task'[m][l].todo : Opened(k)
      OBVIOUS
    <3> QED  BY <1>a, <2>2, IdleTyped DEF Known
  <2> QED  BY <1>a, <1>c, <2>1, <2>3 DEF Known
<1>12. ASSUME NEW m \in Messages, NEW n \in Nodes, PublishRejected(m, n)
       PROVE  Known'
  <2>1. CASE Ends(n)
    BY <1>h, <2>1
  <2>2. CASE /\ Task(m, n, Idle)
             /\ UNCHANGED <<nodes, sockets, stores, target, wire, delivered,
                            twice, excused>>
    BY <1>e, <1>f, <2>2
  <2> QED  BY <1>12, <2>1, <2>2 DEF PublishRejected
<1>13. ASSUME NEW n \in Nodes, Crash(n) PROVE Known'
  BY <1>13, <1>h DEF Crash
<1>14. ASSUME NEW n \in Nodes,
              Restart(n) \/ Joined(n) \/ Sweep(n) \/ TakeOver(n) \/ GiveUp(n)
       PROVE  Known'
  BY <1>14, <1>a, <1>c DEF Restart, Joined, Sweep, TakeOver, GiveUp, Known
<1>15. CASE UNCHANGED vars
  BY <1>15, <1>a, <1>c DEF vars, Known
<1> QED
  BY <1>1, <1>2, <1>3, <1>4, <1>5, <1>6, <1>7, <1>8, <1>9, <1>10, <1>11, <1>12,
     <1>13, <1>14, <1>15
  DEF Next

-----------------------------------------------------------------------------
(* Rows follow the sockets.  A socket whose handler takes a step is Rowed   *)
(* for the next one; the others are left alone; a node that ends excuses    *)
(* all of its sockets, the only ones that a sweep touches.                  *)
LEMMA RowStep ==
  Inv /\ TypeOK' /\ [Next]_vars => Excused' /\ \A k \in Sockets : Rowed(k)'
<1> SUFFICES ASSUME Inv, TypeOK', [Next]_vars
             PROVE  Excused' /\ \A k \in Sockets : Rowed(k)'
  OBVIOUS
<1>a. /\ Known /\ Excused /\ \A k \in Sockets : Rowed(k)
      /\ proc \in [Nodes -> {"down", "joining", "ready"}]
      /\ client \in [Sockets -> Clients \cup {None}]
      /\ node \in [Sockets -> Nodes \cup {None}]
      /\ open \in SUBSET Sockets /\ rows \in SUBSET Sockets
      /\ registering \in [Sockets -> {"none", "row", "cache"}]
      /\ leaving \in [Sockets -> {"none", "remove", "forget", "scan", "mark"}]
  BY DEF Inv, TypeOK
<1>b. None \notin Nodes \cup Clients \cup Sockets
  BY ConstantsAssumption
<1> DEFINE Goal == Excused /\ \A k \in Sockets : Rowed(k)
<1> USE DEF nodes, sockets, stores, mail
<1>1. ASSUME NEW s \in Sockets, NEW c \in Clients, NEW n \in Nodes,
             Register(s, c, n)
      PROVE  Goal'
  <2>1. /\ proc[n] # "down" /\ client[s] = None
        /\ client' = [client EXCEPT ![s] = c]
        /\ node' = [node EXCEPT ![s] = n]
        /\ open' = open \cup {s}
        /\ registering' = [registering EXCEPT ![s] = "row"]
        /\ UNCHANGED <<proc, leaving, rows, excused>>
    BY <1>1 DEF Register
  <2>2. s \notin rows /\ s \notin open /\ leaving[s] = "none"
    BY <1>a, <2>1 DEF Known, Opened
  <2>3. Rowed(s)'
    BY <1>a, <1>b, <2>1, <2>2 DEF Rowed
  <2>4. \A k \in Sockets \ {s} : Rowed(k)'
    BY <1>a, <2>1 DEF Rowed
  <2>5. Excused'
    BY <1>a, <2>1 DEF Excused, SocketsAt
  <2> QED  BY <2>3, <2>4, <2>5
(* A handler of one socket.                                                 *)
<1>c. ASSUME NEW s \in Sockets, UNCHANGED <<proc, client, node>>,
             \A k \in Sockets \ {s} :
               /\ k \in open' <=> k \in open
               /\ k \in rows' <=> k \in rows
               /\ k \in excused' <=> k \in excused
               /\ UNCHANGED <<registering[k], leaving[k]>>,
             excused \subseteq excused', Rowed(s)'
      PROVE  Goal'
  <2>1. \A k \in Sockets \ {s} : Rowed(k)'
    BY <1>a, <1>c DEF Rowed
  <2>2. Excused'
    BY <1>a, <1>c DEF Excused, SocketsAt
  <2> QED  BY <1>c, <2>1, <2>2
<1>2. ASSUME NEW s \in Sockets, CreateRow(s) PROVE Goal'
  <2>1. Rowed(s)'
    BY <1>2, <1>a DEF CreateRow, Rowed
  <2> QED  BY <1>2, <1>a, <1>c, <2>1 DEF CreateRow
<1>3. ASSUME NEW s \in Sockets, CacheLocally(s) PROVE Goal'
  <2>1. Rowed(s)'
    BY <1>3, <1>a DEF CacheLocally, Rowed
  <2> QED  BY <1>3, <1>a, <1>c, <2>1 DEF CacheLocally
<1>4. ASSUME NEW s \in Sockets, Close(s) PROVE Goal'
  <2>1. Rowed(s)'
    BY <1>4, <1>a DEF Close, Rowed
  <2> QED  BY <1>4, <1>a, <1>c, <2>1 DEF Close
<1>5. ASSUME NEW s \in Sockets, RemoveRow(s) PROVE Goal'
  <2>1. /\ leaving[s] = "remove"
        /\ UNCHANGED <<proc, client, node, open, registering>>
        /\ \E next \in {"forget", "scan"} : leaving' = [leaving EXCEPT ![s] = next]
        /\ \/ s \in rows /\ rows' = rows \ {s} /\ UNCHANGED excused
           \/ s \notin rows /\ UNCHANGED <<rows, excused>>
           \/ excused' = excused \cup {s} /\ UNCHANGED rows
    BY <1>5 DEF RemoveRow, LeaveStep, WithoutRow
  <2>2. Rowed(s)'
    BY <2>1, <1>a DEF Rowed
  <2> QED  BY <1>a, <1>c, <2>1, <2>2
<1>6. ASSUME NEW s \in Sockets, Forget(s) \/ ScanSessions(s) \/ MarkGone(s)
      PROVE  Goal'
  <2>1. /\ leaving[s] \in {"forget", "scan", "mark"}
        /\ UNCHANGED <<proc, client, node, open, registering, rows, excused>>
        /\ \E next \in {"mark", "none"} : leaving' = [leaving EXCEPT ![s] = next]
    BY <1>6 DEF Forget, ScanSessions, MarkGone, LeaveStep, AfterScan
  <2>2. Rowed(s)'
    BY <2>1, <1>a DEF Rowed
  <2> QED  BY <1>a, <1>c, <2>1, <2>2
<1>d. ASSUME NEW n \in Nodes, Ends(n) PROVE Goal'
  <2>1. /\ proc' = [proc EXCEPT ![n] = "down"]
        /\ open' = open \ SocketsAt(n)
        /\ registering' = [s \in Sockets |->
                             IF s \in SocketsAt(n) THEN "none" ELSE registering[s]]
        /\ leaving' = [s \in Sockets |->
                         IF s \in SocketsAt(n) THEN "none" ELSE leaving[s]]
        /\ excused' = excused \cup SocketsAt(n)
        /\ UNCHANGED <<client, node, rows>>
    BY <1>d DEF Ends
  <2>2. \A k \in Nodes : SocketsAt(k)' = SocketsAt(k)
    BY <2>1 DEF SocketsAt
  <2>3. Excused'
    BY <1>a, <2>1, <2>2 DEF Excused
  <2>4. \A k \in Sockets : Rowed(k)'
    BY <1>a, <2>1 DEF Rowed
  <2> QED  BY <2>3, <2>4
(* What neither concerns sockets nor ends a node.                           *)
<1>e. ASSUME UNCHANGED <<proc, client, node, open, registering, leaving, rows,
                         excused>>
      PROVE  Goal'
  BY <1>a, <1>e DEF Excused, Rowed, SocketsAt
<1>7. ASSUME NEW c \in Clients, ExpireSession(c) PROVE Goal'
  BY <1>7, <1>e DEF ExpireSession
<1>8. ASSUME NEW m \in Messages, NEW n \in Nodes,
             \/ \E c \in Clients : Send(m, n, c)
             \/ Resolve(m, n) \/ AskMaster(m, n) \/ AskDatabase(m, n)
             \/ \E s \in Sockets : Dispatch(m, n, s)
             \/ Dispatched(m, n)
      PROVE  Goal'
  <2>1. UNCHANGED <<proc, client, node, open, registering, leaving, rows, excused>>
    BY <1>8 DEF Send, Resolve, AskMaster, AskDatabase, Dispatch, Dispatched
  <2> QED  BY <1>e, <2>1
<1>9. ASSUME NEW m \in Messages, NEW n \in Nodes, PublishRejected(m, n)
      PROVE  Goal'
  BY <1>9, <1>d, <1>e DEF PublishRejected
<1>10. ASSUME NEW p \in wire, ReceiveRoute(p) \/ ReceiveRequest(p) \/ Lose(p)
       PROVE  Goal'
  <2>1. UNCHANGED <<proc, client, node, open, registering, leaving, rows, excused>>
    BY <1>10 DEF ReceiveRoute, ReceiveRequest, Lose
  <2> QED  BY <1>e, <2>1
<1>11. ASSUME NEW n \in Nodes, Crash(n) PROVE Goal'
  BY <1>11, <1>d DEF Crash
<1>12. ASSUME NEW n \in Nodes, Restart(n) \/ Joined(n) PROVE Goal'
  <2>1. /\ \A k \in Nodes : proc'[k] = "down" => proc[k] = "down"
        /\ UNCHANGED <<client, node, open, registering, leaving, rows, excused>>
    BY <1>12, <1>a DEF Restart, Joined
  <2> QED  BY <1>a, <2>1 DEF Excused, Rowed, SocketsAt
<1>13. ASSUME NEW n \in Nodes, Sweep(n) PROVE Goal'
  <2>1. /\ proc[n] = "down" /\ rows' = rows \ SocketsAt(n)
        /\ UNCHANGED <<proc, client, node, open, registering, leaving, excused>>
    BY <1>13 DEF Sweep
  <2>2. \A k \in Sockets : k \notin excused => (k \in rows' <=> k \in rows)
    BY <1>a, <2>1 DEF Excused
  <2> QED  BY <1>a, <2>1, <2>2 DEF Excused, Rowed, SocketsAt
<1>14. ASSUME NEW n \in Nodes, TakeOver(n) \/ GiveUp(n) PROVE Goal'
  BY <1>14, <1>e DEF TakeOver, GiveUp
<1>15. CASE UNCHANGED vars
  BY <1>15, <1>e DEF vars
<1> QED
  BY <1>1, <1>2, <1>3, <1>4, <1>5, <1>6, <1>7, <1>8, <1>9, <1>10, <1>11, <1>12,
     <1>13, <1>14, <1>15
  DEF Next

-----------------------------------------------------------------------------
LEMMA InvInit == Init => Inv
BY IdleTyped, ConstantsAssumption
DEF Init, Inv, TypeOK, Known, Excused, Rowed, Opened, Tasks, Packets, Deliveries

LEMMA InvStep == Inv /\ [Next]_vars => Inv'
BY TypeStep, KnownStep, RowStep DEF Inv

LEMMA InvAlways == Spec => []Inv
BY InvInit, InvStep, PTL DEF Spec

(* Every variable keeps its type: a step never reads a missing entry of the *)
(* caches, and an address always names a socket that was opened.            *)
THEOREM TypeCorrect == Spec => []TypeOK
<1>1. Inv => TypeOK
  BY DEF Inv
<1> QED  BY <1>1, InvAlways, PTL

(* A socket whose handlers are through has a row if and only if it is open, *)
(* unless its handlers raced or its node or the database failed             *)
(* (cluster.service.ts:269, cluster.service.ts:309).                        *)
THEOREM RowsAlwaysMatch == Spec => []RowsMatchSockets
<1>1. Inv => RowsMatchSockets
  <2> SUFFICES ASSUME Inv, NEW s \in Sockets \ excused, client[s] # None,
                      registering[s] = "none", leaving[s] = "none"
               PROVE  s \in rows <=> s \in open
    BY DEF RowsMatchSockets
  <2> QED  BY DEF Inv, Rowed
<1> QED  BY <1>1, InvAlways, PTL

-----------------------------------------------------------------------------
(* Who still has something to do for a message, and what has been done.     *)
Rests(m, n) == task[m][n].step = "none" /\ task[m][n].todo = {}
Resting(m) == \A n \in Nodes : Rests(m, n)
Unsent(m) == \A p \in wire : p.msg # m
Undelivered(m) == \A d \in delivered : d.msg # m

(* A message goes one way only.  It is resolved by one node; its packet to  *)
(* the node of a session, or its delivery there, is all there is of it; a   *)
(* node that is still to be asked has done nothing for it; and an address   *)
(* that a master goes through is still to come, on its way, or done.        *)
Once(m) ==
  /\ target[m] = None => Resting(m) /\ Unsent(m) /\ Undelivered(m)
  /\ \A n \in Nodes :
       task[m][n].step = "resolve" =>
         /\ Unsent(m) /\ Undelivered(m) /\ task[m][n].todo = {}
         /\ \A k \in Nodes \ {n} : Rests(m, k)
  /\ \A p \in wire :
       p.msg = m =>
         /\ p.kind = "session" =>
              /\ Resting(m) /\ Undelivered(m)
              /\ \A q \in wire : q.msg = m => q = p
         /\ p.kind = "request" =>
              /\ Rests(m, p.to)
              /\ \A q \in wire :
                   q.msg = m =>
                     /\ q.kind = "request" /\ q.to = p.to => q = p
                     /\ q.kind = "row" => q.by # p.to
              /\ \A d \in delivered : d.msg = m => d.by # p.to
         /\ p.kind = "row" =>
              /\ p.socket \notin task[m][p.by].todo
              /\ \A q \in wire :
                   /\ q.msg = m /\ q.kind = "row"
                   /\ q.socket = p.socket /\ q.by = p.by
                   => q = p
              /\ \A d \in delivered :
                   d.msg = m /\ d.by = p.by => d.address # p.socket
  /\ \A d \in delivered :
       d.msg = m =>
         /\ d.address \notin task[m][d.by].todo
         /\ d.via # "row" =>
              /\ Resting(m) /\ Unsent(m)
              /\ \A e \in delivered : e.msg = m => e = d

OnceInv == twice = {} /\ \A m \in Messages : Once(m)

(* A message stays as it is when others move, when its tasks and packets    *)
(* come to an end, or when nothing new is delivered.                        *)
LEMMA OnceFrame ==
  ASSUME TypeOK, NEW m \in Messages, Once(m),
         target'[m] = target[m],
         \A n \in Nodes : task'[m][n] = task[m][n] \/ Rests(m, n)',
         \A p \in wire' : p.msg = m => p \in wire,
         \A d \in delivered' : d.msg = m => d \in delivered
  PROVE  Once(m)'
<1>1. (\A p \in wire : p.by \in Nodes /\ p.to \in Nodes)
      /\ \A d \in delivered : d.by \in Nodes
  BY DEF TypeOK, Packets, Deliveries
<1>2. \A n \in Nodes : /\ Rests(m, n) => Rests(m, n)'
                       /\ task'[m][n].todo \subseteq task[m][n].todo
                       /\ task'[m][n].step = "resolve" => task'[m][n] = task[m][n]
  BY DEF Rests
<1>3. /\ Resting(m) => Resting(m)'
      /\ Unsent(m) => Unsent(m)'
      /\ Undelivered(m) => Undelivered(m)'
  BY <1>2 DEF Resting, Unsent, Undelivered
<1>4. target'[m] = None => Resting(m)' /\ Unsent(m)' /\ Undelivered(m)'
  BY <1>3 DEF Once, Resting, Rests, Unsent, Undelivered
<1>5. \A n \in Nodes :
        task'[m][n].step = "resolve" =>
          /\ Unsent(m)' /\ Undelivered(m)' /\ task'[m][n].todo = {}
          /\ \A k \in Nodes \ {n} : Rests(m, k)'
  BY <1>2, <1>3 DEF Once, Resting, Rests, Unsent, Undelivered
<1>6. \A p \in wire' :
        p.msg = m =>
          /\ p.kind = "session" =>
               /\ Resting(m)' /\ Undelivered(m)'
               /\ \A q \in wire' : q.msg = m => q = p
          /\ p.kind = "request" =>
               /\ Rests(m, p.to)'
               /\ \A q \in wire' :
                    q.msg = m =>
                      /\ q.kind = "request" /\ q.to = p.to => q = p
                      /\ q.kind = "row" => q.by # p.to
               /\ \A d \in delivered' : d.msg = m => d.by # p.to
          /\ p.kind = "row" =>
               /\ p.socket \notin task'[m][p.by].todo
               /\ \A q \in wire' :
                    /\ q.msg = m /\ q.kind = "row"
                    /\ q.socket = p.socket /\ q.by = p.by
                    => q = p
               /\ \A d \in delivered' :
                    d.msg = m /\ d.by = p.by => d.address # p.socket
  <2> SUFFICES ASSUME NEW p \in wire', p.msg = m
               PROVE  /\ p.kind = "session" =>
                           /\ Resting(m)' /\ Undelivered(m)'
                           /\ \A q \in wire' : q.msg = m => q = p
                      /\ p.kind = "request" =>
                           /\ Rests(m, p.to)'
                           /\ \A q \in wire' :
                                q.msg = m =>
                                  /\ q.kind = "request" /\ q.to = p.to => q = p
                                  /\ q.kind = "row" => q.by # p.to
                           /\ \A d \in delivered' : d.msg = m => d.by # p.to
                      /\ p.kind = "row" =>
                           /\ p.socket \notin task'[m][p.by].todo
                           /\ \A q \in wire' :
                                /\ q.msg = m /\ q.kind = "row"
                                /\ q.socket = p.socket /\ q.by = p.by
                                => q = p
                           /\ \A d \in delivered' :
                                d.msg = m /\ d.by = p.by => d.address # p.socket
    OBVIOUS
  <2>1. p \in wire /\ p.by \in Nodes /\ p.to \in Nodes
    BY <1>1
  <2>2. p.kind = "session" =>
          /\ Resting(m)' /\ Undelivered(m)'
          /\ \A q \in wire' : q.msg = m => q = p
    <3>1. p.kind = "session" =>
            /\ Resting(m) /\ Undelivered(m)
            /\ \A q \in wire : q.msg = m => q = p
      BY <2>1 DEF Once
    <3> QED  BY <1>3, <3>1
  <2>3. p.kind = "request" =>
          /\ Rests(m, p.to)'
          /\ \A q \in wire' :
               q.msg = m =>
                 /\ q.kind = "request" /\ q.to = p.to => q = p
                 /\ q.kind = "row" => q.by # p.to
          /\ \A d \in delivered' : d.msg = m => d.by # p.to
    BY <1>2, <2>1 DEF Once
  <2>4. p.kind = "row" =>
          /\ p.socket \notin task'[m][p.by].todo
          /\ \A q \in wire' :
               /\ q.msg = m /\ q.kind = "row"
               /\ q.socket = p.socket /\ q.by = p.by
               => q = p
          /\ \A d \in delivered' :
               d.msg = m /\ d.by = p.by => d.address # p.socket
    BY <1>2, <2>1 DEF Once
  <2> QED  BY <2>2, <2>3, <2>4
<1>7. \A d \in delivered' :
        d.msg = m =>
          /\ d.address \notin task'[m][d.by].todo
          /\ d.via # "row" =>
               /\ Resting(m)' /\ Unsent(m)'
               /\ \A e \in delivered' : e.msg = m => e = d
  BY <1>1, <1>2, <1>3 DEF Once, Resting, Rests, Unsent, Undelivered
<1> QED  BY <1>4, <1>5, <1>6, <1>7 DEF Once, Resting, Rests, Unsent, Undelivered

(* What a step on one message does not touch of another.                    *)
LEMMA OnceOthers ==
  ASSUME TypeOK, NEW m \in Messages, NEW k \in Messages, k # m, Once(k),
         target'[k] = target[k],
         \A n \in Nodes : task'[k][n] = task[k][n],
         \A p \in wire' : p \in wire \/ p.msg = m,
         \A d \in delivered' : d \in delivered \/ d.msg = m
  PROVE  Once(k)'
BY OnceFrame

(* The only trace of a message is one delivery, or one packet on its way to *)
(* the node of a session.                                                   *)
LEMMA OnceAlone ==
  ASSUME NEW m \in Messages, target'[m] # None, Resting(m)',
         TypeOK',
         \/ /\ Unsent(m)'
            /\ \A d, e \in delivered' : d.msg = m /\ e.msg = m => d = e
         \/ /\ Undelivered(m)'
            /\ \A p, q \in wire' :
                 p.msg = m /\ q.msg = m => p = q /\ p.kind = "session"
  PROVE  Once(m)'
<1>1. \A n \in Nodes : task'[m][n].step = "none" /\ task'[m][n].todo = {}
  BY DEF Resting, Rests
<1>2. \A d \in delivered' : d.by \in Nodes
  BY DEF TypeOK, Deliveries
<1> QED  BY <1>1, <1>2 DEF Once, Unsent, Undelivered

(* How a message that goes through rows goes on.                            *)
LEMMA OnceRows ==
  ASSUME NEW m \in Messages, target'[m] # None,
         \A n \in Nodes : task'[m][n].step # "resolve",
         \A p \in wire' : p.msg = m => p.kind # "session",
         \A d \in delivered' : d.msg = m => d.via = "row",
         \A p \in wire' :
           p.msg = m /\ p.kind = "request" =>
             /\ Rests(m, p.to)'
             /\ \A q \in wire' :
                  q.msg = m =>
                    /\ q.kind = "request" /\ q.to = p.to => q = p
                    /\ q.kind = "row" => q.by # p.to
             /\ \A d \in delivered' : d.msg = m => d.by # p.to,
         \A p \in wire' :
           p.msg = m /\ p.kind = "row" =>
             /\ p.socket \notin task'[m][p.by].todo
             /\ \A q \in wire' :
                  /\ q.msg = m /\ q.kind = "row"
                  /\ q.socket = p.socket /\ q.by = p.by
                  => q = p
             /\ \A d \in delivered' :
                  d.msg = m /\ d.by = p.by => d.address # p.socket,
         \A d \in delivered' : d.msg = m => d.address \notin task'[m][d.by].todo
  PROVE  Once(m)'
BY DEF Once

LEMMA OnceStep == Inv /\ OnceInv /\ TypeOK' /\ [Next]_vars => OnceInv'
<1> SUFFICES ASSUME Inv, OnceInv, TypeOK', [Next]_vars PROVE OnceInv'
  OBVIOUS
<1>a. /\ TypeOK /\ Known /\ twice = {} /\ \A m \in Messages : Once(m)
      /\ target \in [Messages -> Clients \cup {None}]
      /\ task \in [Messages -> [Nodes -> Tasks]]
      /\ wire \in SUBSET Packets /\ delivered \in SUBSET Deliveries
  BY DEF Inv, OnceInv, TypeOK
<1>b. None \notin Clients
  BY ConstantsAssumption
<1>t. \A m \in Messages, n \in Nodes : task[m][n] \in Tasks
  BY <1>a
<1> USE DEF nodes, sockets, stores, mail
(* Nothing new is sent or delivered, and tasks only end.                    *)
<1>c. ASSUME UNCHANGED <<target, delivered, twice>>, wire' \subseteq wire,
             \A m \in Messages, n \in Nodes :
               task'[m][n] = task[m][n] \/ Rests(m, n)'
      PROVE  OnceInv'
  BY <1>a, <1>c, OnceFrame DEF OnceInv
(* A step on one message.                                                   *)
<1>d. ASSUME NEW m \in Messages, NEW n \in Nodes, NEW t \in Tasks,
             Task(m, n, t)
      PROVE  /\ task'[m][n] = t
             /\ \A l \in Nodes : l # n => task'[m][l] = task[m][l]
             /\ \A k \in Messages, l \in Nodes : k # m => task'[k][l] = task[k][l]
  BY <1>a, <1>d, TaskMoves
<1>e. ASSUME NEW m \in Messages, Once(m)', twice' = {},
             \A k \in Messages : k # m => target'[k] = target[k],
             \A k \in Messages, l \in Nodes : k # m => task'[k][l] = task[k][l],
             \A p \in wire' : p \in wire \/ p.msg = m,
             \A d \in delivered' : d \in delivered \/ d.msg = m
      PROVE  OnceInv'
  <2>1. \A k \in Messages : k # m => Once(k)'
    BY <1>a, <1>e, OnceOthers
  <2> QED  BY <1>e, <2>1 DEF OnceInv
<1>f. ASSUME NEW d, d \notin delivered, Emit(d) PROVE twice' = {}
  BY <1>a, <1>f DEF Emit
<1>g. ASSUME NEW m \in Messages, NEW n \in Nodes, Task(m, n, Idle),
             UNCHANGED <<target, wire, delivered, twice>>
      PROVE  OnceInv'
  BY <1>c, <1>d, <1>g, IdleTyped DEF Rests
<1>1. ASSUME NEW m \in Messages, NEW n \in Nodes, NEW c \in Clients, Send(m, n, c)
      PROVE  OnceInv'
  <2> DEFINE s == localClients[n][c]
  <2>1. /\ target[m] = None
        /\ target' = [target EXCEPT ![m] = c]
        /\ UNCHANGED wire
    BY <1>1 DEF Send
  <2>2. Resting(m) /\ Unsent(m) /\ Undelivered(m)
    BY <1>a, <2>1 DEF Once
  <2>3. /\ target'[m] # None
        /\ \A k \in Messages : k # m => target'[k] = target[k]
    BY <1>a, <1>b, <2>1
  <2>4. CASE Emit(Delivery(m, s, s, "local", n)) /\ UNCHANGED task
    <3>1. Delivery(m, s, s, "local", n).msg = m
      BY DEF Delivery
    <3>2. PICK d : d.msg = m /\ Emit(d)
      BY <2>4, <3>1
    <3>3. twice' = {}
      BY <1>f, <2>2, <3>2 DEF Undelivered
    <3>4. delivered' = delivered \cup {d}
      BY <3>2 DEF Emit
    <3>5. Resting(m)' /\ Unsent(m)'
      BY <2>1, <2>2, <2>4 DEF Resting, Rests, Unsent
    <3>6. \A x, y \in delivered' : x.msg = m /\ y.msg = m => x = y
      BY <2>2, <3>4 DEF Undelivered
    <3>7. Once(m)'
      BY <2>3, <3>5, <3>6, OnceAlone
    <3> QED  BY <1>e, <2>1, <2>3, <2>4, <3>2, <3>3, <3>4, <3>7
  <2>5. CASE /\ NoEmit
             /\ \E found \in {session[c], None} :
                  Task(m, n, [Idle EXCEPT !.step = "resolve", !.found = found])
    <3>1. PICK found \in {session[c], None} :
            Task(m, n, [Idle EXCEPT !.step = "resolve", !.found = found])
      BY <2>5
    <3> DEFINE t == [Idle EXCEPT !.step = "resolve", !.found = found]
    <3>2. t \in Tasks /\ t.todo = {}
      <4>1. session[c] \in Sockets \cup {None}
        BY <1>a DEF TypeOK
      <4> QED  BY <4>1 DEF Idle, Tasks
    <3> HIDE DEF t
    <3>3. Task(m, n, t)
      BY <3>1 DEF t
    <3>4. /\ task'[m][n].todo = {}
          /\ \A l \in Nodes : l # n => Rests(m, l)'
          /\ \A k \in Messages, l \in Nodes : k # m => task'[k][l] = task[k][l]
      BY <1>d, <2>2, <3>2, <3>3 DEF Resting, Rests
    <3>5. Unsent(m)' /\ Undelivered(m)' /\ UNCHANGED <<delivered, twice>>
      BY <2>1, <2>2, <2>5 DEF Unsent, Undelivered, NoEmit
    <3>6. Once(m)'
      BY <2>3, <3>4, <3>5 DEF Once, Rests, Unsent, Undelivered
    <3> QED  BY <1>a, <1>e, <2>1, <2>3, <3>4, <3>5, <3>6
  <2> QED  BY <1>1, <2>4, <2>5 DEF Send
(* A task that resolves is all there is of its message.                     *)
<1>h. ASSUME NEW m \in Messages, NEW n \in Nodes, task[m][n].step = "resolve"
      PROVE  /\ Unsent(m) /\ Undelivered(m) /\ target[m] # None
             /\ \A l \in Nodes : l # n => Rests(m, l)
  BY <1>a, <1>h DEF Once, Resting, Rests
<1>i. ASSUME NEW m \in Messages, NEW n \in Nodes, task[m][n].step = "resolve",
             Task(m, n, Idle), UNCHANGED target
      PROVE  /\ Resting(m)' /\ target'[m] # None
             /\ \A k \in Messages, l \in Nodes : k # m => task'[k][l] = task[k][l]
  BY <1>d, <1>h, <1>i, IdleTyped DEF Resting, Rests
<1>2. ASSUME NEW m \in Messages, NEW n \in Nodes, Resolve(m, n) PROVE OnceInv'
  <2> DEFINE s == task[m][n].found
  <2>1. /\ task[m][n].step = "resolve" /\ Task(m, n, Idle) /\ UNCHANGED target
        /\ \/ EmitIfOpen(m, s, "session", n) /\ UNCHANGED wire
           \/ Publish(ToSession(m, n, s)) /\ NoEmit
    BY <1>2 DEF Resolve
  <2>2. /\ Unsent(m) /\ Undelivered(m) /\ Resting(m)' /\ target'[m] # None
        /\ \A k \in Messages, l \in Nodes : k # m => task'[k][l] = task[k][l]
    BY <1>h, <1>i, <2>1
  <2>3. CASE Emit(Delivery(m, s, s, "session", n)) /\ UNCHANGED wire
    <3>1. Delivery(m, s, s, "session", n).msg = m
      BY DEF Delivery
    <3>2. PICK d : d.msg = m /\ Emit(d)
      BY <2>3, <3>1
    <3>3. twice' = {} /\ delivered' = delivered \cup {d}
      BY <1>f, <2>2, <3>2 DEF Undelivered, Emit
    <3>4. /\ Unsent(m)'
          /\ \A x, y \in delivered' : x.msg = m /\ y.msg = m => x = y
      BY <2>2, <2>3, <3>3 DEF Unsent, Undelivered
    <3>5. Once(m)'
      BY <2>2, <3>4, OnceAlone
    <3> QED  BY <1>e, <2>1, <2>2, <2>3, <3>2, <3>3, <3>5
  <2>4. CASE NoEmit /\ UNCHANGED wire
    BY <1>g, <2>1, <2>4 DEF NoEmit
  <2>5. CASE Publish(ToSession(m, n, s)) /\ NoEmit
    <3>1. PICK q : /\ q.msg = m /\ q.kind = "session"
                   /\ wire' \subseteq wire \cup {q}
      BY <2>5 DEF Publish, ToSession, Packet
    <3>2. /\ Undelivered(m)' /\ UNCHANGED <<delivered, twice>>
          /\ \A x, y \in wire' : x.msg = m /\ y.msg = m => x = y /\ x.kind = "session"
      BY <2>2, <2>5, <3>1 DEF Unsent, Undelivered, NoEmit
    <3>3. Once(m)'
      BY <2>2, <3>2, OnceAlone
    <3> QED  BY <1>a, <1>e, <2>1, <2>2, <3>1, <3>2, <3>3
  <2> QED  BY <2>1, <2>3, <2>4, <2>5 DEF EmitIfOpen
<1>3. ASSUME NEW m \in Messages, NEW n \in Nodes, AskMaster(m, n) PROVE OnceInv'
  <2>1. /\ task[m][n].step = "resolve" /\ Task(m, n, Idle)
        /\ UNCHANGED <<target, delivered, twice>>
        /\ wire' \subseteq wire \cup ToMaster(m, n)
    BY <1>3 DEF AskMaster, NoEmit, Publish
  <2>2. /\ Unsent(m) /\ Undelivered(m) /\ Resting(m)' /\ target'[m] # None
        /\ \A k \in Messages, l \in Nodes : k # m => task'[k][l] = task[k][l]
    BY <1>h, <1>i, <2>1
  <2>3. \A p, q \in ToMaster(m, n) :
          /\ p.msg = m /\ p.kind = "request" /\ p.to \in Nodes
          /\ p.to = q.to => p = q
    <3> SUFFICES ASSUME NEW p \in ToMaster(m, n), NEW q \in ToMaster(m, n)
                 PROVE  /\ p.msg = m /\ p.kind = "request" /\ p.to \in Nodes
                        /\ p.to = q.to => p = q
      OBVIOUS
    <3>1. PICK r \in Nodes : p = Packet(r, m, "request", None, FALSE, n)
      BY DEF ToMaster
    <3>2. PICK r2 \in Nodes : q = Packet(r2, m, "request", None, FALSE, n)
      BY DEF ToMaster
    <3>3. /\ p.msg = m /\ p.kind = "request" /\ p.to = r
          /\ q.to = r2
      BY <3>1, <3>2 DEF Packet
    <3> QED  BY <3>1, <3>2, <3>3
  <2>4. \A p \in wire' : p.msg = m => p \in ToMaster(m, n)
    BY <2>1, <2>2 DEF Unsent
  <2>5. Undelivered(m)' /\ \A l \in Nodes : Rests(m, l)'
    BY <2>1, <2>2 DEF Undelivered, Resting
  <2>6. Once(m)'
    BY <2>2, <2>3, <2>4, <2>5 DEF Once, Undelivered, Rests
  <2>7. \A p \in wire' : p \in wire \/ p.msg = m
    BY <2>1, <2>3
  <2> QED  BY <1>a, <1>e, <2>1, <2>2, <2>6, <2>7
<1>q. ASSUME NEW m \in Messages, NEW n \in Nodes, NEW request \in BOOLEAN,
             Query(m, n, request)
      PROVE  \/ Task(m, n, Idle)
             \/ \E t \in Tasks : t.step = "dispatch" /\ Task(m, n, t)
  <2> DEFINE t == [Idle EXCEPT !.step = "dispatch", !.request = request,
                               !.todo = rows \cap SocketsOf(target[m])]
  <2>1. t \in Tasks /\ t.step = "dispatch"
    BY DEF Idle, Tasks, SocketsOf
  <2> QED  BY <1>q, <2>1 DEF Query
<1>4. ASSUME NEW m \in Messages, NEW n \in Nodes, AskDatabase(m, n) PROVE OnceInv'
  <2>1. /\ task[m][n].step = "resolve" /\ Query(m, n, FALSE)
        /\ UNCHANGED <<target, wire, delivered, twice>>
    BY <1>4 DEF AskDatabase, NoEmit
  <2>2. CASE Task(m, n, Idle)
    BY <1>g, <2>1, <2>2
  <2>3. CASE \E t \in Tasks : t.step = "dispatch" /\ Task(m, n, t)
    <3>1. PICK t \in Tasks : t.step = "dispatch" /\ Task(m, n, t)
      BY <2>3
    <3>2. /\ task'[m][n].step = "dispatch"
          /\ \A l \in Nodes : l # n => Rests(m, l)'
          /\ \A k \in Messages, l \in Nodes : k # m => task'[k][l] = task[k][l]
      BY <1>d, <1>h, <2>1, <3>1 DEF Rests
    <3>3. Unsent(m)' /\ Undelivered(m)' /\ target'[m] # None
      BY <1>h, <2>1 DEF Unsent, Undelivered
    <3>4. Once(m)'
      BY <3>2, <3>3 DEF Once, Unsent, Undelivered, Rests
    <3> QED  BY <1>a, <1>e, <2>1, <3>2, <3>4
  <2> QED  BY <1>q, <2>1, <2>2, <2>3
(* A message that goes through rows has left nothing but rows behind.       *)
<1>j. ASSUME NEW m \in Messages, NEW n \in Nodes, task[m][n].step = "dispatch"
      PROVE  /\ target[m] # None
             /\ \A l \in Nodes : task[m][l].step # "resolve"
             /\ \A p \in wire :
                  p.msg = m => /\ p.kind # "session"
                               /\ p.kind = "request" => p.to # n
             /\ \A d \in delivered : d.msg = m => d.via = "row"
  BY <1>a, <1>j DEF Once, Resting, Rests
<1>5. ASSUME NEW m \in Messages, NEW n \in Nodes, NEW s \in Sockets,
             Dispatch(m, n, s)
      PROVE  OnceInv'
  <2> DEFINE new == [task[m][n] EXCEPT !.todo = task[m][n].todo \ {s}]
  <2>1. /\ task[m][n].step = "dispatch" /\ s \in task[m][n].todo
        /\ Task(m, n, new) /\ UNCHANGED target
        /\ \/ EmitIfOpen(m, s, "row", n) /\ UNCHANGED wire
           \/ /\ Publish({Packet(node[s], m, "row", s, ~task[m][n].request, n)})
              /\ NoEmit
    BY <1>5 DEF Dispatch
  <2>2. /\ new \in Tasks /\ new.step = "dispatch"
        /\ new.todo = task[m][n].todo \ {s}
    BY <1>t, <2>1 DEF Tasks
  <2> HIDE DEF new
  <2>3. /\ task'[m][n] = new
        /\ \A l \in Nodes : l # n => task'[m][l] = task[m][l]
        /\ \A k \in Messages, l \in Nodes : k # m => task'[k][l] = task[k][l]
    BY <1>d, <2>1, <2>2
  <2>4. /\ s \notin task'[m][n].todo
        /\ \A l \in Nodes : /\ task'[m][l].todo \subseteq task[m][l].todo
                            /\ task'[m][l].step = task[m][l].step
    BY <2>1, <2>2, <2>3
  <2>5. /\ target'[m] # None
        /\ \A l \in Nodes : task'[m][l].step # "resolve"
        /\ \A p \in wire :
             p.msg = m => /\ p.kind # "session"
                          /\ p.kind = "request" => p.to # n /\ Rests(m, p.to)'
        /\ \A d \in delivered : d.msg = m => d.via = "row"
    <3>1. \A p \in wire :
            p.msg = m /\ p.kind = "request" => p.to # n /\ Rests(m, p.to)'
      BY <1>a, <1>j, <2>1, <2>3 DEF Once, Rests, Packets
    <3> QED  BY <1>j, <2>1, <2>4, <3>1
  <2>r. \A p \in wire :
          p.msg = m /\ p.kind = "request" =>
            /\ \A q \in wire :
                 q.msg = m =>
                   /\ q.kind = "request" /\ q.to = p.to => q = p
                   /\ q.kind = "row" => q.by # p.to
            /\ \A d \in delivered : d.msg = m => d.by # p.to
    BY <1>a DEF Once
  <2>w. \A p \in wire :
          p.msg = m /\ p.kind = "row" =>
            /\ p.socket \notin task'[m][p.by].todo
            /\ p.by = n => p.socket # s
            /\ \A q \in wire :
                 /\ q.msg = m /\ q.kind = "row"
                 /\ q.socket = p.socket /\ q.by = p.by
                 => q = p
            /\ \A d \in delivered :
                 d.msg = m /\ d.by = p.by => d.address # p.socket
    BY <1>a, <2>1, <2>4 DEF Once, Packets
  <2>d. \A d \in delivered :
          d.msg = m => /\ d.address \notin task'[m][d.by].todo
                       /\ d.by = n => d.address # s
    BY <1>a, <2>1, <2>4 DEF Once, Deliveries
  <2>6. CASE Emit(Delivery(m, s, s, "row", n)) /\ UNCHANGED wire
    <3>1. PICK d : /\ d.msg = m /\ d.address = s /\ d.by = n /\ d.via = "row"
                   /\ Emit(d)
      BY <2>6 DEF Delivery
    <3>2. d \notin delivered
      BY <2>d, <3>1
    <3>3. twice' = {} /\ delivered' = delivered \cup {d}
      BY <1>f, <3>1, <3>2 DEF Emit
    <3>4. Once(m)'
      BY <2>4, <2>5, <2>6, <2>r, <2>w, <2>d, <3>1, <3>3, OnceRows
    <3> QED  BY <1>e, <2>1, <2>3, <2>6, <3>1, <3>3, <3>4
  <2>7. CASE NoEmit /\ UNCHANGED wire
    <3>1. UNCHANGED <<delivered, twice, wire>>
      BY <2>7 DEF NoEmit
    <3>2. Once(m)'
      BY <2>5, <2>r, <2>w, <2>d, <3>1, OnceRows
    <3> QED  BY <1>a, <1>e, <2>1, <2>3, <3>1, <3>2
  <2>8. CASE /\ Publish({Packet(node[s], m, "row", s, ~task[m][n].request, n)})
             /\ NoEmit
    <3> DEFINE packet == Packet(node[s], m, "row", s, ~task[m][n].request, n)
    <3>0. /\ packet.msg = m /\ packet.kind = "row" /\ packet.socket = s /\ packet.by = n
          /\ wire' \subseteq wire \cup {packet}
      BY <2>8 DEF Publish, Packet
    <3>1. PICK q : /\ q.msg = m /\ q.kind = "row" /\ q.socket = s /\ q.by = n
                   /\ wire' \subseteq wire \cup {q}
      BY <3>0
    <3>2. UNCHANGED <<delivered, twice>>
      BY <2>8 DEF NoEmit
    <3>3. Once(m)'
      BY <2>4, <2>5, <2>r, <2>w, <2>d, <3>1, <3>2, OnceRows
    <3> QED  BY <1>a, <1>e, <2>1, <2>3, <3>1, <3>2, <3>3
  <2> QED  BY <2>1, <2>6, <2>7, <2>8 DEF EmitIfOpen
<1>6. ASSUME NEW m \in Messages, NEW n \in Nodes, Dispatched(m, n)
      PROVE  OnceInv'
  BY <1>6, <1>g DEF Dispatched
<1>7. ASSUME NEW p \in wire, ReceiveRoute(p) PROVE OnceInv'
  <2> DEFINE m == p.msg
  <2>1. /\ p.kind \in {"session", "row"} /\ p.msg \in Messages
        /\ p.by \in Nodes /\ wire' = wire \ {p}
        /\ UNCHANGED <<target, task>>
        /\ \/ UNCHANGED <<delivered, twice>>
           \/ \E d : /\ d.msg = m /\ d.address = p.socket /\ d.by = p.by
                    /\ d.via = p.kind /\ Emit(d)
    BY <1>7, <1>a DEF ReceiveRoute, Packets, NoEmit, Delivery
  <2>2. CASE UNCHANGED <<delivered, twice>>
    BY <1>c, <2>1, <2>2
  <2>3. ASSUME NEW d, d.msg = m, d.address = p.socket, d.by = p.by,
               d.via = p.kind, Emit(d)
        PROVE  OnceInv'
    <3>1. d \notin delivered
      BY <1>a, <2>1, <2>3 DEF Once, Undelivered
    <3>2. twice' = {} /\ delivered' = delivered \cup {d}
      BY <1>f, <2>3, <3>1 DEF Emit
    <3>3. target'[m] # None
      BY <1>a, <2>1 DEF Once, Unsent
    <3>4. ASSUME p.kind = "session" PROVE Once(m)'
      <4>1. Resting(m)'
        BY <1>a, <2>1, <3>4 DEF Once, Resting, Rests
      <4>2. /\ Unsent(m)'
            /\ \A x, y \in delivered' : x.msg = m /\ y.msg = m => x = y
        BY <1>a, <2>1, <3>2, <3>4 DEF Once, Unsent, Undelivered
      <4> QED  BY <2>1, <3>3, <4>1, <4>2, OnceAlone
    <3>5. ASSUME p.kind = "row" PROVE Once(m)'
      <4>1. \A n \in Nodes : task'[m][n].step # "resolve"
        BY <1>a, <2>1 DEF Once, Unsent
      <4>2. /\ \A q \in wire : q.msg = m => q.kind # "session"
            /\ \A x \in delivered : x.msg = m => x.via = "row"
        BY <1>a, <2>1, <3>5 DEF Once, Unsent
      <4>3. \A q \in wire :
              q.msg = m /\ q.kind = "request" =>
                /\ Rests(m, q.to)' /\ q.to # p.by
                /\ \A x \in wire :
                     x.msg = m =>
                       /\ x.kind = "request" /\ x.to = q.to => x = q
                       /\ x.kind = "row" => x.by # q.to
                /\ \A x \in delivered : x.msg = m => x.by # q.to
        BY <1>a, <2>1, <3>5 DEF Once, Rests
      <4>4. \A q \in wire :
              q.msg = m /\ q.kind = "row" =>
                /\ q.socket \notin task'[m][q.by].todo
                /\ q # p => ~(q.socket = p.socket /\ q.by = p.by)
                /\ \A x \in wire :
                     /\ x.msg = m /\ x.kind = "row"
                     /\ x.socket = q.socket /\ x.by = q.by
                     => x = q
                /\ \A x \in delivered :
                     x.msg = m /\ x.by = q.by => x.address # q.socket
        BY <1>a, <2>1, <3>5 DEF Once
      <4>5. \A x \in delivered' : x.msg = m => x.address \notin task'[m][x.by].todo
        BY <1>a, <2>1, <2>3, <3>2, <3>5, <4>4 DEF Once
      <4> QED  BY <2>1, <2>3, <3>2, <3>3, <3>5, <4>1, <4>2, <4>3, <4>4, <4>5, OnceRows
    <3>6. Once(m)'
      BY <2>1, <3>4, <3>5
    <3> QED  BY <1>e, <2>1, <2>3, <3>2, <3>6
  <2> QED  BY <2>1, <2>2, <2>3
<1>8. ASSUME NEW p \in wire, ReceiveRequest(p) PROVE OnceInv'
  <2> DEFINE m == p.msg
  <2>1. /\ p.kind = "request" /\ p.msg \in Messages /\ p.to \in Nodes
        /\ wire' = wire \ {p} /\ UNCHANGED <<target, delivered, twice>>
        /\ Query(m, p.to, TRUE) \/ UNCHANGED task
    BY <1>8, <1>a DEF ReceiveRequest, Packets
  <2>2. CASE UNCHANGED task
    BY <1>c, <2>1, <2>2
  <2>3. CASE Task(m, p.to, Idle)
    BY <1>c, <1>d, <2>1, <2>3, IdleTyped DEF Rests
  <2>4. CASE \E t \in Tasks : t.step = "dispatch" /\ Task(m, p.to, t)
    <3>1. PICK t \in Tasks : t.step = "dispatch" /\ Task(m, p.to, t)
      BY <2>4
    <3>2. /\ task'[m][p.to].step = "dispatch"
          /\ \A l \in Nodes : l # p.to => task'[m][l] = task[m][l]
          /\ \A k \in Messages, l \in Nodes : k # m => task'[k][l] = task[k][l]
      BY <1>d, <2>1, <3>1
    <3>3. /\ target'[m] # None
          /\ \A n \in Nodes : task'[m][n].step # "resolve"
      BY <1>a, <2>1, <3>2 DEF Once, Unsent
    <3>4. /\ \A q \in wire : q.msg = m => q.kind # "session"
          /\ \A x \in delivered : x.msg = m => x.via = "row" /\ x.by # p.to
      BY <1>a, <2>1 DEF Once, Unsent
    <3>5. \A q \in wire' :
            q.msg = m /\ q.kind = "request" =>
              /\ Rests(m, q.to)'
              /\ \A x \in wire :
                   x.msg = m =>
                     /\ x.kind = "request" /\ x.to = q.to => x = q
                     /\ x.kind = "row" => x.by # q.to
              /\ \A x \in delivered : x.msg = m => x.by # q.to
      BY <1>a, <2>1, <3>2 DEF Once, Rests, Packets
    <3>6. \A q \in wire :
            q.msg = m /\ q.kind = "row" =>
              /\ q.socket \notin task'[m][q.by].todo
              /\ \A x \in wire :
                   /\ x.msg = m /\ x.kind = "row"
                   /\ x.socket = q.socket /\ x.by = q.by
                   => x = q
              /\ \A x \in delivered :
                   x.msg = m /\ x.by = q.by => x.address # q.socket
      BY <1>a, <2>1, <3>2 DEF Once, Packets
    <3>7. \A x \in delivered : x.msg = m => x.address \notin task'[m][x.by].todo
      BY <1>a, <2>1, <3>2, <3>4 DEF Once, Deliveries
    <3>8. Once(m)'
      BY <2>1, <3>3, <3>4, <3>5, <3>6, <3>7, OnceRows
    <3> QED  BY <1>a, <1>e, <2>1, <3>2, <3>8
  <2> QED  BY <1>q, <2>1, <2>2, <2>3, <2>4
<1>9. ASSUME NEW p \in wire, Lose(p) PROVE OnceInv'
  BY <1>9, <1>c DEF Lose
<1>k. ASSUME NEW n \in Nodes, Ends(n) PROVE OnceInv'
  <2>1. \A m \in Messages, l \in Nodes : task'[m][l] = task[m][l] \/ Rests(m, l)'
    BY <1>a, <1>k, IdleTyped DEF Ends, Rests
  <2> QED  BY <1>c, <1>k, <2>1 DEF Ends
<1>10. ASSUME NEW m \in Messages, NEW n \in Nodes, PublishRejected(m, n)
       PROVE  OnceInv'
  BY <1>10, <1>g, <1>k DEF PublishRejected
<1>11. ASSUME NEW n \in Nodes, Crash(n) PROVE OnceInv'
  BY <1>11, <1>k DEF Crash
<1>l. ASSUME UNCHANGED mail PROVE OnceInv'
  BY <1>c, <1>l
<1>12. ASSUME NEW s \in Sockets,
              \/ \E c \in Clients, n \in Nodes : Register(s, c, n)
              \/ CreateRow(s) \/ CacheLocally(s) \/ Close(s) \/ RemoveRow(s)
              \/ Forget(s) \/ ScanSessions(s) \/ MarkGone(s)
       PROVE  OnceInv'
  <2>1. UNCHANGED mail
    BY <1>12 DEF Register, CreateRow, CacheLocally, Close, RemoveRow, Forget,
                 ScanSessions, MarkGone, LeaveStep
  <2> QED  BY <1>l, <2>1
<1>13. ASSUME NEW c \in Clients, ExpireSession(c) PROVE OnceInv'
  BY <1>13, <1>l DEF ExpireSession
<1>14. ASSUME NEW n \in Nodes,
              Restart(n) \/ Joined(n) \/ Sweep(n) \/ TakeOver(n) \/ GiveUp(n)
       PROVE  OnceInv'
  BY <1>14, <1>l DEF Restart, Joined, Sweep, TakeOver, GiveUp
<1>15. CASE UNCHANGED vars
  BY <1>15, <1>l DEF vars
<1> QED
  BY <1>1, <1>2, <1>3, <1>4, <1>5, <1>6, <1>7, <1>8, <1>9, <1>10, <1>11, <1>12,
     <1>13, <1>14, <1>15
  DEF Next

LEMMA OnceInit == Init => OnceInv
BY IdleTyped DEF Init, OnceInv, Once, Resting, Rests, Unsent, Undelivered

(* Routing emits no message to a socket twice: it takes one of the three    *)
(* ways, and goes through the rows of the client once                       *)
(* (cluster.service.ts:374).                                                *)
THEOREM EmittedAtMostOnce == Spec => []AtMostOnce
<1>1. Init => Inv /\ OnceInv
  BY InvInit, OnceInit
<1>2. Inv /\ OnceInv /\ [Next]_vars => (Inv /\ OnceInv)'
  BY InvStep, OnceStep DEF Inv
<1>3. Inv /\ OnceInv => AtMostOnce
  <2> SUFFICES ASSUME Inv, OnceInv,
                      NEW d \in delivered, NEW e \in delivered,
                      d.msg = e.msg, d # e
               PROVE  d.via = "row" /\ e.via = "row"
    BY DEF AtMostOnce, OnceInv
  <2>1. d.msg \in Messages
    BY DEF Inv, TypeOK, Deliveries
  <2> QED  BY <2>1 DEF OnceInv, Once
<1> QED  BY <1>1, <1>2, <1>3, PTL DEF Spec

-----------------------------------------------------------------------------
(* Whatever names a socket on behalf of a client names one of its own: the  *)
(* session, the caches, a task, a packet, and what has been delivered.      *)
TaskOwn(m, t) ==
  /\ t.step = "resolve" /\ t.found # None => client[t.found] = target[m]
  /\ \A s \in t.todo : client[s] = target[m]

Addressed ==
  /\ \A c \in Clients : session[c] # None => client[session[c]] = c
  /\ \A n \in Nodes, c \in Clients :
       localClients[n][c] # None => client[localClients[n][c]] = c
  /\ \A m \in Messages, n \in Nodes : TaskOwn(m, task[m][n])
  /\ \A p \in wire : p.kind # "request" => client[p.socket] = target[p.msg]
  /\ \A d \in delivered : client[d.socket] = target[d.msg]

LEMMA AddressedStep ==
  Inv /\ OnceInv /\ Addressed /\ TypeOK' /\ [Next]_vars => Addressed'
<1> SUFFICES ASSUME Inv, OnceInv, Addressed, TypeOK', [Next]_vars
             PROVE  Addressed'
  OBVIOUS
<1>a. /\ TypeOK /\ Known /\ Addressed /\ \A m \in Messages : Once(m)
      /\ client \in [Sockets -> Clients \cup {None}]
      /\ node \in [Sockets -> Nodes \cup {None}]
      /\ target \in [Messages -> Clients \cup {None}]
      /\ task \in [Messages -> [Nodes -> Tasks]]
      /\ session \in [Clients -> Sockets \cup {None}]
      /\ localClients \in [Nodes -> [Clients -> Sockets \cup {None}]]
      /\ rows \in SUBSET Sockets
      /\ wire \in SUBSET Packets /\ delivered \in SUBSET Deliveries
  BY DEF Inv, OnceInv, TypeOK
<1>b. None \notin Nodes \cup Clients \cup Sockets
  BY ConstantsAssumption
<1>t. \A m \in Messages, n \in Nodes : task[m][n] \in Tasks
  BY <1>a
<1> USE DEF nodes, sockets, stores, mail
(* What is not as before names a socket of the client.                      *)
<1>c. ASSUME UNCHANGED <<client, target>>,
             \A c \in Clients : \/ session'[c] \in {session[c], None}
                                \/ client[session'[c]] = c,
             \A n \in Nodes, c \in Clients :
               \/ localClients'[n][c] \in {localClients[n][c], None}
               \/ client[localClients'[n][c]] = c,
             \A m \in Messages, n \in Nodes :
               task'[m][n] = task[m][n] \/ TaskOwn(m, task'[m][n]),
             \A p \in wire' :
               \/ p \in wire \/ p.kind = "request"
               \/ client[p.socket] = target[p.msg],
             \A d \in delivered' :
               d \in delivered \/ client[d.socket] = target[d.msg]
      PROVE  Addressed'
  BY <1>a, <1>c DEF Addressed, TaskOwn
(* A message that has been sent keeps its addressee.                        *)
<1>d. /\ \A p \in wire : p.msg \in Messages /\ target[p.msg] # None
      /\ \A d \in delivered : d.msg \in Messages /\ target[d.msg] # None
  BY <1>a DEF Once, Unsent, Undelivered, Packets, Deliveries
<1>1. ASSUME NEW s \in Sockets, NEW c \in Clients, NEW n \in Nodes,
             Register(s, c, n)
      PROVE  Addressed'
  <2>1. /\ client[s] = None
        /\ client' = [client EXCEPT ![s] = c]
        /\ session' = [session EXCEPT ![c] = s]
        /\ UNCHANGED <<localClients, target, task, wire, delivered>>
    BY <1>1 DEF Register
  <2>2. client'[s] = c /\ \A k : client[k] # None => client'[k] = client[k]
    <3>1. \A k \in Sockets : k # s => client'[k] = client[k]
      BY <1>a, <2>1
    <3>2. \A k : k \notin Sockets => client'[k] = client[k]
      BY <1>a, <2>1
    <3> QED  BY <1>a, <2>1, <3>1, <3>2
  <2>3. \A k \in Clients : session'[k] # None => client'[session'[k]] = k
    BY <1>a, <1>b, <2>1, <2>2 DEF Addressed
  <2>4. \A l \in Nodes, k \in Clients :
          localClients[l][k] # None => client'[localClients[l][k]] = k
    BY <1>a, <1>b, <2>2 DEF Addressed
  <2>5. ASSUME NEW m \in Messages, NEW l \in Nodes
        PROVE  TaskOwn(m, task[m][l])'
    <3>1. TaskOwn(m, task[m][l])
      BY <1>a DEF Addressed
    <3>2. /\ task[m][l].found # None => client[task[m][l].found] # None
          /\ \A k \in task[m][l].todo : client[k] # None
      BY <1>a DEF Known, Opened
    <3> QED  BY <2>1, <2>2, <3>1, <3>2 DEF TaskOwn
  <2>6. /\ \A p \in wire : p.kind # "request" => client'[p.socket] = target[p.msg]
        /\ \A d \in delivered : client'[d.socket] = target[d.msg]
    BY <1>a, <1>d, <2>2 DEF Addressed
  <2> QED  BY <2>1, <2>3, <2>4, <2>5, <2>6 DEF Addressed
<1>2. ASSUME NEW s \in Sockets,
             \/ CreateRow(s) \/ CacheLocally(s) \/ Close(s) \/ RemoveRow(s)
             \/ Forget(s) \/ ScanSessions(s) \/ MarkGone(s)
      PROVE  Addressed'
  <2>1. UNCHANGED <<client, target, task, wire, delivered>>
    BY <1>2 DEF CreateRow, CacheLocally, Close, RemoveRow, Forget, ScanSessions,
                MarkGone, LeaveStep
  <2>2. Opened(s)
    <3>1. registering[s] # "none" \/ leaving[s] # "none" \/ s \in open
      BY <1>2 DEF CreateRow, CacheLocally, Close, RemoveRow, Forget, ScanSessions,
                  MarkGone, LeaveStep
    <3> QED  BY <1>a, <3>1 DEF Known
  <2>3. client[s] \in Clients /\ node[s] \in Nodes
    BY <1>a, <2>2 DEF Opened
  <2>4. \A c \in Clients : \/ session'[c] \in {session[c], None}
                           \/ client[session'[c]] = c
    BY <1>2, <1>a, <2>3 DEF CreateRow, CacheLocally, Close, RemoveRow, Forget,
                            ScanSessions, MarkGone, LeaveStep
  <2>5. \/ UNCHANGED localClients
        \/ \E x \in {s, None} :
             localClients' = [localClients EXCEPT ![node[s]] =
                                [localClients[node[s]] EXCEPT ![client[s]] = x]]
    BY <1>2 DEF CreateRow, CacheLocally, Close, RemoveRow, Forget, Forgotten,
                ScanSessions, MarkGone, LeaveStep
  <2>6. \A n \in Nodes, c \in Clients :
          \/ localClients'[n][c] \in {localClients[n][c], None}
          \/ client[localClients'[n][c]] = c
    BY <1>a, <2>3, <2>5
  <2> QED  BY <1>c, <2>1, <2>4, <2>6
<1>3. ASSUME NEW c \in Clients, ExpireSession(c) PROVE Addressed'
  BY <1>3, <1>a, <1>c DEF ExpireSession
<1>4. ASSUME NEW m \in Messages, NEW n \in Nodes, NEW c \in Clients, Send(m, n, c)
      PROVE  Addressed'
  <2> DEFINE s == localClients[n][c]
  <2>1. /\ target[m] = None /\ target' = [target EXCEPT ![m] = c]
        /\ UNCHANGED <<client, session, wire>>
    BY <1>4 DEF Send
  <2>2. /\ target'[m] = c
        /\ \A k \in Messages : target[k] # None => target'[k] = target[k]
        /\ \A k \in Messages : k # m => target'[k] = target[k]
    BY <1>a, <2>1
  <2>3. Resting(m) /\ Unsent(m) /\ Undelivered(m)
    BY <1>a, <2>1 DEF Once
  <2>4. /\ \A p \in wire : p.kind # "request" => client[p.socket] = target'[p.msg]
        /\ \A d \in delivered : client[d.socket] = target'[d.msg]
    BY <1>a, <1>d, <2>2 DEF Addressed
  <2>5. ASSUME NEW k \in Messages, NEW l \in Nodes, task'[k][l] = task[k][l]
        PROVE  TaskOwn(k, task[k][l])'
    <3>1. CASE k = m
      BY <2>3, <2>5, <3>1 DEF Resting, Rests, TaskOwn
    <3>2. CASE k # m
      BY <1>a, <2>1, <2>2, <2>5, <3>2 DEF Addressed, TaskOwn
    <3> QED  BY <3>1, <3>2
  <2>6. CASE /\ Cached(s) /\ Emit(Delivery(m, s, s, "local", n))
             /\ UNCHANGED <<localClients, task>>
    <3>1. client[s] = c
      BY <1>a, <2>6 DEF Addressed, Cached
    <3>2. \A d \in delivered' : client[d.socket] = target'[d.msg]
      BY <2>2, <2>4, <2>6, <3>1 DEF Emit, Delivery
    <3>3. \A k \in Messages, l \in Nodes : TaskOwn(k, task[k][l])'
      BY <2>5, <2>6
    <3> QED  BY <1>a, <2>1, <2>4, <2>6, <3>2, <3>3 DEF Addressed
  <2>7. CASE /\ NoEmit /\ localClients' = [localClients EXCEPT ![n][c] = None]
             /\ \E found \in {session[c], None} :
                  Task(m, n, [Idle EXCEPT !.step = "resolve", !.found = found])
    <3>1. PICK found \in {session[c], None} :
            Task(m, n, [Idle EXCEPT !.step = "resolve", !.found = found])
      BY <2>7
    <3> DEFINE t == [Idle EXCEPT !.step = "resolve", !.found = found]
    <3>2. t \in Tasks /\ t.found = found /\ t.todo = {}
      BY <1>a DEF Idle, Tasks
    <3> HIDE DEF t
    <3>3. Task(m, n, t)
      BY <3>1 DEF t
    <3>4. /\ task'[m][n] = t
          /\ \A k \in Messages, l \in Nodes :
               k # m \/ l # n => task'[k][l] = task[k][l]
      BY <1>a, <3>2, <3>3, TaskMoves
    <3>5. TaskOwn(m, t)'
      BY <1>a, <2>1, <2>2, <3>2, <3>4 DEF Addressed, TaskOwn
    <3>6. \A k \in Messages, l \in Nodes : TaskOwn(k, task[k][l])'
      BY <2>5, <3>4, <3>5
    <3>7. \A l \in Nodes, k \in Clients :
            localClients'[l][k] # None => client'[localClients'[l][k]] = k
      BY <1>a, <2>1, <2>7 DEF Addressed
    <3> QED  BY <1>a, <2>1, <2>4, <2>7, <3>6, <3>7 DEF Addressed, NoEmit
  <2> QED  BY <1>4, <2>6, <2>7 DEF Send
(* A task of a node goes on.                                                *)
<1>e. ASSUME NEW m \in Messages, NEW n \in Nodes, NEW t \in Tasks,
             Task(m, n, t), TaskOwn(m, t)
      PROVE  \A k \in Messages, l \in Nodes :
               task'[k][l] = task[k][l] \/ TaskOwn(k, task'[k][l])
  BY <1>a, <1>e, TaskMoves
<1>i. \A m \in Messages : TaskOwn(m, Idle)
  BY IdleTyped DEF TaskOwn
<1>5. ASSUME NEW m \in Messages, NEW n \in Nodes, Resolve(m, n) PROVE Addressed'
  <2> DEFINE s == task[m][n].found
  <2>1. /\ task[m][n].step = "resolve" /\ s # None /\ Task(m, n, Idle)
        /\ \/ EmitIfOpen(m, s, "session", n) /\ UNCHANGED wire
           \/ Publish(ToSession(m, n, s)) /\ NoEmit
        /\ UNCHANGED <<client, target, session, localClients>>
    BY <1>5 DEF Resolve
  <2>2. client[s] = target[m]
    BY <1>a, <2>1 DEF Addressed, TaskOwn
  <2>3. /\ \A p \in wire' : p \in wire \/ client[p.socket] = target[p.msg]
        /\ \A d \in delivered' : d \in delivered \/ client[d.socket] = target[d.msg]
    BY <2>1, <2>2 DEF EmitIfOpen, Emit, NoEmit, Delivery, Publish, ToSession, Packet
  <2>4. \A k \in Messages, l \in Nodes :
          task'[k][l] = task[k][l] \/ TaskOwn(k, task'[k][l])
    BY <1>e, <1>i, <2>1, IdleTyped
  <2> QED  BY <1>c, <2>1, <2>3, <2>4
<1>6. ASSUME NEW m \in Messages, NEW n \in Nodes, AskMaster(m, n) PROVE Addressed'
  <2>1. /\ Publish(ToMaster(m, n)) /\ Task(m, n, Idle)
        /\ UNCHANGED <<client, target, session, localClients, delivered>>
    BY <1>6 DEF AskMaster, NoEmit
  <2>2. \A p \in wire' : p \in wire \/ p.kind = "request"
    BY <2>1 DEF Publish, ToMaster, Packet
  <2>3. \A k \in Messages, l \in Nodes :
          task'[k][l] = task[k][l] \/ TaskOwn(k, task'[k][l])
    BY <1>e, <1>i, <2>1, IdleTyped
  <2> QED  BY <1>c, <2>1, <2>2, <2>3
<1>q. ASSUME NEW m \in Messages, NEW n \in Nodes, NEW request \in BOOLEAN,
             Query(m, n, request)
      PROVE  \A k \in Messages, l \in Nodes :
               task'[k][l] = task[k][l] \/ TaskOwn(k, task'[k][l])
  <2> DEFINE t == [Idle EXCEPT !.step = "dispatch", !.request = request,
                               !.todo = rows \cap SocketsOf(target[m])]
  <2>0. /\ t \in Tasks /\ t.step = "dispatch"
        /\ t.todo = rows \cap SocketsOf(target[m])
    BY <1>a DEF Idle, Tasks
  <2> HIDE DEF t
  <2>1. TaskOwn(m, t)
    BY <2>0 DEF SocketsOf, TaskOwn
  <2>2. CASE Task(m, n, t)
    BY <1>e, <2>0, <2>1, <2>2
  <2>3. CASE Task(m, n, Idle)
    BY <1>e, <1>i, <2>3, IdleTyped
  <2> QED  BY <1>q, <2>2, <2>3 DEF Query, t
<1>7. ASSUME NEW m \in Messages, NEW n \in Nodes, AskDatabase(m, n) PROVE Addressed'
  <2>1. /\ Query(m, n, FALSE)
        /\ UNCHANGED <<client, target, session, localClients, wire, delivered>>
    BY <1>7 DEF AskDatabase, NoEmit
  <2> QED  BY <1>c, <1>q, <2>1
<1>8. ASSUME NEW m \in Messages, NEW n \in Nodes, NEW s \in Sockets,
             Dispatch(m, n, s)
      PROVE  Addressed'
  <2> DEFINE new == [task[m][n] EXCEPT !.todo = task[m][n].todo \ {s}]
  <2>1. /\ s \in task[m][n].todo /\ Task(m, n, new)
        /\ \/ EmitIfOpen(m, s, "row", n) /\ UNCHANGED wire
           \/ /\ Publish({Packet(node[s], m, "row", s, ~task[m][n].request, n)})
              /\ NoEmit
        /\ UNCHANGED <<client, target, session, localClients>>
    BY <1>8 DEF Dispatch
  <2>2. client[s] = target[m]
    BY <1>a, <2>1 DEF Addressed, TaskOwn
  <2>3. /\ \A p \in wire' : p \in wire \/ client[p.socket] = target[p.msg]
        /\ \A d \in delivered' : d \in delivered \/ client[d.socket] = target[d.msg]
    BY <2>1, <2>2 DEF EmitIfOpen, Emit, NoEmit, Delivery, Publish, Packet
  <2>n. /\ new \in Tasks
        /\ new.step = task[m][n].step /\ new.found = task[m][n].found
        /\ new.todo = task[m][n].todo \ {s}
    BY <1>t DEF Tasks
  <2> HIDE DEF new
  <2>4. TaskOwn(m, new)
    BY <1>a, <2>n DEF Addressed, TaskOwn
  <2>5. \A k \in Messages, l \in Nodes :
          task'[k][l] = task[k][l] \/ TaskOwn(k, task'[k][l])
    BY <1>e, <2>1, <2>4, <2>n
  <2> QED  BY <1>c, <2>1, <2>3, <2>5
<1>f. ASSUME NEW m \in Messages, NEW n \in Nodes, Task(m, n, Idle),
             UNCHANGED <<client, target, session, localClients, wire, delivered>>
      PROVE  Addressed'
  <2>1. \A k \in Messages, l \in Nodes :
          task'[k][l] = task[k][l] \/ TaskOwn(k, task'[k][l])
    BY <1>e, <1>f, <1>i, IdleTyped
  <2> QED  BY <1>c, <1>f, <2>1
<1>9. ASSUME NEW m \in Messages, NEW n \in Nodes, Dispatched(m, n) PROVE Addressed'
  BY <1>9, <1>f DEF Dispatched
<1>10. ASSUME NEW p \in wire, ReceiveRoute(p) PROVE Addressed'
  <2> DEFINE s == Substitute(p)
  <2>1. /\ p.kind # "request" /\ wire' \subseteq wire
        /\ \/ /\ p.socket \in open
              /\ Emit(Delivery(p.msg, p.socket, p.socket, p.kind, p.by))
           \/ Cached(s) /\ Emit(Delivery(p.msg, s, p.socket, p.kind, p.by))
           \/ NoEmit
        /\ UNCHANGED <<client, target, session, localClients, task>>
    BY <1>10 DEF ReceiveRoute
  <2>2. client[p.socket] = target[p.msg] /\ p.to \in Nodes /\ target[p.msg] \in Clients
    BY <1>a, <1>d, <2>1 DEF Addressed, Packets
  <2>3. Cached(s) => client[s] = target[p.msg]
    BY <1>a, <2>2 DEF Cached, Substitute, Addressed
  <2>4. \A d \in delivered' : d \in delivered \/ client[d.socket] = target[d.msg]
    BY <2>1, <2>2, <2>3 DEF Emit, NoEmit, Delivery
  <2> QED  BY <1>c, <2>1, <2>4
<1>11. ASSUME NEW p \in wire, ReceiveRequest(p) PROVE Addressed'
  <2>1. /\ Query(p.msg, p.to, TRUE) \/ UNCHANGED task
        /\ wire' \subseteq wire
        /\ UNCHANGED <<client, target, session, localClients, delivered>>
    BY <1>11 DEF ReceiveRequest
  <2>2. p.msg \in Messages /\ p.to \in Nodes
    BY <1>a DEF Packets
  <2> QED  BY <1>c, <1>q, <2>1, <2>2
<1>12. ASSUME NEW p \in wire, Lose(p) PROVE Addressed'
  BY <1>12, <1>c DEF Lose
<1>g. ASSUME NEW n \in Nodes, Ends(n) PROVE Addressed'
  <2>1. /\ UNCHANGED <<client, target, session, delivered>> /\ wire' \subseteq wire
        /\ localClients' = [localClients EXCEPT ![n] = [c \in Clients |-> None]]
        /\ task' = [m \in Messages |-> [task[m] EXCEPT ![n] = Idle]]
    BY <1>g DEF Ends
  <2>2. \A l \in Nodes, c \in Clients :
          localClients'[l][c] \in {localClients[l][c], None}
    BY <1>a, <2>1
  <2>3. \A m \in Messages, l \in Nodes : task'[m][l] \in {task[m][l], Idle}
    BY <1>a, <2>1
  <2> QED  BY <1>c, <1>i, <2>1, <2>2, <2>3
<1>13. ASSUME NEW m \in Messages, NEW n \in Nodes, PublishRejected(m, n)
       PROVE  Addressed'
  BY <1>13, <1>f, <1>g DEF PublishRejected
<1>14. ASSUME NEW n \in Nodes, Crash(n) PROVE Addressed'
  BY <1>14, <1>g DEF Crash
<1>15. ASSUME NEW n \in Nodes,
              Restart(n) \/ Joined(n) \/ Sweep(n) \/ TakeOver(n) \/ GiveUp(n)
       PROVE  Addressed'
  BY <1>15, <1>c DEF Restart, Joined, Sweep, TakeOver, GiveUp
<1>16. CASE UNCHANGED vars
  BY <1>16, <1>c DEF vars
<1> QED
  BY <1>1, <1>2, <1>3, <1>4, <1>5, <1>6, <1>7, <1>8, <1>9, <1>10, <1>11, <1>12,
     <1>13, <1>14, <1>15, <1>16
  DEF Next

LEMMA AddressedInit == Init => Addressed
BY IdleTyped DEF Init, Addressed, TaskOwn

LEMMA AddressedAlways == Spec => [](Inv /\ OnceInv /\ Addressed)
<1>1. Init => Inv /\ OnceInv /\ Addressed
  BY InvInit, OnceInit, AddressedInit
<1>2. Inv /\ OnceInv /\ Addressed /\ [Next]_vars => (Inv /\ OnceInv /\ Addressed)'
  BY InvStep, OnceStep, AddressedStep DEF Inv
<1> QED  BY <1>1, <1>2, PTL DEF Spec

(* No message is emitted to a socket of another client, whichever cache     *)
(* entry stood in for an address that had gone (cluster.service.ts:166).    *)
OnlyToAddressee == \A d \in delivered : client[d.socket] = target[d.msg]

THEOREM NeverToAnotherClient == Spec => []OnlyToAddressee
<1>1. Addressed => OnlyToAddressee
  BY DEF Addressed, OnlyToAddressee
<1> QED  BY <1>1, AddressedAlways, PTL

-----------------------------------------------------------------------------
(* A message that nothing disturbed is for a socket that can still hear it, *)
(* and has been emitted there or is on its way: a packet to the node of the *)
(* socket, a node that has the socket still to serve, or, as long as there  *)
(* is a master that is up, a question that will find the row.               *)
HeardBy(m, s) == s \in open /\ client[s] = target[m] /\ proc[node[s]] = "ready"

Carries(p, m, s) ==
  /\ p.msg = m
  /\ p.kind = "request" => s \in rows /\ p.to \in isMaster /\ proc[p.to] = "ready"
  /\ p.kind # "request" => p.socket = s /\ p.to = node[s]

Serves(t, s) ==
  \/ t.step = "resolve" /\ t.found = s
  \/ t.step = "dispatch" /\ s \in t.todo
  \/ /\ t.step = "resolve" /\ t.found = None
     /\ s \in rows /\ \E r \in isMaster : proc[r] = "ready"

OnItsWay(m, s) ==
  \/ \E d \in delivered : d.msg = m /\ d.socket = s
  \/ \E p \in wire : Carries(p, m, s)
  \/ \E n \in Nodes : Serves(task[m][n], s)

Reaching == \A m \in sure : \E s \in Sockets : HeardBy(m, s) /\ OnItsWay(m, s)

LEMMA EmittedThere ==
  ASSUME NEW m, NEW s, NEW a, NEW via, NEW n, Emit(Delivery(m, s, a, via, n))
  PROVE  OnItsWay(m, s)'
<1> DEFINE d == Delivery(m, s, a, via, n)
<1>1. d.msg = m /\ d.socket = s
  BY DEF Delivery
<1> HIDE DEF d
<1>2. d \in delivered'
  BY DEF Emit, d
<1> QED  BY <1>1, <1>2 DEF OnItsWay

LEMMA PublishedThere ==
  ASSUME NEW m, NEW s, NEW p \in wire', p.msg = m, p.kind # "request",
         p.socket = s, p.to = node[s], UNCHANGED node
  PROVE  OnItsWay(m, s)'
BY DEF OnItsWay, Carries

(* What goes on as long as nothing disturbs it.                             *)
LEMMA ReachKept ==
  ASSUME Inv, OnceInv, Addressed, [Next]_vars,
         NEW m \in sure, m \in sure', NEW s \in Sockets,
         HeardBy(m, s), OnItsWay(m, s)
  PROVE  (HeardBy(m, s) /\ OnItsWay(m, s))'
<1>a. /\ TypeOK /\ Known /\ m \in Messages /\ Once(m)
      /\ client \in [Sockets -> Clients \cup {None}]
      /\ node \in [Sockets -> Nodes \cup {None}]
      /\ proc \in [Nodes -> {"down", "joining", "ready"}]
      /\ target \in [Messages -> Clients \cup {None}]
      /\ task \in [Messages -> [Nodes -> Tasks]]
      /\ isMaster \subseteq Nodes /\ wire \subseteq Packets
      /\ rows \in SUBSET Sockets
  BY DEF Inv, OnceInv, TypeOK
<1>b. None \notin Nodes \cup Clients \cup Sockets
  BY ConstantsAssumption
<1>h. /\ s \in open /\ client[s] = target[m] /\ proc[node[s]] = "ready"
      /\ client[s] \in Clients /\ node[s] \in Nodes /\ target[m] # None
      /\ leaving[s] = "none"
  BY <1>a, <1>b DEF HeardBy, Known, Opened, Inv, Rowed
<1> USE DEF nodes, sockets, stores, mail
(* Routing: the socket stays as it is.                                      *)
<1>r. ASSUME UNCHANGED <<nodes, client, node, open, rows>>, target'[m] = target[m],
             delivered \subseteq delivered',
             \A p \in wire : Carries(p, m, s) => p \in wire' \/ OnItsWay(m, s)',
             \A n \in Nodes :
               Serves(task[m][n], s) =>
                 task'[m][n] = task[m][n] \/ OnItsWay(m, s)'
      PROVE  (HeardBy(m, s) /\ OnItsWay(m, s))'
  <2>1. HeardBy(m, s)'
    BY <1>h, <1>r DEF HeardBy
  <2>2. CASE \E d \in delivered : d.msg = m /\ d.socket = s
    BY <1>r, <2>1, <2>2 DEF OnItsWay
  <2>3. CASE \E p \in wire : Carries(p, m, s)
    <3>1. PICK p \in wire : Carries(p, m, s)
      BY <2>3
    <3>2. Carries(p, m, s)'
      BY <1>r, <3>1 DEF Carries
    <3> QED  BY <1>r, <2>1, <3>1, <3>2 DEF OnItsWay
  <2>4. CASE \E n \in Nodes : Serves(task[m][n], s)
    <3>1. PICK n \in Nodes : Serves(task[m][n], s)
      BY <2>4
    <3>2. task'[m][n] = task[m][n] => Serves(task[m][n], s)'
      BY <1>r, <3>1 DEF Serves
    <3> QED  BY <1>r, <2>1, <3>1, <3>2 DEF OnItsWay
  <2> QED  BY <2>2, <2>3, <2>4 DEF OnItsWay
(* Everything else: the mail stays as it is.                                *)
<1>e. ASSUME UNCHANGED mail,
             s \in open', client'[s] = client[s], node'[s] = node[s],
             proc'[node[s]] = "ready",
             s \in rows => s \in rows',
             \A r \in isMaster : proc[r] = "ready" => r \in isMaster' /\ proc'[r] = "ready"
      PROVE  (HeardBy(m, s) /\ OnItsWay(m, s))'
  <2>1. HeardBy(m, s)'
    BY <1>h, <1>e DEF HeardBy
  <2>2. \A p \in wire : Carries(p, m, s) => Carries(p, m, s)'
    BY <1>e DEF Carries
  <2>3. \A n \in Nodes : Serves(task[m][n], s) => Serves(task[m][n], s)'
    BY <1>e DEF Serves
  <2> QED  BY <1>e, <2>1, <2>2, <2>3 DEF OnItsWay
<1>1. ASSUME NEW k \in Sockets,
             \/ \E c \in Clients, n \in Nodes : Register(k, c, n)
             \/ CreateRow(k) \/ CacheLocally(k) \/ Close(k) \/ RemoveRow(k)
             \/ Forget(k) \/ ScanSessions(k) \/ MarkGone(k)
      PROVE  (HeardBy(m, s) /\ OnItsWay(m, s))'
  <2>1. UNCHANGED <<nodes, mail>>
    BY <1>1 DEF Register, CreateRow, CacheLocally, Close, RemoveRow, Forget,
                ScanSessions, MarkGone, LeaveStep
  <2>2. client'[s] = client[s] /\ node'[s] = node[s]
    BY <1>1, <1>a, <1>b, <1>h
    DEF Register, CreateRow, CacheLocally, Close, RemoveRow, Forget, ScanSessions,
        MarkGone, LeaveStep
  <2>3. s \in open'
    <3>1. CASE Close(k)
      BY <1>h, <3>1 DEF Close, Disturbs
    <3>2. CASE open \subseteq open'
      BY <1>h, <3>2
    <3> QED  BY <1>1, <3>1, <3>2 DEF Register, CreateRow, CacheLocally, RemoveRow,
                                   Forget, ScanSessions, MarkGone, LeaveStep
  <2>4. s \in rows => s \in rows'
    BY <1>1, <1>h DEF Register, CreateRow, CacheLocally, Close, RemoveRow, Forget,
                      ScanSessions, MarkGone, LeaveStep, WithoutRow
  <2> QED  BY <1>e, <1>h, <2>1, <2>2, <2>3, <2>4
<1>2. ASSUME NEW c \in Clients, ExpireSession(c)
      PROVE  (HeardBy(m, s) /\ OnItsWay(m, s))'
  BY <1>2, <1>e, <1>h DEF ExpireSession
<1>3. ASSUME NEW k \in Messages, NEW n \in Nodes, NEW c \in Clients, Send(k, n, c)
      PROVE  (HeardBy(m, s) /\ OnItsWay(m, s))'
  <2>1. /\ target[k] = None /\ target' = [target EXCEPT ![k] = c]
        /\ UNCHANGED <<nodes, client, node, open, rows, wire>>
        /\ delivered \subseteq delivered'
    BY <1>3 DEF Send, Emit, NoEmit
  <2>2. k # m /\ target'[m] = target[m]
    BY <1>a, <1>h, <2>1
  <2>3. task'[m] = task[m]
    BY <1>3, <1>a, <2>2 DEF Send, Task
  <2> QED  BY <1>r, <2>1, <2>2, <2>3
(* A node goes on with this message; another one stays as it is.            *)
<1>t. ASSUME NEW k \in Messages, NEW n \in Nodes, NEW t \in Tasks, Task(k, n, t),
             UNCHANGED <<nodes, client, node, open, rows, target>>,
             delivered \subseteq delivered', wire \subseteq wire',
             k = m /\ Serves(task[m][n], s) => OnItsWay(m, s)'
      PROVE  (HeardBy(m, s) /\ OnItsWay(m, s))'
  <2>1. \A l \in Nodes : k # m \/ l # n => task'[m][l] = task[m][l]
    BY <1>a, <1>t, TaskMoves
  <2>2. \A l \in Nodes :
          Serves(task[m][l], s) => task'[m][l] = task[m][l] \/ OnItsWay(m, s)'
    BY <1>t, <2>1
  <2> QED  BY <1>r, <1>t, <2>2
<1>4. ASSUME NEW k \in Messages, NEW n \in Nodes, Resolve(k, n)
      PROVE  (HeardBy(m, s) /\ OnItsWay(m, s))'
  <2> DEFINE x == task[k][n].found
  <2>1. /\ task[k][n].step = "resolve" /\ x # None /\ Task(k, n, Idle)
        /\ IF node[x] = n
           THEN EmitIfOpen(k, x, "session", n) /\ UNCHANGED wire
           ELSE Publish(ToSession(k, n, x)) /\ NoEmit
        /\ UNCHANGED <<nodes, client, node, open, rows, target>>
    BY <1>4 DEF Resolve
  <2>2. wire \subseteq wire'
    <3>1. CASE UNCHANGED wire
      BY <3>1
    <3>2. CASE Publish(ToSession(k, n, x))
      BY <3>2 DEF Publish
    <3> QED  BY <2>1, <3>1, <3>2
  <2>3. delivered \subseteq delivered'
    BY <2>1 DEF EmitIfOpen, Emit, NoEmit
  <2>4. ASSUME k = m, Serves(task[m][n], s) PROVE OnItsWay(m, s)'
    <3>1. x = s
      BY <2>1, <2>4 DEF Serves
    <3>2. CASE node[s] = n
      <4>1. Emit(Delivery(m, s, s, "session", n))
        BY <1>h, <2>1, <2>4, <3>1, <3>2 DEF EmitIfOpen
      <4> QED  BY <4>1, EmittedThere
    <3>3. CASE node[s] # n
      <4>1. Packet(node[s], m, "session", s, TRUE, n) \in wire'
        BY <1>h, <2>1, <2>4, <3>1, <3>3 DEF Publish, ToSession, Packet
      <4>2. \E p \in wire' :
              p.msg = m /\ p.kind # "request" /\ p.socket = s /\ p.to = node[s]
        BY <4>1 DEF Packet
      <4> QED  BY <2>1, <4>2, PublishedThere
    <3> QED  BY <3>2, <3>3
  <2> QED  BY <1>t, <2>1, <2>2, <2>3, <2>4, IdleTyped
<1>5. ASSUME NEW k \in Messages, NEW n \in Nodes, AskMaster(k, n)
      PROVE  (HeardBy(m, s) /\ OnItsWay(m, s))'
  <2>1. /\ task[k][n].found = None /\ task[k][n].step = "resolve"
        /\ Publish(ToMaster(k, n)) /\ Task(k, n, Idle)
        /\ UNCHANGED <<nodes, client, node, open, rows, target, delivered>>
    BY <1>5 DEF AskMaster, NoEmit
  <2>2. wire \subseteq wire'
    BY <2>1 DEF Publish
  <2>3. ASSUME k = m, Serves(task[m][n], s) PROVE OnItsWay(m, s)'
    <3>1. PICK r \in isMaster : proc[r] = "ready" /\ s \in rows
      BY <1>b, <2>1, <2>3 DEF Serves
    <3> DEFINE p == Packet(r, m, "request", None, FALSE, n)
    <3>2. p \in wire'
      BY <1>a, <2>1, <2>3, <3>1 DEF Publish, ToMaster, Packet
    <3>3. Carries(p, m, s)'
      BY <2>1, <3>1 DEF Carries, Packet
    <3> QED  BY <3>2, <3>3 DEF OnItsWay
  <2> QED  BY <1>t, <2>1, <2>2, <2>3, IdleTyped
(* A master asks the database: the row is there, or the error disturbs.     *)
<1>q. ASSUME NEW k \in Messages, NEW n \in Nodes, NEW request \in BOOLEAN,
             Query(k, n, request),
             UNCHANGED <<nodes, client, node, open, rows, target>>
      PROVE  \E t \in Tasks :
               Task(k, n, t) /\ (k = m /\ s \in rows => OnItsWay(m, s)')
  <2> DEFINE t == [Idle EXCEPT !.step = "dispatch", !.request = request,
                               !.todo = rows \cap SocketsOf(target[k])]
  <2>1. /\ t \in Tasks /\ t.step = "dispatch"
        /\ t.todo = rows \cap SocketsOf(target[k])
    BY <1>a DEF Idle, Tasks
  <2> HIDE DEF t
  <2>2. CASE Task(k, n, t)
    <3>1. task'[k][n] = t
      BY <1>a, <2>1, <2>2, TaskMoves
    <3>2. k = m /\ s \in rows => s \in t.todo
      BY <1>h, <2>1 DEF SocketsOf
    <3>3. k = m /\ s \in rows => Serves(task[m][n], s)'
      BY <2>1, <3>1, <3>2 DEF Serves
    <3> QED  BY <2>1, <2>2, <3>3 DEF OnItsWay
  <2>3. CASE Task(k, n, Idle) /\ Disturbs({target[k]})
    <3>1. k # m
      BY <2>3 DEF Disturbs
    <3> QED  BY <2>3, <3>1, IdleTyped
  <2> QED  BY <1>q, <2>2, <2>3 DEF Query, t
<1>6. ASSUME NEW k \in Messages, NEW n \in Nodes, AskDatabase(k, n)
      PROVE  (HeardBy(m, s) /\ OnItsWay(m, s))'
  <2>1. /\ task[k][n].found = None /\ task[k][n].step = "resolve"
        /\ Query(k, n, FALSE)
        /\ UNCHANGED <<nodes, client, node, open, rows, target, wire, delivered>>
    BY <1>6 DEF AskDatabase, NoEmit
  <2>2. PICK t \in Tasks :
          Task(k, n, t) /\ (k = m /\ s \in rows => OnItsWay(m, s)')
    BY <1>q, <2>1
  <2>3. k = m /\ Serves(task[m][n], s) => s \in rows
    BY <1>b, <2>1 DEF Serves
  <2> QED  BY <1>t, <2>1, <2>2, <2>3
<1>7. ASSUME NEW k \in Messages, NEW n \in Nodes, NEW x \in Sockets,
             Dispatch(k, n, x)
      PROVE  (HeardBy(m, s) /\ OnItsWay(m, s))'
  <2> DEFINE new == [task[k][n] EXCEPT !.todo = task[k][n].todo \ {x}]
  <2>1. /\ task[k][n].step = "dispatch" /\ Task(k, n, new)
        /\ IF node[x] = n
           THEN EmitIfOpen(k, x, "row", n) /\ UNCHANGED wire
           ELSE /\ Publish({Packet(node[x], k, "row", x, ~task[k][n].request, n)})
                /\ NoEmit
        /\ UNCHANGED <<nodes, client, node, open, rows, target>>
    BY <1>7 DEF Dispatch
  <2>2. /\ new \in Tasks /\ new.step = task[k][n].step
        /\ new.todo = task[k][n].todo \ {x}
    <3>1. task[k][n] \in Tasks
      BY <1>a
    <3> QED  BY <3>1 DEF Tasks
  <2> HIDE DEF new
  <2>3. wire \subseteq wire'
    BY <2>1 DEF Publish
  <2>4. delivered \subseteq delivered'
    BY <2>1 DEF EmitIfOpen, Emit, NoEmit
  <2>5. ASSUME k = m, Serves(task[m][n], s) PROVE OnItsWay(m, s)'
    <3>1. s \in task[m][n].todo
      BY <2>1, <2>5 DEF Serves
    <3>2. CASE s # x
      <4>1. task'[m][n] = new
        BY <1>a, <2>1, <2>2, <2>5, TaskMoves
      <4>2. Serves(task[m][n], s)'
        BY <2>1, <2>2, <2>5, <3>1, <3>2, <4>1 DEF Serves
      <4> QED  BY <4>2 DEF OnItsWay
    <3>3. CASE s = x /\ node[s] = n
      <4>1. Emit(Delivery(m, s, s, "row", n))
        BY <1>h, <2>1, <2>5, <3>3 DEF EmitIfOpen
      <4> QED  BY <4>1, EmittedThere
    <3>4. CASE s = x /\ node[s] # n
      <4>1. Packet(node[s], m, "row", s, ~task[m][n].request, n) \in wire'
        BY <1>h, <2>1, <2>5, <3>4 DEF Publish, Packet
      <4>2. \E p \in wire' :
              p.msg = m /\ p.kind # "request" /\ p.socket = s /\ p.to = node[s]
        BY <4>1 DEF Packet
      <4> QED  BY <2>1, <4>2, PublishedThere
    <3> QED  BY <3>2, <3>3, <3>4
  <2> QED  BY <1>t, <2>1, <2>2, <2>3, <2>4, <2>5
<1>8. ASSUME NEW k \in Messages, NEW n \in Nodes, Dispatched(k, n)
      PROVE  (HeardBy(m, s) /\ OnItsWay(m, s))'
  <2>1. /\ task[k][n].step = "dispatch" /\ task[k][n].todo = {} /\ Task(k, n, Idle)
        /\ UNCHANGED <<nodes, client, node, open, rows, target, wire, delivered>>
    BY <1>8 DEF Dispatched
  <2>2. ~(k = m /\ Serves(task[m][n], s))
    BY <2>1 DEF Serves
  <2> QED  BY <1>t, <2>1, <2>2, IdleTyped
<1>9. ASSUME NEW p \in wire, ReceiveRoute(p)
      PROVE  (HeardBy(m, s) /\ OnItsWay(m, s))'
  <2>1. /\ p.kind # "request" /\ wire' = wire \ {p}
        /\ p.socket \in open =>
             Emit(Delivery(p.msg, p.socket, p.socket, p.kind, p.by))
        /\ delivered \subseteq delivered'
        /\ UNCHANGED <<nodes, client, node, open, rows, target, task>>
    BY <1>9 DEF ReceiveRoute, Emit, NoEmit
  <2>2. ASSUME Carries(p, m, s) PROVE OnItsWay(m, s)'
    <3>1. Emit(Delivery(m, s, s, p.kind, p.by))
      BY <1>h, <2>1, <2>2 DEF Carries
    <3> QED  BY <3>1, EmittedThere
  <2> QED  BY <1>r, <2>1, <2>2
<1>10. ASSUME NEW p \in wire, ReceiveRequest(p)
       PROVE  (HeardBy(m, s) /\ OnItsWay(m, s))'
  <2>1. /\ p.kind = "request" /\ wire' = wire \ {p}
        /\ p.msg \in Messages /\ p.to \in Nodes
        /\ UNCHANGED <<nodes, client, node, open, rows, target, delivered>>
    BY <1>10, <1>a DEF ReceiveRequest, Packets
  <2>2. CASE p.to \in isMaster /\ Query(p.msg, p.to, TRUE)
    <3>1. PICK t \in Tasks :
            Task(p.msg, p.to, t) /\ (p.msg = m /\ s \in rows => OnItsWay(m, s)')
      BY <1>q, <2>1, <2>2
    <3>2. Carries(p, m, s) => OnItsWay(m, s)'
      BY <2>1, <3>1 DEF Carries
    <3>3. p.msg = m => ~Serves(task[m][p.to], s)
      BY <1>a, <2>1 DEF Once, Rests, Serves
    <3>4. \A l \in Nodes :
            p.msg # m \/ l # p.to => task'[m][l] = task[m][l]
      BY <1>a, <2>1, <3>1, TaskMoves
    <3> QED  BY <1>r, <2>1, <3>2, <3>3, <3>4
  <2>3. CASE p.to \notin isMaster /\ UNCHANGED task
    <3>1. ~Carries(p, m, s)
      BY <2>1, <2>3 DEF Carries
    <3> QED  BY <1>r, <2>1, <2>3, <3>1
  <2> QED  BY <1>10, <2>2, <2>3 DEF ReceiveRequest
<1>11. ASSUME NEW p \in wire, Lose(p) PROVE (HeardBy(m, s) /\ OnItsWay(m, s))'
  <2>1. /\ wire' = wire \ {p}
        /\ proc[p.to] = "joining" \/ Disturbs({target[p.msg]})
        /\ UNCHANGED <<nodes, client, node, open, rows, target, task, delivered>>
    BY <1>11 DEF Lose
  <2>2. ~Carries(p, m, s)
    BY <1>h, <2>1 DEF Carries, Disturbs
  <2> QED  BY <1>r, <2>1, <2>2
<1>12. ASSUME NEW n \in Nodes, Ends(n) \/ GiveUp(n)
       PROVE  (HeardBy(m, s) /\ OnItsWay(m, s))'
  BY <1>12, <1>h DEF Ends, GiveUp, Disturbs
<1>13. ASSUME NEW k \in Messages, NEW n \in Nodes, PublishRejected(k, n)
       PROVE  (HeardBy(m, s) /\ OnItsWay(m, s))'
  <2>1. CASE /\ Task(k, n, Idle) /\ Disturbs({target[k]})
             /\ UNCHANGED <<nodes, client, node, open, rows, target, wire, delivered>>
    <3>1. k # m
      BY <2>1 DEF Disturbs
    <3> QED  BY <1>t, <2>1, <3>1, IdleTyped
  <2> QED  BY <1>12, <1>13, <2>1 DEF PublishRejected
<1>14. ASSUME NEW n \in Nodes, Restart(n) \/ Joined(n) \/ Sweep(n) \/ TakeOver(n)
       PROVE  (HeardBy(m, s) /\ OnItsWay(m, s))'
  <2>1. /\ UNCHANGED <<mail, client, node, open>>
        /\ UNCHANGED rows \/ (proc[n] = "down" /\ rows' = rows \ SocketsAt(n))
        /\ UNCHANGED isMaster \/ isMaster = {}
        /\ \/ UNCHANGED proc
           \/ /\ proc[n] # "ready"
              /\ \E x \in {"joining", "ready"} : proc' = [proc EXCEPT ![n] = x]
    BY <1>14 DEF Restart, Joined, Sweep, TakeOver
  <2>2. \A r \in Nodes : proc[r] = "ready" => proc'[r] = "ready"
    BY <1>a, <2>1
  <2>3. s \in rows => s \in rows'
    BY <1>h, <2>1 DEF SocketsAt
  <2> QED  BY <1>a, <1>e, <1>h, <2>1, <2>2, <2>3
<1>15. CASE UNCHANGED vars
  BY <1>15, <1>e, <1>h DEF vars
<1> QED
  BY <1>1, <1>2, <1>3, <1>4, <1>5, <1>6, <1>7, <1>8, <1>9, <1>10, <1>11, <1>12,
     <1>13, <1>14, <1>15
  DEF Next, Crash

(* Only sending makes a message sure, and then its client is settled: the   *)
(* cache can name no other socket, and the session or the row leads to it.  *)
LEMMA ReachNew ==
  ASSUME Inv, OnceInv, Addressed, [Next]_vars, NEW m \in sure', m \notin sure
  PROVE  \E s \in Sockets : (HeardBy(m, s) /\ OnItsWay(m, s))'
<1>a. /\ TypeOK /\ Addressed /\ open \in SUBSET Sockets
      /\ target \in [Messages -> Clients \cup {None}]
      /\ task \in [Messages -> [Nodes -> Tasks]]
      /\ session \in [Clients -> Sockets \cup {None}]
      /\ localClients \in [Nodes -> [Clients -> Sockets \cup {None}]]
  BY DEF Inv, TypeOK
<1> USE DEF nodes, sockets, stores, mail
<1>b. PICK n \in Nodes, c \in Clients : m \in Messages /\ Send(m, n, c)
  <2>1. ASSUME ~(\E k \in Messages, n \in Nodes, c \in Clients : Send(k, n, c))
        PROVE  sure' \subseteq sure
    <3>1. \A clients : Disturbs(clients) => sure' \subseteq sure
      BY DEF Disturbs
    <3>2. ASSUME NEW s \in Sockets,
                 \/ \E c \in Clients, n \in Nodes : Register(s, c, n)
                 \/ CreateRow(s) \/ CacheLocally(s) \/ Close(s) \/ RemoveRow(s)
                 \/ Forget(s) \/ ScanSessions(s) \/ MarkGone(s)
          PROVE  sure' \subseteq sure
      BY <3>1, <3>2 DEF Register, CreateRow, CacheLocally, Close, RemoveRow, Forget,
                        ScanSessions, MarkGone, LeaveStep
    <3>3. ASSUME NEW k \in Messages, NEW n \in Nodes,
                 \/ Resolve(k, n) \/ AskMaster(k, n) \/ AskDatabase(k, n)
                 \/ \E s \in Sockets : Dispatch(k, n, s)
                 \/ Dispatched(k, n) \/ PublishRejected(k, n)
          PROVE  sure' \subseteq sure
      BY <3>1, <3>3 DEF Resolve, AskMaster, AskDatabase, Query, Dispatch, Dispatched,
                        PublishRejected, Ends
    <3>4. ASSUME NEW p \in wire, ReceiveRoute(p) \/ ReceiveRequest(p) \/ Lose(p)
          PROVE  sure' \subseteq sure
      BY <3>1, <3>4 DEF ReceiveRoute, ReceiveRequest, Query, Lose
    <3>5. ASSUME NEW n \in Nodes,
                 \/ Crash(n) \/ Restart(n) \/ Joined(n) \/ Sweep(n)
                 \/ TakeOver(n) \/ GiveUp(n)
          PROVE  sure' \subseteq sure
      BY <3>1, <3>5 DEF Crash, Ends, Restart, Joined, Sweep, TakeOver, GiveUp
    <3>6. ASSUME NEW c \in Clients, ExpireSession(c) PROVE sure' \subseteq sure
      BY <3>1, <3>6 DEF ExpireSession
    <3>7. CASE UNCHANGED vars
      BY <3>7 DEF vars
    <3> QED  BY <2>1, <3>2, <3>3, <3>4, <3>5, <3>6, <3>7 DEF Next
  <2>2. PICK k \in Messages, n \in Nodes, c \in Clients : Send(k, n, c)
    BY <2>1
  <2>3. k = m
    BY <2>2 DEF Send
  <2> QED  BY <2>2, <2>3
<1> DEFINE x == localClients[n][c]
<1>1. PICK found \in {session[c], None} :
        /\ Settled(n, c, found)
        /\ \/ /\ Cached(x)
              /\ Emit(Delivery(m, x, x, "local", n))
           \/ /\ ~Cached(x)
              /\ Task(m, n, [Idle EXCEPT !.step = "resolve", !.found = found])
  BY <1>b DEF Send
<1>2. PICK s \in open :
        /\ SocketsOf(c) \cap open = {s}
        /\ proc[node[s]] = "ready"
        /\ \/ found = s
           \/ found = None /\ s \in rows /\ \E r \in isMaster : proc[r] = "ready"
  BY <1>1 DEF Settled
<1>3. s \in Sockets /\ client[s] = c
  BY <1>a, <1>2 DEF SocketsOf
<1>4. target'[m] = c /\ UNCHANGED <<nodes, client, node, open, rows>>
  BY <1>a, <1>b DEF Send
<1>5. HeardBy(m, s)'
  BY <1>2, <1>3, <1>4 DEF HeardBy
<1>6. CASE Cached(x) /\ Emit(Delivery(m, x, x, "local", n))
  <2>1. x = s
    BY <1>a, <1>2, <1>6 DEF Addressed, Cached, SocketsOf
  <2>2. OnItsWay(m, s)'
    BY <1>6, <2>1, EmittedThere
  <2> QED  BY <1>3, <1>5, <2>2
<1>7. CASE Task(m, n, [Idle EXCEPT !.step = "resolve", !.found = found])
  <2> DEFINE t == [Idle EXCEPT !.step = "resolve", !.found = found]
  <2>1. t \in Tasks /\ t.step = "resolve" /\ t.found = found
    BY <1>a, <1>1 DEF Idle, Tasks
  <2>2. Task(m, n, t)
    BY <1>7
  <2> HIDE DEF t
  <2>3. task'[m][n] = t
    BY <1>a, <1>b, <2>1, <2>2, TaskMoves
  <2>4. Serves(task[m][n], s)'
    BY <1>2, <1>4, <2>1, <2>3 DEF Serves
  <2>5. OnItsWay(m, s)'
    BY <2>4 DEF OnItsWay
  <2> QED  BY <1>3, <1>5, <2>5
<1> QED  BY <1>1, <1>6, <1>7

LEMMA ReachStep == Inv /\ OnceInv /\ Addressed /\ Reaching /\ [Next]_vars => Reaching'
<1> SUFFICES ASSUME Inv, OnceInv, Addressed, Reaching, [Next]_vars, NEW m \in sure'
             PROVE  \E s \in Sockets : (HeardBy(m, s) /\ OnItsWay(m, s))'
  BY DEF Reaching
<1>1. CASE m \in sure
  <2>1. PICK s \in Sockets : HeardBy(m, s) /\ OnItsWay(m, s)
    BY <1>1 DEF Reaching
  <2> QED  BY <1>1, <2>1, ReachKept
<1>2. CASE m \notin sure
  BY <1>2, ReachNew
<1> QED  BY <1>1, <1>2

(* A message to a client that is connected and registered, with a session   *)
(* or with its row and a master, reaches an open socket of this client once *)
(* its routing is over, if nothing disturbed it: whatever is cached for its *)
(* former sockets, and however the steps of its routing fall between those  *)
(* of the handlers (cluster.service.ts:374, cluster.service.ts:166).        *)
THEOREM SettledReached == Spec => []SettledIsReached
<1>1. Init => Reaching
  BY DEF Init, Reaching
<1>2. Spec => []Reaching
  BY <1>1, ReachStep, AddressedAlways, PTL DEF Spec
<1>3. TypeOK /\ Reaching => SettledIsReached
  <2> SUFFICES ASSUME TypeOK, Reaching, NEW m \in sure, Over(m)
               PROVE  \E d \in delivered :
                        d.msg = m /\ d.socket \in open /\ client[d.socket] = target[m]
    BY DEF SettledIsReached
  <2>1. PICK s \in Sockets : HeardBy(m, s) /\ OnItsWay(m, s)
    BY DEF Reaching
  <2>2. \E d \in delivered : d.msg = m /\ d.socket = s
    BY <2>1 DEF OnItsWay, Over, Carries, Serves
  <2> QED  BY <2>1, <2>2 DEF HeardBy
<1> QED  BY <1>2, <1>3, TypeCorrect, PTL
=============================================================================
