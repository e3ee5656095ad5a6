------------------------------- MODULE Routing -------------------------------
(***************************************************************************)
(* How a message finds the socket of a client (cluster.service.ts,         *)
(* pubsub.service.ts): the cache of the node, the session in Redis, and    *)
(* the rows of the database that only the master asks for.  The three are  *)
(* written by the register and disconnect handlers, one after the other,   *)
(* and a message on its way meets them in any state.                       *)
(*                                                                         *)
(* An action is the code between two awaits, with the remote call it       *)
(* issues.  Pub/sub hands a message to the subscribers of that moment,     *)
(* once, in any order.  Who is master is decided by MasterElection; here   *)
(* the role comes and goes as Mastership allows.                           *)
(***************************************************************************)
EXTENDS Naturals, FiniteSets

CONSTANTS
  Nodes, Clients,
  Sockets,         \* bound: the sockets ever opened
  Messages,        \* bound: the messages ever routed
  None,            \* no such key, entry or value yet
  Faults,          \* the kinds of disruption a run allows
  MaxDisruptions   \* bound: how many disruptions happen

ASSUME ConstantsAssumption ==
  /\ None \notin Nodes \cup Clients \cup Sockets
  /\ Faults \subseteq {"crash", "stepDown", "redisError", "dbError", "expiry",
                       "publishError", "loss"}
  /\ MaxDisruptions \in Nat

VARIABLES
  proc,           \* the process of a node: down, subscribing, or ready
  isMaster,       \* the nodes whose isMaster is set
  client, node,   \* who opened a socket, and to which node
  open,           \* the sockets in io.sockets.sockets of their node
  registering,    \* the next call of a socket's register handler
  leaving,        \* the next call of its disconnect handler
  session,        \* Redis: the socket that session:client:<clientId> names
  rows,           \* database: the sockets that have an active session row
  localClients,   \* the cache of each node: clientId -> socket
  target,         \* whom a message is for
  task,           \* what a node is doing to route a message
  wire,           \* messages that pub/sub has yet to hand to a node
  delivered,      \* what was emitted where, and on whose behalf
  twice,          \* the same, if it was emitted again
  sure,           \* messages to a settled client that nothing disturbed
  excused,        \* sockets whose row may be wrong: a race, crash or error
  disruptions

nodes == <<proc, isMaster>>
sockets == <<client, node, open, registering, leaving>>
stores == <<session, rows, localClients>>
mail == <<target, task, wire, delivered, twice>>
vars == <<nodes, sockets, stores, mail, sure, excused, disruptions>>

(* A task of a node that waits for a session, or goes through rows, which  *)
(* it does as the master if on request of another.                         *)
Tasks == [step : {"none", "resolve", "dispatch"}, found : Sockets \cup {None},
          todo : SUBSET Sockets, request : BOOLEAN]

Idle == [step |-> "none", found |-> None, todo |-> {}, request |-> FALSE]

(* named: the message carries targetClientId.                              *)
Packets == [to : Nodes, msg : Messages, kind : {"request", "session", "row"},
            socket : Sockets \cup {None}, named : BOOLEAN, by : Nodes]

(* The socket it was emitted to, and the one it was addressed to.          *)
Deliveries == [msg : Messages, socket : Sockets, address : Sockets,
               via : {"local", "session", "row"}, by : Nodes]

TypeOK ==
  /\ proc \in [Nodes -> {"down", "joining", "ready"}]
  /\ isMaster \in SUBSET Nodes
  /\ client \in [Sockets -> Clients \cup {None}]
  /\ node \in [Sockets -> Nodes \cup {None}]
  /\ open \in SUBSET Sockets
  /\ registering \in [Sockets -> {"none", "row", "cache"}]
  /\ leaving \in [Sockets -> {"none", "remove", "forget", "scan", "mark"}]
  /\ session \in [Clients -> Sockets \cup {None}]
  /\ rows \in SUBSET Sockets
  /\ localClients \in [Nodes -> [Clients -> Sockets \cup {None}]]
  /\ target \in [Messages -> Clients \cup {None}]
  /\ task \in [Messages -> [Nodes -> Tasks]]
  /\ wire \in SUBSET Packets
  /\ delivered \in SUBSET Deliveries
  /\ twice \in SUBSET delivered
  /\ sure \in SUBSET Messages
  /\ excused \in SUBSET Sockets
  /\ disruptions \in 0 .. MaxDisruptions

(* The cluster is up; clients and messages are still to come.              *)
Init ==
  /\ proc = [n \in Nodes |-> "ready"]
  /\ isMaster = {}
  /\ client = [s \in Sockets |-> None]
  /\ node = [s \in Sockets |-> None]
  /\ open = {}
  /\ registering = [s \in Sockets |-> "none"]
  /\ leaving = [s \in Sockets |-> "none"]
  /\ session = [c \in Clients |-> None]
  /\ rows = {}
  /\ localClients = [n \in Nodes |-> [c \in Clients |-> None]]
  /\ target = [m \in Messages |-> None]
  /\ task = [m \in Messages |-> [n \in Nodes |-> Idle]]
  /\ wire = {}
  /\ delivered = {} /\ twice = {}
  /\ sure = {} /\ excused = {}
  /\ disruptions = 0

-----------------------------------------------------------------------------
SocketsOf(c) == {s \in Sockets : client[s] = c}
SocketsAt(n) == {s \in Sockets : node[s] = n}

(* A client that only routing concerns for now: one open socket, no        *)
(* handler of its sockets under way, the session found naming that socket  *)
(* or, if none is found, its row and a master to look it up.               *)
Settled(n, c, found) ==
  \E s \in open :
    /\ SocketsOf(c) \cap open = {s}
    /\ \A k \in SocketsOf(c) : registering[k] = "none" /\ leaving[k] = "none"
    /\ proc[node[s]] = "ready"
    /\ \/ found = s
       \/ found = None /\ s \in rows /\ \E r \in isMaster : proc[r] = "ready"

(* Something other than routing happens to these clients.                  *)
Disturbs(clients) == sure' = {m \in sure : target[m] \notin clients}

Disrupt(fault) ==
  /\ fault \in Faults
  /\ disruptions < MaxDisruptions
  /\ disruptions' = disruptions + 1

-----------------------------------------------------------------------------
(* "register": the session in Redis, the row, the cache of the node.       *)

Register(s, c, n) ==
  /\ proc[n] # "down" /\ client[s] = None
  /\ client' = [client EXCEPT ![s] = c]
  /\ node' = [node EXCEPT ![s] = n]
  /\ open' = open \cup {s}
  /\ session' = [session EXCEPT ![c] = s]
  /\ registering' = [registering EXCEPT ![s] = "row"]
  /\ Disturbs({c})
  /\ UNCHANGED <<nodes, leaving, rows, localClients, mail, excused, disruptions>>

(* createSession.  handleClientConnect catches its error and caches        *)
(* nothing.                                                                *)
CreateRow(s) ==
  /\ registering[s] = "row"
  /\ \/ /\ rows' = rows \cup {s}
        /\ registering' = [registering EXCEPT ![s] = "cache"]
        /\ UNCHANGED <<excused, disruptions>>
     \/ /\ Disrupt("dbError")
        /\ registering' = [registering EXCEPT ![s] = "none"]
        /\ excused' = excused \cup {s}
        /\ UNCHANGED rows
  /\ UNCHANGED <<nodes, client, node, open, leaving, session, localClients, mail, sure>>

(* SESSION_CREATED is published; the socket may have closed by now.        *)
CacheLocally(s) ==
  /\ registering[s] = "cache"
  /\ registering' = [registering EXCEPT ![s] = "none"]
  /\ localClients' = [localClients EXCEPT ![node[s]][client[s]] = s]
  /\ UNCHANGED <<nodes, client, node, open, leaving, session, rows, mail, sure,
                 excused, disruptions>>

-----------------------------------------------------------------------------
(* "disconnect": the row, the cache, the session.                          *)

(* A socket that closes before its row exists leaves it behind.            *)
Close(s) ==
  /\ s \in open
  /\ open' = open \ {s}
  /\ leaving' = [leaving EXCEPT ![s] = "remove"]
  /\ excused' = IF registering[s] = "row" THEN excused \cup {s} ELSE excused
  /\ Disturbs({client[s]})
  /\ UNCHANGED <<nodes, client, node, registering, stores, mail, disruptions>>

LeaveStep(s, from, to) ==
  /\ leaving[s] = from
  /\ leaving' = [leaving EXCEPT ![s] = to]
  /\ UNCHANGED <<nodes, client, node, open, registering, mail>>

WithoutClient(s) == rows \ SocketsOf(client[s])
WithoutRow(s) == rows \ {s}

(* getSessionBySocketId and removeSession, which both log an error and     *)
(* return: without a row, or an answer, there is no client to forget.      *)
RemoveRow(s) ==
  /\ \/ /\ s \in rows
        /\ LeaveStep(s, "remove", "forget")
        /\ rows' = WithoutRow(s)
        /\ UNCHANGED <<excused, disruptions>>
     \/ /\ s \notin rows
        /\ LeaveStep(s, "remove", "scan")
        /\ UNCHANGED <<rows, excused, disruptions>>
     \/ /\ Disrupt("dbError")
        /\ \E next \in {"forget", "scan"} : LeaveStep(s, "remove", next)
        /\ excused' = excused \cup {s}
        /\ UNCHANGED rows
  /\ UNCHANGED <<session, localClients, sure>>

(* The handler reads all sessions, and will write the one that names its   *)
(* socket back with connected: false.                                      *)
AfterScan(s) == IF session[client[s]] = s THEN "mark" ELSE "none"

(* localClients.delete(session.clientId), whichever socket it names.       *)
ForgottenAll(s) == [localClients EXCEPT ![node[s]] = <<>>]
Forgotten(s) == [localClients EXCEPT ![node[s]][client[s]] = None]

Forget(s) ==
  /\ LeaveStep(s, "forget", AfterScan(s))
  /\ localClients' = Forgotten(s)
  /\ UNCHANGED <<session, rows, sure, excused, disruptions>>

ScanSessions(s) ==
  /\ LeaveStep(s, "scan", AfterScan(s))
  /\ UNCHANGED <<stores, sure, excused, disruptions>>

MarkGone(s) ==
  /\ LeaveStep(s, "mark", "none")
  /\ session' = [session EXCEPT ![client[s]] = s]
  /\ Disturbs({client[s]})
  /\ UNCHANGED <<rows, localClients, excused, disruptions>>

(* An hour without a heartbeat, or the cleanup of a disconnected client.   *)
ExpireSession(c) ==
  /\ session[c] # None
  /\ Disrupt("expiry")
  /\ session' = [session EXCEPT ![c] = None]
  /\ Disturbs({c})
  /\ UNCHANGED <<nodes, sockets, rows, localClients, mail, excused>>

-----------------------------------------------------------------------------
(* Routing.                                                                *)

Delivery(m, s, address, via, n) ==
  [msg |-> m, socket |-> s, address |-> address, via |-> via, by |-> n]

Emit(d) ==
  /\ delivered' = delivered \cup {d}
  /\ twice' = twice \cup ({d} \cap delivered)

NoEmit == UNCHANGED <<delivered, twice>>

EmitIfOpen(m, s, via, n) ==
  IF s \in open THEN Emit(Delivery(m, s, s, via, n)) ELSE NoEmit

Packet(to, m, kind, s, named, by) ==
  [to |-> to, msg |-> m, kind |-> kind, socket |-> s, named |-> named, by |-> by]

(* Pub/sub hands it to those connected; handlers of other nodes than       *)
(* targetNodeId ignore it.                                                 *)
Publish(packets) == wire' = wire \cup {p \in packets : proc[p.to] # "down"}

Task(m, n, t) == task' = [task EXCEPT ![m][n] = t]

(* An entry of localClients whose socket is still there.                   *)
CachedOnce(s) == s # None
Cached(s) == s # None /\ s \in open

(* routeMessageToClient: the cache of the node or, after a stale entry is  *)
(* removed, getClientSession, which returns null on an error.              *)
Send(m, n, c) ==
  LET s == localClients[n][c]
  IN  /\ target[m] = None /\ proc[n] # "down"
      /\ target' = [target EXCEPT ![m] = c]
      /\ \E found \in {session[c], None} :
           /\ sure' = IF Settled(n, c, found) THEN sure \cup {m} ELSE sure
           /\ \/ /\ Cached(s) /\ found = session[c]
                 /\ Emit(Delivery(m, s, s, "local", n))
                 /\ UNCHANGED <<localClients, task, disruptions>>
              \/ /\ ~Cached(s)
                 /\ localClients' = [localClients EXCEPT ![n][c] = None]
                 /\ Task(m, n, [Idle EXCEPT !.step = "resolve", !.found = found])
                 /\ \/ found = session[c] /\ UNCHANGED disruptions
                    \/ found = None /\ Disrupt("redisError")
                 /\ NoEmit
      /\ UNCHANGED <<nodes, sockets, session, rows, wire, excused>>

ToMaster(m, n) == {Packet(r, m, "request", None, FALSE, n) : r \in Nodes}
ToSessionAndMaster(m, n, s) ==
  ToMaster(m, n) \cup {Packet(node[s], m, "session", s, TRUE, n)}
ToSession(m, n, s) == {Packet(node[s], m, "session", s, TRUE, n)}

(* The session names a socket of this node, or of another one.             *)
Resolve(m, n) ==
  LET s == task[m][n].found
  IN  /\ task[m][n].step = "resolve" /\ s # None
      /\ IF node[s] = n
         THEN EmitIfOpen(m, s, "session", n) /\ UNCHANGED wire
         ELSE Publish(ToSession(m, n, s)) /\ NoEmit
      /\ Task(m, n, Idle)
      /\ UNCHANGED <<nodes, sockets, stores, target, sure, excused, disruptions>>

(* No session: a worker asks the master, and the master the database.      *)
AskMaster(m, n) ==
  /\ task[m][n].step = "resolve" /\ task[m][n].found = None
  /\ n \notin isMaster
  /\ Publish(ToMaster(m, n))
  /\ Task(m, n, Idle)
  /\ NoEmit
  /\ UNCHANGED <<nodes, sockets, stores, target, sure, excused, disruptions>>

(* getClientSessions, which returns no rows on an error.                   *)
Query(m, n, request) ==
  \/ /\ Task(m, n, [Idle EXCEPT !.step = "dispatch", !.request = request,
                                !.todo = rows \cap SocketsOf(target[m])])
     /\ UNCHANGED <<sure, disruptions>>
  \/ Disrupt("dbError") /\ Task(m, n, Idle) /\ Disturbs({target[m]})

AskDatabase(m, n) ==
  /\ task[m][n].step = "resolve" /\ task[m][n].found = None
  /\ n \in isMaster
  /\ Query(m, n, FALSE)
  /\ NoEmit
  /\ UNCHANGED <<nodes, sockets, stores, target, wire, excused>>

(* One row after the other.  Only the node that routes by itself names the *)
(* client.                                                                 *)
Dispatch(m, n, s) ==
  LET t == task[m][n]
  IN  /\ t.step = "dispatch" /\ s \in t.todo
      /\ IF node[s] = n
         THEN EmitIfOpen(m, s, "row", n) /\ UNCHANGED wire
         ELSE Publish({Packet(node[s], m, "row", s, ~t.request, n)}) /\ NoEmit
      /\ Task(m, n, [t EXCEPT !.todo = t.todo \ {s}])
      /\ UNCHANGED <<nodes, sockets, stores, target, sure, excused, disruptions>>

Dispatched(m, n) ==
  /\ task[m][n].step = "dispatch" /\ task[m][n].todo = {}
  /\ Task(m, n, Idle)
  /\ UNCHANGED <<nodes, sockets, stores, target, wire, delivered, twice, sure,
                 excused, disruptions>>

(* The cache entry that stands in for an addressed socket that has gone.   *)
Substitute(p) == IF p.named THEN localClients[p.to][target[p.msg]] ELSE None

(* The handler of MESSAGE_ROUTE.                                           *)
ReceiveRoute(p) ==
  LET s == Substitute(p)
  IN  /\ p \in wire /\ p.kind # "request" /\ proc[p.to] = "ready"
      /\ wire' = wire \ {p}
      /\ IF p.socket \in open
         THEN Emit(Delivery(p.msg, p.socket, p.socket, p.kind, p.by))
         ELSE IF Cached(s) THEN Emit(Delivery(p.msg, s, p.socket, p.kind, p.by))
              ELSE NoEmit
      /\ UNCHANGED <<nodes, sockets, stores, target, task, sure, excused, disruptions>>

(* The handler of ROUTING_REQUEST.                                         *)
ReceiveRequest(p) ==
  /\ p \in wire /\ p.kind = "request" /\ proc[p.to] = "ready"
  /\ wire' = wire \ {p}
  /\ \/ p.to \in isMaster /\ Query(p.msg, p.to, TRUE)
     \/ p.to \notin isMaster /\ UNCHANGED <<task, sure, disruptions>>
  /\ UNCHANGED <<nodes, sockets, stores, target, delivered, twice, excused>>

(* The subscriber has not added its handler yet, or its connection breaks. *)
Lose(p) ==
  /\ p \in wire
  /\ wire' = wire \ {p}
  /\ \/ proc[p.to] = "joining" /\ UNCHANGED <<sure, disruptions>>
     \/ Disrupt("loss") /\ Disturbs({target[p.msg]})
  /\ UNCHANGED <<nodes, sockets, stores, target, task, delivered, twice, excused>>

-----------------------------------------------------------------------------
(* Nodes and the role of the master.                                       *)

(* The process ends: its sockets close, its handlers and its cache are     *)
(* gone, what pub/sub had for it is lost.  Its rows stay.                  *)
Ends(n) ==
  LET S == SocketsAt(n)
  IN  /\ proc' = [proc EXCEPT ![n] = "down"]
      /\ isMaster' = isMaster \ {n}
      /\ open' = open \ S
      /\ registering' = [s \in Sockets |-> IF s \in S THEN "none" ELSE registering[s]]
      /\ leaving' = [s \in Sockets |-> IF s \in S THEN "none" ELSE leaving[s]]
      /\ localClients' = [localClients EXCEPT ![n] = [c \in Clients |-> None]]
      /\ task' = [m \in Messages |-> [task[m] EXCEPT ![n] = Idle]]
      /\ wire' = {p \in wire : p.to # n}
      /\ excused' = excused \cup S
      /\ Disturbs(Clients)
      /\ UNCHANGED <<client, node, session, rows, target, delivered, twice>>

Crash(n) == proc[n] # "down" /\ Disrupt("crash") /\ Ends(n)

(* publish rejects.  routeMessageToClient catches that, and the message    *)
(* goes no further; the handler of a routing request does not, and a       *)
(* rejection that nothing handles ends the process.                        *)
PublishRejected(m, n) ==
  LET t == task[m][n]
  IN  /\ \/ t.step = "resolve" /\ (t.found = None => n \notin isMaster)
         \/ t.step = "dispatch" /\ \E s \in t.todo : node[s] # n
      /\ Disrupt("publishError")
      /\ \/ /\ ~t.request
            /\ Task(m, n, Idle) /\ Disturbs({target[m]})
            /\ UNCHANGED <<nodes, sockets, stores, target, wire, delivered, twice,
                           excused>>
         \/ t.request /\ Ends(n)

(* initialize connects pub/sub and does not wait for its subscriptions.    *)
Restart(n) ==
  /\ proc[n] = "down"
  /\ proc' = [proc EXCEPT ![n] = "joining"]
  /\ UNCHANGED <<isMaster, sockets, stores, mail, sure, excused, disruptions>>

Joined(n) ==
  /\ proc[n] = "joining"
  /\ proc' = [proc EXCEPT ![n] = "ready"]
  /\ UNCHANGED <<isMaster, sockets, stores, mail, sure, excused, disruptions>>

(* The cleanup of the registry deactivates the rows of a dead node.        *)
Sweep(n) ==
  /\ proc[n] = "down" /\ rows \cap SocketsAt(n) # {}
  /\ rows' = rows \ SocketsAt(n)
  /\ UNCHANGED <<nodes, sockets, session, localClients, mail, sure, excused, disruptions>>

TakeOver(n) ==
  /\ isMaster = {} /\ proc[n] # "down"
  /\ isMaster' = {n}
  /\ UNCHANGED <<proc, sockets, stores, mail, sure, excused, disruptions>>

GiveUp(n) ==
  /\ n \in isMaster
  /\ Disrupt("stepDown")
  /\ isMaster' = isMaster \ {n}
  /\ Disturbs(Clients)
  /\ UNCHANGED <<proc, sockets, stores, mail, excused>>

-----------------------------------------------------------------------------
Next ==
  \/ \E s \in Sockets :
       \/ \E c \in Clients, n \in Nodes : Register(s, c, n)
       \/ CreateRow(s) \/ CacheLocally(s)
       \/ Close(s) \/ RemoveRow(s) \/ Forget(s) \/ ScanSessions(s) \/ MarkGone(s)
  \/ \E c \in Clients : ExpireSession(c)
  \/ \E m \in Messages, n \in Nodes :
       \/ \E c \in Clients : Send(m, n, c)
       \/ Resolve(m, n) \/ AskMaster(m, n) \/ AskDatabase(m, n)
       \/ \E s \in Sockets : Dispatch(m, n, s)
       \/ Dispatched(m, n) \/ PublishRejected(m, n)
  \/ \E p \in wire : ReceiveRoute(p) \/ ReceiveRequest(p) \/ Lose(p)
  \/ \E n \in Nodes :
       \/ Crash(n) \/ Restart(n) \/ Joined(n) \/ Sweep(n) \/ TakeOver(n) \/ GiveUp(n)

Spec == Init /\ [][Next]_vars

-----------------------------------------------------------------------------
(* Properties.                                                             *)

(* One routing emits a message to a socket once: a node neither uses an    *)
(* address twice nor, having found the client itself, has the master send  *)
(* it again.  Two emissions to one socket are of two masters, or of rows   *)
(* of which one was of a former socket (cluster.service.ts:193).           *)
AtMostOnce ==
  /\ twice = {}
  /\ \A d, e \in delivered :
       d.msg = e.msg /\ d # e => d.via = "row" /\ e.via = "row"

(* The routing of a message is over.                                       *)
Over(m) ==
  /\ \A n \in Nodes : task[m][n].step = "none"
  /\ \A p \in wire : p.msg # m

(* "Route message to client (cross-node aware)": a message to a client     *)
(* that is connected and registered reaches an open socket of this client, *)
(* whatever its former sockets have left behind in the caches of the       *)
(* nodes, and, when its session has expired, by way of the master.         *)
SettledIsReached ==
  \A m \in sure :
    Over(m) => \E d \in delivered :
                 d.msg = m /\ d.socket \in open /\ client[d.socket] = target[m]

(* "Tracks which users are connected to which nodes": once its handlers    *)
(* are through, a socket has a row if and only if it is open, unless it    *)
(* closed before its row existed, or its node or the database failed.      *)
RowsMatchSockets ==
  \A s \in Sockets \ excused :
    client[s] # None /\ registering[s] = "none" /\ leaving[s] = "none" =>
      (s \in rows <=> s \in open)
=============================================================================
