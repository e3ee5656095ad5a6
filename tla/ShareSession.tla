---------------------------- MODULE ShareSession ----------------------------
(***************************************************************************)
(* Client sessions and share sessions in Redis, and the handlers that keep *)
(* them: register, heartbeat, disconnect (socket.handler.ts), createShare, *)
(* joinShare (share.controller.ts) and the cleanup interval (server.ts).   *)
(*                                                                         *)
(* A handler reads a JSON value, changes its copy and writes the whole     *)
(* value back, and gives the event loop away at each of these calls, so    *)
(* handlers of one node and of several nodes interleave between them.  An  *)
(* action is one such call.  Of a session the model keeps what the         *)
(* handlers decide on: its socket, whether it is connected, and its share. *)
(* A handler holds what it has read until it writes; what it changes in    *)
(* its copy is part of the write.                                          *)
(***************************************************************************)
EXTENDS Naturals, Sequences, FiniteSets

CONSTANTS
  Clients, Shares,
  None,         \* the key does not exist, or the field is not set
  Handlers,     \* bound: how many handlers may be under way at a time
  MaxSockets,   \* bound: how many sockets are opened
  MaxFailures   \* bound: how many Redis calls fail, or handlers are cut short

ASSUME ConstantsAssumption ==
  /\ None \notin Clients \cup Shares /\ Clients \cap Shares = {}
  /\ MaxSockets \in Nat /\ MaxFailures \in Nat

VARIABLES
  clientSession,  \* Redis: session:client:<clientId>
  shareSession,   \* Redis: the clients array of session:share:<shareId>
  lastSocket,     \* how many sockets each client has opened so far
  openSockets,    \* those that are open: <<client, its number>>
  handler,        \* what each handler under way has read, and its next call
  joined,         \* who was entered into which share and has not left since
  spoiled,        \* shares of which an update was lost, and clients of which
                  \* one was since they registered
  lapsed,         \* clients whose session has expired although their latest
                  \* socket is open
  failures

store == <<clientSession, shareSession>>
vars == <<store, lastSocket, openSockets, handler, joined, spoiled, lapsed, failures>>

Sessions == [socket : 1 .. MaxSockets, connected : BOOLEAN,
             share : Shares \cup {None}]

ASSUME SessionsAssumption == None \notin Sessions /\ None \notin Seq(Clients)

(* The next call of a handler.                                             *)
Leaving == {"scanSessions", "fetchShare", "leaveShare", "markGone"}

Calls == {"none", "saveShare", "fetchSession", "saveSession",
          "saveTouched", "deleteSession"} \cup Leaving

Idle == [call |-> "none", client |-> None, socket |-> 0, share |-> None,
         session |-> None, members |-> None]

States == [call : Calls, client : Clients \cup {None},
           socket : 0 .. MaxSockets, share : Shares \cup {None},
           session : Sessions \cup {None}, members : Seq(Clients) \cup {None}]

(* A stored share has members: the last one to leave deletes it.           *)
TypeOK ==
  /\ clientSession \in [Clients -> Sessions \cup {None}]
  /\ shareSession \in [Shares -> (Seq(Clients) \ {<<>>}) \cup {None}]
  /\ lastSocket \in [Clients -> 0 .. MaxSockets]
  /\ openSockets \subseteq Clients \X (1 .. MaxSockets)
  /\ handler \in [Handlers -> States]
  /\ joined \subseteq Clients \X Shares
  /\ spoiled \subseteq Clients \cup Shares
  /\ lapsed \subseteq Clients
  /\ failures \in 0 .. MaxFailures

Init ==
  /\ clientSession = [c \in Clients |-> None]
  /\ shareSession = [s \in Shares |-> None]
  /\ lastSocket = [c \in Clients |-> 0]
  /\ openSockets = {}
  /\ handler = [h \in Handlers |-> Idle]
  /\ joined = {} /\ spoiled = {} /\ lapsed = {}
  /\ failures = 0

Members(s) == IF shareSession[s] = None THEN {}
              ELSE {shareSession[s][i] : i \in DOMAIN shareSession[s]}

Online(c) == \E k \in 1 .. MaxSockets : <<c, k>> \in openSockets

(* Another handler may begin.  It does with some of its fields set, moves  *)
(* on, and ends.                                                           *)
Free(h) == handler[h] = Idle

Begin(h, state) ==
  /\ Free(h)
  /\ handler' = [handler EXCEPT ![h] = state]

Call(h, call) == handler' = [handler EXCEPT ![h].call = call]

End(h) == handler' = [handler EXCEPT ![h] = Idle]

(* Another failure happens, within the bound on their number.              *)
Fails ==
  /\ failures < MaxFailures
  /\ failures' = failures + 1

(* The GET of a key returns null: there is no value, or the call fails,    *)
(* which RedisService does not tell apart.                                 *)
ReadsNull(value) == (value = None /\ UNCHANGED failures) \/ Fails

(* The value that a handler has read and is about to replace is no longer  *)
(* what is stored: the write undoes what another handler wrote meanwhile.  *)
Spoil(key, stored, read) ==
  spoiled' = IF stored = read THEN spoiled ELSE spoiled \cup {key}

SpoilShare(state) == Spoil(state.share, shareSession[state.share], state.members)
SpoilSession(state) == Spoil(state.client, clientSession[state.client], state.session)

LastOpen(c) == <<c, lastSocket[c]>> \in openSockets

Leaves(c) ==
  \E h \in Handlers : handler[h].call \in Leaving /\ handler[h].client = c

-----------------------------------------------------------------------------
(* The sockets that have been opened so far.                               *)
Opened == {s \in Clients \X (1 .. MaxSockets) : s[2] <= lastSocket[s[1]]}

(* "register" on a new socket writes a session of its own making: it knows *)
(* no share, whatever the client had joined before.  What an update lost   *)
(* before has done to the session ends here; a share that may have lost    *)
(* the client by it is none that the client counts on any more.            *)
Register(h, c) ==
  LET k == lastSocket[c] + 1
  IN  /\ Free(h)
      /\ k <= MaxSockets /\ Cardinality(Opened) < MaxSockets
      /\ lastSocket' = [lastSocket EXCEPT ![c] = k]
      /\ openSockets' = openSockets \cup {<<c, k>>}
      /\ clientSession' = [clientSession EXCEPT ![c] =
                             [socket |-> k, connected |-> TRUE, share |-> None]]
      /\ joined' = IF c \in spoiled THEN {j \in joined : j[1] # c} ELSE joined
      /\ spoiled' = spoiled \ {c} /\ lapsed' = lapsed \ {c}
      /\ UNCHANGED <<shareSession, handler, failures>>

-----------------------------------------------------------------------------
(* createShare and joinShare, HTTP requests of a client.                   *)

(* The id looks free: the GET returned null, or the id was just generated. *)
CreateShare(h, c, s) ==
  /\ ReadsNull(shareSession[s])
  /\ Begin(h, [Idle EXCEPT !.call = "saveShare", !.client = c, !.share = s])
  /\ UNCHANGED <<store, lastSocket, openSockets, joined, spoiled, lapsed>>

(* A share with two entries is full.  Nothing asks whether the client is   *)
(* one of them, and no code ever sets the status "inactive".               *)
FullAboveTwo(members) == Len(members) > 2
Full(members) == Len(members) >= 2

JoinShare(h, c, s) ==
  /\ shareSession[s] # None
  /\ ~Full(shareSession[s])
  /\ Begin(h, [Idle EXCEPT !.call = "saveShare", !.client = c, !.share = s,
                           !.members = shareSession[s]])
  /\ UNCHANGED <<store, lastSocket, openSockets, joined, spoiled, lapsed, failures>>

JoinedAlone(members, c) == <<c>>
Joined(members, c) == IF members = None THEN <<c>> ELSE Append(members, c)

(* A client that its disconnect handler may still take out again does not  *)
(* count as entered.                                                       *)
SaveShare(h) ==
  LET state == handler[h]
      c == state.client
  IN  /\ state.call = "saveShare"
      /\ shareSession' = [shareSession EXCEPT ![state.share] =
                            Joined(state.members, c)]
      /\ SpoilShare(state)
      /\ joined' = IF Leaves(c) THEN joined ELSE joined \cup {<<c, state.share>>}
      /\ handler' = [handler EXCEPT ![h].call = "fetchSession",
                                    ![h].members = None]
      /\ UNCHANGED <<clientSession, lastSocket, openSockets, lapsed, failures>>

(* The client need not have a session: the request succeeds without.       *)
FetchSession(h) ==
  LET session == clientSession[handler[h].client]
  IN  /\ handler[h].call = "fetchSession"
      /\ \/ ReadsNull(session) /\ End(h)
         \/ /\ session # None
            /\ handler' = [handler EXCEPT ![h].call = "saveSession",
                                          ![h].session = session]
            /\ UNCHANGED failures
      /\ UNCHANGED <<store, lastSocket, openSockets, joined, spoiled, lapsed>>

SaveSession(h) ==
  LET state == handler[h]
  IN  /\ state.call = "saveSession"
      /\ clientSession' = [clientSession EXCEPT ![state.client] =
                             [state.session EXCEPT !.share = state.share]]
      /\ SpoilSession(state)
      /\ End(h)
      /\ UNCHANGED <<shareSession, lastSocket, openSockets, joined, lapsed, failures>>

-----------------------------------------------------------------------------
(* Handlers that write a session back with only its heartbeat or its       *)
(* downloads changed: heartbeat, download-confirmed and cancel-download of *)
(* the client itself, upload-init of the other member of its share.        *)
Touch(h, c) ==
  /\ clientSession[c] # None
  /\ Online(c) \/ \E s \in Shares : c \in Members(s) /\ Members(s) # {c}
  /\ Begin(h, [Idle EXCEPT !.call = "saveTouched", !.client = c,
                           !.session = clientSession[c]])
  /\ UNCHANGED <<store, lastSocket, openSockets, joined, spoiled, lapsed, failures>>

SaveTouched(h) ==
  /\ handler[h].call = "saveTouched"
  /\ clientSession' = [clientSession EXCEPT ![handler[h].client] =
                         handler[h].session]
  /\ SpoilSession(handler[h])
  /\ End(h)
  /\ UNCHANGED <<shareSession, lastSocket, openSockets, joined, lapsed, failures>>

-----------------------------------------------------------------------------
(* "disconnect".                                                           *)

Disconnect(h, c, k) ==
  /\ <<c, k>> \in openSockets
  /\ openSockets' = openSockets \ {<<c, k>>}
  /\ joined' = IF k = lastSocket[c] THEN {j \in joined : j[1] # c} ELSE joined
  /\ lapsed' = IF k = lastSocket[c] THEN lapsed \ {c} ELSE lapsed
  /\ Begin(h, [Idle EXCEPT !.call = "scanSessions", !.client = c,
                           !.socket = k])
  /\ UNCHANGED <<store, lastSocket, spoiled, failures>>

(* The session the closed socket belongs to, if any.                       *)
MatchesClient(session, k) == session # None
Matches(session, k) == session # None /\ session.socket = k

ScanSessions(h) ==
  LET session == clientSession[handler[h].client]
  IN  /\ handler[h].call = "scanSessions"
      /\ IF Matches(session, handler[h].socket)
         THEN handler' = [handler EXCEPT
                ![h].call = IF session.share = None THEN "markGone"
                                                    ELSE "fetchShare",
                ![h].share = session.share,
                ![h].session = session]
         ELSE End(h)
      /\ UNCHANGED <<store, lastSocket, openSockets, joined, spoiled, lapsed, failures>>

(* The entries of the others, in a list of at most two.                    *)
Without(members, c) ==
  LET others == {i \in DOMAIN members : members[i] # c}
  IN  IF others = DOMAIN members THEN members
      ELSE IF others = {} THEN <<>>
      ELSE <<members[CHOOSE i \in others : TRUE]>>

FetchShare(h) ==
  LET share == shareSession[handler[h].share]
  IN  /\ handler[h].call = "fetchShare"
      /\ \/ ReadsNull(share) /\ Call(h, "markGone")
         \/ /\ share # None
            /\ handler' = [handler EXCEPT ![h].call = "leaveShare",
                                          ![h].members = share]
            /\ UNCHANGED failures
      /\ UNCHANGED <<store, lastSocket, openSockets, joined, spoiled, lapsed>>

(* An empty share is deleted.                                              *)
LeftKept(members) == members
Left(members) == IF members = <<>> THEN None ELSE members

LeaveShare(h) ==
  LET state == handler[h]
  IN  /\ state.call = "leaveShare"
      /\ shareSession' = [shareSession EXCEPT ![state.share] =
                            Left(Without(state.members, state.client))]
      /\ SpoilShare(state)
      /\ handler' = [handler EXCEPT ![h].call = "markGone", ![h].members = None]
      /\ UNCHANGED <<clientSession, lastSocket, openSockets, joined, lapsed, failures>>

GoneUnmarked(session) == session
Gone(session) == [session EXCEPT !.connected = FALSE]

MarkGone(h) ==
  /\ handler[h].call = "markGone"
  /\ clientSession' = [clientSession EXCEPT ![handler[h].client] =
                         Gone(handler[h].session)]
  /\ SpoilSession(handler[h])
  /\ End(h)
  /\ UNCHANGED <<shareSession, lastSocket, openSockets, joined, lapsed, failures>>

-----------------------------------------------------------------------------
(* The cleanup interval finds a session that has been disconnected for     *)
(* sessionTimeout in the values it has read, and deletes its key.          *)
Cleanup(h, c) ==
  /\ clientSession[c] # None
  /\ ~clientSession[c].connected
  /\ Begin(h, [Idle EXCEPT !.call = "deleteSession", !.client = c,
                           !.session = clientSession[c]])
  /\ UNCHANGED <<store, lastSocket, openSockets, joined, spoiled, lapsed, failures>>

DeleteSession(h) ==
  /\ handler[h].call = "deleteSession"
  /\ clientSession' = [clientSession EXCEPT ![handler[h].client] = None]
  /\ SpoilSession(handler[h])
  /\ End(h)
  /\ UNCHANGED <<shareSession, lastSocket, openSockets, joined, lapsed, failures>>

(* TTLs: a share lives a day after its last write, a session an hour.  An  *)
(* open socket does not prolong it: the client must send heartbeats, and   *)
(* the rate limiter must let them through.                                 *)
ExpireShare(s) ==
  /\ shareSession[s] # None
  /\ shareSession' = [shareSession EXCEPT ![s] = None]
  /\ joined' = {j \in joined : j[2] # s}
  /\ UNCHANGED <<clientSession, lastSocket, openSockets, handler, spoiled, lapsed, failures>>

ExpireSession(c) ==
  /\ clientSession[c] # None
  /\ clientSession' = [clientSession EXCEPT ![c] = None]
  /\ lapsed' = IF LastOpen(c) THEN lapsed \cup {c} ELSE lapsed
  /\ UNCHANGED <<shareSession, lastSocket, openSockets, handler, joined, spoiled, failures>>

(* A write to Redis fails, and safeHandler or the error middleware ends    *)
(* the handler, or its process crashes: what it has written stays.  A      *)
(* client whose disconnect handler ends so is not marked as gone.          *)
Abort(h) ==
  /\ handler[h] # Idle
  /\ Fails
  /\ spoiled' = IF handler[h].call \in Leaving THEN spoiled \cup {handler[h].client}
                                               ELSE spoiled
  /\ End(h)
  /\ UNCHANGED <<store, lastSocket, openSockets, joined, lapsed>>

-----------------------------------------------------------------------------
Continue(h) ==
  \/ SaveShare(h) \/ FetchSession(h) \/ SaveSession(h)
  \/ SaveTouched(h)
  \/ ScanSessions(h) \/ FetchShare(h) \/ LeaveShare(h) \/ MarkGone(h)
  \/ DeleteSession(h)

Next ==
  \/ \E h \in Handlers :
       \/ Continue(h)
       \/ Abort(h)
       \/ \E c \in Clients :
            \/ Register(h, c)
            \/ Touch(h, c)
            \/ Cleanup(h, c)
            \/ \E s \in Shares : CreateShare(h, c, s) \/ JoinShare(h, c, s)
            \/ \E k \in 1 .. MaxSockets : Disconnect(h, c, k)
  \/ \E s \in Shares : ExpireShare(s)
  \/ \E c \in Clients : ExpireSession(c)

Spec == Init /\ [][Next]_vars

-----------------------------------------------------------------------------
(* Properties.                                                             *)

(* "Share session is full": a share never has more than two members,       *)
(* although the check is made on a value that may be stale when the share  *)
(* is written.                                                             *)
ShareHoldsTwo ==
  \A s \in Shares : shareSession[s] # None => Len(shareSession[s]) <= 2

(* The three that follow say what a lost update costs: nothing to any      *)
(* client or share but the one whose key was overwritten, whatever else    *)
(* overlaps or fails, and to a client no longer than until it registers    *)
(* again.                                                                  *)

(* A client that has created or joined a share is a member of it until its *)
(* latest socket closes: neither what others do to the share in the        *)
(* meantime nor the disconnect of a former socket takes its entry out.     *)
JoinedIsMember ==
  \A j \in joined : j[1] \notin spoiled /\ j[2] \notin spoiled => j[1] \in Members(j[2])

(* "The Redis session store maps clientId -> { nodeId, socketId }": the    *)
(* session of a client whose latest socket is open names that socket, so   *)
(* that messages can be routed to it, although former sockets close,       *)
(* partners write to it and the cleanup runs.  Nothing but its TTL takes   *)
(* it away.                                                                *)
ClientLocated ==
  \A c \in Clients \ spoiled :
    LastOpen(c) =>
      IF clientSession[c] = None THEN c \in lapsed
      ELSE clientSession[c].socket = lastSocket[c] /\ clientSession[c].connected

(* The session of a client that has gone, in whatever order its sockets    *)
(* closed and whatever its partner writes to it, is one that the cleanup   *)
(* interval deletes, once its disconnect handlers are through.             *)
GoneIsMarked ==
  \A c \in Clients \ spoiled :
    ~Online(c) /\ ~Leaves(c) /\ clientSession[c] # None => ~clientSession[c].connected
=============================================================================
