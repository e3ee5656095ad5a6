------------------------- MODULE ShareSessionProofs -------------------------
(* What ShareSession guarantees for every number of clients, shares,        *)
(* sockets and handlers under way.                                          *)
EXTENDS ShareSession, TLAPS

(* What a handler under way holds.  No list that it has read, however stale *)
(* by now, has more than two entries, or more than one if it is about to    *)
(* join: it is this, and not the check against the stored list, that keeps  *)
(* the stored list short.  The fields that a pending call uses are set.     *)
Sound(state) ==
  /\ state.members # None => Len(state.members) <= 2
  /\ state.call = "saveShare" /\ state.members # None => Len(state.members) <= 1
  /\ state.call # "none" => state.client # None
  /\ state.call \in {"saveShare", "fetchSession", "saveSession",
                     "fetchShare", "leaveShare"} => state.share # None
  /\ state.call = "leaveShare" => state.members # None
  /\ state.call \in {"saveSession", "saveTouched", "deleteSession", "fetchShare",
                     "leaveShare", "markGone"} =>
       state.session # None
  /\ state.call = "deleteSession" => ~state.session.connected

Inv ==
  /\ TypeOK
  /\ ShareHoldsTwo
  /\ \A h \in Handlers : Sound(handler[h])

-----------------------------------------------------------------------------
(* Leaving yields a list of clients that is no longer than before.          *)
LEMMA WithoutShortens ==
  ASSUME NEW members \in Seq(Clients), NEW c
  PROVE  /\ Without(members, c) \in Seq(Clients)
         /\ Len(members) <= 2 => Len(Without(members, c)) <= 2
<1> DEFINE others == {i \in DOMAIN members : members[i] # c}
<1>1. CASE others = DOMAIN members
  BY <1>1 DEF Without
<1>2. CASE others # DOMAIN members /\ others = {}
  BY <1>2 DEF Without
<1>3. CASE others # DOMAIN members /\ others # {}
  <2> DEFINE i == CHOOSE i \in others : TRUE
  <2>1. i \in DOMAIN members
    BY <1>3
  <2>2. members[i] \in Clients
    BY <2>1
  <2>3. Without(members, c) = <<members[i]>>
    BY <1>3 DEF Without
  <2> QED  BY <2>2, <2>3
<1> QED  BY <1>1, <1>2, <1>3

(* Joining a share with one member, or none, leaves it with at most two.    *)
LEMMA JoinedFits ==
  ASSUME NEW members \in Seq(Clients) \cup {None}, NEW c \in Clients,
         members # None => Len(members) <= 1
  PROVE  /\ Joined(members, c) \in Seq(Clients) \ {<<>>}
         /\ Len(Joined(members, c)) <= 2
<1>1. CASE members = None
  BY <1>1 DEF Joined
<1>2. CASE members # None
  BY <1>2 DEF Joined
<1> QED  BY <1>1, <1>2

LEMMA IdleSound == Idle \in States /\ Sound(Idle)
  BY ConstantsAssumption DEF Idle, States, Calls, Leaving, Sound

LEMMA InvInit == Init => Inv
  BY IdleSound, ConstantsAssumption
     DEF Init, Inv, TypeOK, ShareHoldsTwo

(* A call that fails, or returns null, keeps to the bound on failures.     *)
LEMMA FailuresTyped ==
  ASSUME failures \in 0 .. MaxFailures
  PROVE  /\ Fails => failures' \in 0 .. MaxFailures
         /\ \A value : ReadsNull(value) => failures' \in 0 .. MaxFailures
BY ConstantsAssumption DEF Fails, ReadsNull

LEMMA InvStep == Inv /\ [Next]_vars => Inv'
<1> SUFFICES ASSUME Inv, [Next]_vars
             PROVE  Inv'
  OBVIOUS
<1> USE ConstantsAssumption, IdleSound
    DEF Inv, TypeOK, ShareHoldsTwo, store, Free, Begin, Call, End
(* A handler goes on and writes at most one value, of the right type.       *)
<1>m. ASSUME NEW h \in Handlers, NEW new \in States, Sound(new),
             handler' = [handler EXCEPT ![h] = new],
             clientSession' \in [Clients -> Sessions \cup {None}],
             shareSession' \in [Shares -> (Seq(Clients) \ {<<>>}) \cup {None}],
             ShareHoldsTwo',
             spoiled' \subseteq Clients \cup Shares,
             failures' \in 0 .. MaxFailures,
             UNCHANGED <<lastSocket, openSockets, joined, lapsed>>
      PROVE  Inv'
  BY <1>m
(* The keys of lost updates are those of handlers under way.                *)
<1>s. ASSUME NEW h \in Handlers, NEW key, NEW stored, NEW read,
             Spoil(key, stored, read), key \in Clients \cup Shares
      PROVE  spoiled' \subseteq Clients \cup Shares
  BY <1>s DEF Spoil
<1>k. ASSUME NEW h \in Handlers
      PROVE  /\ SpoilShare(handler[h]) /\ handler[h].share # None =>
                  spoiled' \subseteq Clients \cup Shares
             /\ SpoilSession(handler[h]) /\ handler[h].client # None =>
                  spoiled' \subseteq Clients \cup Shares
  BY <1>s DEF SpoilShare, SpoilSession, States
<1>1. ASSUME NEW h \in Handlers, NEW c \in Clients, Register(h, c) PROVE Inv'
  <2> DEFINE k == lastSocket[c] + 1
             session == [socket |-> k, connected |-> TRUE, share |-> None]
  <2>1. k \in 1 .. MaxSockets /\ k \in 0 .. MaxSockets
    BY <1>1 DEF Register
  <2>2. session \in Sessions
    BY <2>1 DEF Sessions
  <2>3. /\ lastSocket' = [lastSocket EXCEPT ![c] = k]
        /\ openSockets' = openSockets \cup {<<c, k>>}
        /\ clientSession' = [clientSession EXCEPT ![c] = session]
        /\ joined' \subseteq joined /\ spoiled' \subseteq spoiled /\ lapsed' \subseteq lapsed
        /\ UNCHANGED <<shareSession, handler, failures>>
    BY <1>1 DEF Register
  <2> HIDE DEF k, session
  <2>4. openSockets' \subseteq Clients \X (1 .. MaxSockets)
    BY <2>1, <2>3
  <2>5. /\ clientSession' \in [Clients -> Sessions \cup {None}]
        /\ lastSocket' \in [Clients -> 0 .. MaxSockets]
    BY <2>1, <2>2, <2>3
  <2>6. /\ joined' \subseteq joined /\ spoiled' \subseteq spoiled /\ lapsed' \subseteq lapsed
        /\ UNCHANGED <<shareSession, handler, failures>>
    BY <2>3
  <2>7. ShareHoldsTwo' /\ \A g \in Handlers : Sound(handler[g])'
    BY <2>6
  <2>8. TypeOK'
    BY <2>4, <2>5, <2>6
  <2> QED  BY <2>7, <2>8
<1>2. ASSUME NEW h \in Handlers, NEW c \in Clients, NEW s \in Shares,
             CreateShare(h, c, s)
      PROVE  Inv'
  <2> DEFINE new == [Idle EXCEPT !.call = "saveShare", !.client = c, !.share = s]
  <2>1. new \in States /\ Sound(new)
    BY DEF Idle, States, Calls, Sound
  <2> HIDE DEF new
  <2>2. failures' \in 0 .. MaxFailures
    BY <1>2, FailuresTyped DEF CreateShare
  <2> QED  BY <1>2, <2>1, <2>2 DEF CreateShare, new
<1>3. ASSUME NEW h \in Handlers, NEW c \in Clients, NEW s \in Shares,
             JoinShare(h, c, s)
      PROVE  Inv'
  <2> DEFINE list == shareSession[s]
             new  == [Idle EXCEPT !.call = "saveShare", !.client = c,
                                  !.share = s, !.members = list]
  <2>1. list \in Seq(Clients) /\ Len(list) <= 1
    BY <1>3 DEF JoinShare, Full
  <2>2. handler' = [handler EXCEPT ![h] = new]
    BY <1>3 DEF JoinShare
  <2> HIDE DEF list
  <2>3. /\ new \in States
        /\ new.call = "saveShare" /\ new.client = c /\ new.share = s
        /\ new.members = list
    BY <2>1 DEF Idle, States, Calls
  <2> HIDE DEF new
  <2>4. Sound(new)
    BY <2>1, <2>3 DEF Sound
  <2> QED  BY <1>3, <2>2, <2>3, <2>4 DEF JoinShare
<1>4. ASSUME NEW h \in Handlers, Continue(h) PROVE Inv'
  <2> DEFINE old == handler[h]
  <2>0. old \in States /\ Sound(old)
    OBVIOUS
  <2>1. CASE SaveShare(h)
    <3> DEFINE list == Joined(old.members, old.client)
               new  == [old EXCEPT !.call = "fetchSession", !.members = None]
    <3>1. /\ old.client \in Clients /\ old.share \in Shares
          /\ list \in Seq(Clients) \ {<<>>} /\ Len(list) <= 2
      BY <2>0, <2>1, JoinedFits DEF SaveShare, States, Sound
    <3>2. new \in States /\ Sound(new)
      BY <2>0, <3>1 DEF States, Calls, Sound
    <3>3. handler' = [handler EXCEPT ![h] = new]
      BY <2>1 DEF SaveShare
    <3>4. /\ shareSession' = [shareSession EXCEPT ![old.share] = list]
          /\ joined' \subseteq Clients \X Shares
          /\ UNCHANGED <<clientSession, lastSocket, openSockets, lapsed, failures>>
      BY <2>1, <3>1 DEF SaveShare
    <3>5. spoiled' \subseteq Clients \cup Shares
      BY <2>1, <3>1, <1>k DEF SaveShare
    <3> HIDE DEF list, new
    <3> QED  BY <3>1, <3>2, <3>3, <3>4, <3>5
  <2>2. CASE FetchSession(h)
    <3> DEFINE session == clientSession[old.client]
               found == [old EXCEPT !.call = "saveSession", !.session = session]
    <3>1. session \in Sessions \cup {None}
      BY <2>0, <2>2 DEF FetchSession, States, Sound
    <3>2. session # None => found \in States /\ Sound(found)
      BY <2>0, <2>2, <3>1 DEF FetchSession, States, Calls, Sound
    <3>3. \/ handler' = [handler EXCEPT ![h] = Idle]
          \/ session # None /\ handler' = [handler EXCEPT ![h] = found]
      BY <2>2 DEF FetchSession
    <3>4. failures' \in 0 .. MaxFailures
      BY <2>2, FailuresTyped DEF FetchSession
    <3> HIDE DEF found
    <3>5. UNCHANGED <<store, lastSocket, openSockets, joined, spoiled, lapsed>>
      BY <2>2 DEF FetchSession
    <3>6. CASE handler' = [handler EXCEPT ![h] = Idle]
      BY <3>4, <3>5, <3>6, <1>m
    <3>7. CASE session # None /\ handler' = [handler EXCEPT ![h] = found]
      BY <3>2, <3>4, <3>5, <3>7, <1>m
    <3> QED  BY <3>3, <3>6, <3>7
  <2>3. CASE SaveSession(h)
    <3> DEFINE moved == [old.session EXCEPT !.share = old.share]
    <3>1. moved \in Sessions
      BY <2>0, <2>3 DEF SaveSession, States, Sessions, Sound
    <3>2. old.client \in Clients
      BY <2>0, <2>3 DEF SaveSession, States, Sound
    <3>3. clientSession' = [clientSession EXCEPT ![old.client] = moved]
      BY <2>3 DEF SaveSession
    <3>4. /\ handler' = [handler EXCEPT ![h] = Idle]
          /\ UNCHANGED <<shareSession, lastSocket, openSockets, joined, lapsed, failures>>
      BY <2>3 DEF SaveSession
    <3>5. spoiled' \subseteq Clients \cup Shares
      BY <2>3, <3>2, <1>k DEF SaveSession
    <3> HIDE DEF moved
    <3>6. clientSession' \in [Clients -> Sessions \cup {None}]
      BY <3>1, <3>3
    <3> QED  BY <3>4, <3>5, <3>6, <1>m
  <2>5. CASE SaveTouched(h)
    <3>1. old.session \in Sessions /\ old.client # None
      BY <2>0, <2>5 DEF SaveTouched, States, Sound
    <3> QED  BY <2>5, <3>1, <1>k DEF SaveTouched
  <2>6. CASE ScanSessions(h)
    <3> DEFINE session == clientSession[old.client]
               call == IF session.share = None THEN "markGone" ELSE "fetchShare"
               new == [old EXCEPT !.call = call, !.share = session.share,
                                  !.session = session]
    <3>1. CASE Matches(session, old.socket)
      <4>1. session \in Sessions /\ session # None
        BY <2>0, <2>6, <3>1 DEF ScanSessions, Matches, States, Sound
      <4>2. old.client # None /\ old.call = "scanSessions"
        BY <2>0, <2>6 DEF ScanSessions, Sound
      <4>3. call \in Calls /\ session.share \in Shares \cup {None}
        BY <4>1 DEF Calls, Leaving, Sessions
      <4>4. /\ call \in {"markGone", "fetchShare"}
            /\ call = "fetchShare" => session.share # None
        OBVIOUS
      <4>5. handler' = [handler EXCEPT ![h] = new]
        BY <2>6, <3>1 DEF ScanSessions
      <4> HIDE DEF session, call
      <4>6. new \in States /\ Sound(new)
        BY <2>0, <4>1, <4>2, <4>3, <4>4 DEF States, Sound
      <4> HIDE DEF new
      <4> QED  BY <2>6, <4>5, <4>6 DEF ScanSessions
    <3>2. CASE ~Matches(session, old.socket)
      BY <2>6, <3>2 DEF ScanSessions
    <3> QED  BY <3>1, <3>2
  <2>7. CASE FetchShare(h)
    <3> DEFINE share == shareSession[old.share]
               null  == [old EXCEPT !.call = "markGone"]
               found == [old EXCEPT !.call = "leaveShare", !.members = share]
    <3>1. null \in States /\ Sound(null)
      BY <2>0, <2>7 DEF FetchShare, States, Calls, Leaving, Sound
    <3>2. ASSUME share # None PROVE found \in States /\ Sound(found)
      <4>1. share \in Seq(Clients) /\ Len(share) <= 2
        BY <2>0, <2>7, <3>2 DEF FetchShare, States, Sound
      <4> HIDE DEF share
      <4> QED
        BY <2>0, <2>7, <3>2, <4>1 DEF FetchShare, States, Calls, Leaving, Sound
    <3>3. \/ handler' = [handler EXCEPT ![h] = null]
          \/ share # None /\ handler' = [handler EXCEPT ![h] = found]
      BY <2>7 DEF FetchShare
    <3>4. failures' \in 0 .. MaxFailures
      BY <2>7, FailuresTyped DEF FetchShare
    <3> HIDE DEF null, found
    <3>5. UNCHANGED <<store, lastSocket, openSockets, joined, spoiled, lapsed>>
      BY <2>7 DEF FetchShare
    <3>6. CASE handler' = [handler EXCEPT ![h] = null]
      BY <3>1, <3>4, <3>5, <3>6, <1>m
    <3>7. CASE share # None /\ handler' = [handler EXCEPT ![h] = found]
      BY <3>2, <3>4, <3>5, <3>7, <1>m
    <3> QED  BY <3>3, <3>6, <3>7
  <2>8. CASE LeaveShare(h)
    <3> DEFINE list == Without(old.members, old.client)
               new  == [old EXCEPT !.call = "markGone", !.members = None]
    <3>1. list \in Seq(Clients) /\ Len(list) <= 2
      BY <2>0, <2>8, WithoutShortens DEF LeaveShare, States, Sound
    <3>2. new \in States /\ Sound(new)
      BY <2>0, <2>8 DEF LeaveShare, States, Calls, Leaving, Sound
    <3>3. /\ handler' = [handler EXCEPT ![h] = new]
          /\ shareSession' = [shareSession EXCEPT ![old.share] = Left(list)]
      BY <2>8 DEF LeaveShare
    <3>4. spoiled' \subseteq Clients \cup Shares
      BY <2>0, <2>8, <1>k DEF LeaveShare, Sound
    <3>5. \/ Left(list) = None
          \/ Left(list) \in Seq(Clients) \ {<<>>} /\ Len(Left(list)) <= 2
      BY <3>1 DEF Left
    <3> HIDE DEF list, new
    <3>6. UNCHANGED <<clientSession, lastSocket, openSockets, joined, lapsed, failures>>
      BY <2>8 DEF LeaveShare
    <3>7. /\ shareSession' \in [Shares -> (Seq(Clients) \ {<<>>}) \cup {None}]
          /\ ShareHoldsTwo'
      BY <3>3, <3>5
    <3> QED  BY <3>2, <3>3, <3>4, <3>6, <3>7, <1>m
  <2>9. CASE MarkGone(h)
    <3>1. Gone(old.session) \in Sessions /\ old.client # None
      BY <2>0, <2>9 DEF MarkGone, Gone, States, Sessions, Sound
    <3> QED  BY <2>9, <3>1, <1>k DEF MarkGone
  <2>10. CASE DeleteSession(h)
    <3>1. old.client # None
      BY <2>0, <2>10 DEF DeleteSession, Sound
    <3> QED  BY <2>10, <3>1, <1>k DEF DeleteSession
  <2> QED
    BY <1>4, <2>1, <2>2, <2>3, <2>5, <2>6, <2>7, <2>8, <2>9, <2>10 DEF Continue
<1>5. ASSUME NEW h \in Handlers, NEW c \in Clients, Touch(h, c) PROVE Inv'
  <2> DEFINE new == [Idle EXCEPT !.call = "saveTouched", !.client = c,
                                 !.session = clientSession[c]]
  <2>1. new \in States
    BY <1>5 DEF Idle, States, Calls
  <2>2. /\ new.call = "saveTouched" /\ new.client = c
        /\ new.session = clientSession[c] /\ new.members = None
    BY DEF Idle
  <2>3. Sound(new)
    BY <1>5, <2>2 DEF Sound, Touch
  <2> HIDE DEF new
  <2> QED  BY <1>5, <2>1, <2>3 DEF Touch, new
<1>6. ASSUME NEW h \in Handlers, NEW c \in Clients, NEW k \in 1 .. MaxSockets,
             Disconnect(h, c, k)
      PROVE  Inv'
  <2> DEFINE new == [Idle EXCEPT !.call = "scanSessions", !.client = c,
                                 !.socket = k]
  <2>1. k \in 0 .. MaxSockets
    OBVIOUS
  <2>2. new \in States
    BY <2>1 DEF States, Calls, Leaving
  <2>3. /\ new.call = "scanSessions" /\ new.client = c
        /\ new.members = Idle.members
    BY DEF States
  <2>4. Sound(new)
    BY <2>3 DEF Sound
  <2> HIDE DEF new
  <2> QED  BY <1>6, <2>2, <2>4 DEF Disconnect, new
<1>7. ASSUME NEW h \in Handlers, NEW c \in Clients, Cleanup(h, c) PROVE Inv'
  <2> DEFINE session == clientSession[c]
             new == [Idle EXCEPT !.call = "deleteSession", !.client = c,
                                 !.session = session]
  <2>1. session \in Sessions /\ session # None /\ ~session.connected
    BY <1>7 DEF Cleanup
  <2>2. handler' = [handler EXCEPT ![h] = new]
    BY <1>7 DEF Cleanup
  <2> HIDE DEF session
  <2>3. new \in States /\ Sound(new)
    BY <2>1 DEF Idle, States, Calls, Sound
  <2> HIDE DEF new
  <2> QED  BY <1>7, <2>2, <2>3 DEF Cleanup
<1>8. ASSUME NEW h \in Handlers, Abort(h) PROVE Inv'
  <2>1. handler[h].call \in Leaving => handler[h].client \in Clients
    BY DEF Leaving, States, Sound
  <2>2. spoiled' \subseteq Clients \cup Shares
    BY <1>8, <2>1 DEF Abort
  <2> QED  BY <1>8, <2>2, FailuresTyped DEF Abort
<1>9. ASSUME NEW s \in Shares, ExpireShare(s) PROVE Inv'
  BY <1>9 DEF ExpireShare
<1>10. ASSUME NEW c \in Clients, ExpireSession(c) PROVE Inv'
  BY <1>10 DEF ExpireSession
<1>11. CASE UNCHANGED vars
  BY <1>11 DEF vars
<1> QED
  BY <1>1, <1>2, <1>3, <1>4, <1>5, <1>6, <1>7, <1>8, <1>9, <1>10, <1>11
  DEF Next

(* Sessions, shares and the copies handlers hold keep their types, and no   *)
(* interleaving of joins and leaves leaves an empty share behind.           *)
THEOREM TypeCorrect == Spec => []TypeOK
<1>1. Inv => TypeOK
  BY DEF Inv
<1> QED  BY <1>1, InvInit, InvStep, PTL DEF Spec

(* A share never has more than two members, however many requests for it    *)
(* overlap.                                                                 *)
THEOREM ShareNeverOverfull == Spec => []ShareHoldsTwo
<1>1. Inv => ShareHoldsTwo
  BY DEF Inv
<1> QED  BY <1>1, InvInit, InvStep, PTL DEF Spec

-----------------------------------------------------------------------------
(* What a lost update costs.                                                *)

Numbered == \A k \in openSockets : k[2] <= lastSocket[k[1]]

(* A disconnect handler is that of a closed socket, and goes on only for a  *)
(* session that names it.                                                   *)
Departs(state) ==
  state.call \in Leaving =>
    /\ <<state.client, state.socket>> \notin openSockets
    /\ state.socket <= lastSocket[state.client]
    /\ state.call # "scanSessions" => state.session.socket = state.socket

(* The session of a client names its latest socket, until it expires.  It   *)
(* says connected as long as that is open, and longer only while its        *)
(* disconnect handler is under way.                                         *)
Located(c) ==
  /\ LastOpen(c) => IF clientSession[c] = None THEN c \in lapsed
                                               ELSE clientSession[c].connected
  /\ clientSession[c] # None =>
       /\ clientSession[c].socket = lastSocket[c]
       /\ clientSession[c].connected =>
            \/ LastOpen(c)
            \/ \E h \in Handlers :
                 /\ handler[h].call \in Leaving
                 /\ handler[h].client = c
                 /\ handler[h].socket = lastSocket[c]

(* No handler takes a client that has joined out of its share: only that of *)
(* a former socket can be under way, and it will not find its own.          *)
Stays(state) ==
  \A j \in joined :
    j[1] = state.client /\ j[1] \notin spoiled =>
      /\ state.call \notin {"fetchShare", "leaveShare"}
      /\ state.call = "scanSessions" => state.socket # lastSocket[state.client]

Spared ==
  /\ Numbered
  /\ \A h \in Handlers : Departs(handler[h])
  /\ \A c \in Clients \ spoiled : Located(c)
  /\ \A h \in Handlers : Stays(handler[h])
  /\ JoinedIsMember

Entries(members) == {members[i] : i \in DOMAIN members}

(* Joining and leaving keep the entries of the others.                      *)
LEMMA JoinedKeeps ==
  ASSUME NEW members \in Seq(Clients), NEW c \in Clients, members # None
  PROVE  Entries(Joined(members, c)) = Entries(members) \cup {c}
<1> DEFINE list == Joined(members, c)
<1>1. Len(list) = Len(members) + 1 /\ list[Len(members) + 1] = c
  BY DEF Joined
<1>2. \A i \in 1 .. Len(members) : list[i] = members[i]
  BY DEF Joined
<1>3. DOMAIN list = 1 .. Len(members) + 1 /\ DOMAIN members = 1 .. Len(members)
  BY DEF Joined
<1> HIDE DEF list
<1>4. Entries(list) \subseteq Entries(members) \cup {c}
  BY <1>1, <1>2, <1>3 DEF Entries
<1>5. Entries(members) \cup {c} \subseteq Entries(list)
  BY <1>1, <1>2, <1>3 DEF Entries
<1> QED  BY <1>4, <1>5 DEF list

LEMMA WithoutKeeps ==
  ASSUME NEW members \in Seq(Clients), Len(members) <= 2, NEW c, NEW d,
         d \in Entries(members), d # c
  PROVE  d \in Entries(Without(members, c))
<1> DEFINE others == {i \in DOMAIN members : members[i] # c}
<1>1. PICK i \in DOMAIN members : members[i] = d
  BY DEF Entries
<1>2. CASE others = DOMAIN members
  BY <1>2 DEF Without
<1>3. CASE others # DOMAIN members
  <2>1. PICK k \in DOMAIN members : members[k] = c
    BY <1>3
  <2>2. DOMAIN members = 1 .. Len(members) /\ Len(members) \in Nat
    OBVIOUS
  <2>3. \A j \in others : j = i
    BY <1>1, <2>1, <2>2
  <2>4. i \in others
    BY <1>1
  <2>5. (CHOOSE j \in others : TRUE) = i
    BY <2>3, <2>4
  <2>6. Without(members, c) = <<d>>
    BY <1>1, <1>3, <2>4, <2>5 DEF Without
  <2> QED  BY <2>6 DEF Entries
<1> QED  BY <1>2, <1>3

LEMMA HandlerMoves ==
  ASSUME TypeOK, NEW h \in Handlers, NEW new, handler' = [handler EXCEPT ![h] = new]
  PROVE  /\ handler'[h] = new
         /\ \A g \in Handlers : g # h => handler'[g] = handler[g]
BY DEF TypeOK

(* A handler begins that is not one of "disconnect".                        *)
Starts(h, c) ==
  \/ Touch(h, c) \/ Cleanup(h, c)
  \/ \E s \in Shares : CreateShare(h, c, s) \/ JoinShare(h, c, s)

LEMMA StartMoves ==
  ASSUME TypeOK, NEW h \in Handlers, NEW c \in Clients, Starts(h, c)
  PROVE  /\ handler[h] = Idle /\ handler'[h].call \notin Leaving
         /\ \A g \in Handlers : g # h => handler'[g] = handler[g]
         /\ UNCHANGED clientSession /\ UNCHANGED shareSession
         /\ UNCHANGED lastSocket /\ UNCHANGED openSockets
         /\ UNCHANGED joined /\ UNCHANGED spoiled /\ UNCHANGED lapsed
<1> DEFINE Goal == /\ handler[h] = Idle /\ handler'[h].call \notin Leaving
                   /\ \A g \in Handlers : g # h => handler'[g] = handler[g]
                   /\ UNCHANGED clientSession /\ UNCHANGED shareSession
                   /\ UNCHANGED lastSocket /\ UNCHANGED openSockets
                   /\ UNCHANGED joined /\ UNCHANGED spoiled /\ UNCHANGED lapsed
<1>a. ASSUME NEW new, Begin(h, new), new.call \notin Leaving,
             UNCHANGED <<store, lastSocket, openSockets, joined, spoiled, lapsed>>
      PROVE  Goal
  BY <1>a, HandlerMoves DEF Begin, Free, store
<1>b. Idle = [call |-> "none", client |-> None, socket |-> 0, share |-> None,
              session |-> None, members |-> None]
  BY DEF Idle
<1> HIDE DEF Goal
<1>1. ASSUME Touch(h, c) PROVE Goal
  <2> DEFINE new == [Idle EXCEPT !.call = "saveTouched", !.client = c,
                                 !.session = clientSession[c]]
  <2>1. new.call \notin Leaving
    BY <1>b DEF Leaving
  <2> HIDE DEF new
  <2> QED  BY <1>1, <1>a, <2>1 DEF Touch, new
<1>2. ASSUME Cleanup(h, c) PROVE Goal
  <2> DEFINE new == [Idle EXCEPT !.call = "deleteSession", !.client = c,
                                 !.session = clientSession[c]]
  <2>1. new.call \notin Leaving
    BY <1>b DEF Leaving
  <2> HIDE DEF new
  <2> QED  BY <1>2, <1>a, <2>1 DEF Cleanup, new
<1>3. ASSUME NEW s \in Shares, CreateShare(h, c, s) PROVE Goal
  BY <1>3, <1>a, <1>b DEF CreateShare, Leaving
<1>4. ASSUME NEW s \in Shares, JoinShare(h, c, s) PROVE Goal
  BY <1>4, <1>a, <1>b DEF JoinShare, Leaving
<1>5. Goal
  BY <1>1, <1>2, <1>3, <1>4 DEF Starts
<1> QED  BY <1>5 DEF Goal

LEMMA DisconnectMoves ==
  ASSUME TypeOK, NEW h \in Handlers, NEW c \in Clients, NEW k \in 1 .. MaxSockets,
         Disconnect(h, c, k)
  PROVE  /\ handler[h] = Idle
         /\ handler'[h].call = "scanSessions"
         /\ handler'[h].client = c /\ handler'[h].socket = k
         /\ \A g \in Handlers : g # h => handler'[g] = handler[g]
<1> DEFINE new == [Idle EXCEPT !.call = "scanSessions", !.client = c, !.socket = k]
<1>1. handler[h] = Idle /\ handler' = [handler EXCEPT ![h] = new]
  BY DEF Disconnect, Begin, Free
<1>2. new.call = "scanSessions" /\ new.client = c /\ new.socket = k
  BY DEF Idle
<1> HIDE DEF new
<1> QED  BY <1>1, <1>2, HandlerMoves

(* The other handlers rest.                                                 *)
LEMMA OthersRest ==
  ASSUME TypeOK, NEW h \in Handlers, NEW g \in Handlers, g # h,
         Continue(h) \/ Abort(h)
  PROVE  handler'[g] = handler[g]
<1>1. \E new : handler' = [handler EXCEPT ![h] = new]
  <2> DEFINE old == handler[h]
             Goal == \E new : handler' = [handler EXCEPT ![h] = new]
  <2>a. ASSUME NEW new, handler' = [handler EXCEPT ![h] = new] PROVE Goal
    BY <2>a
  <2> HIDE DEF Goal
  <2>1. ASSUME SaveShare(h) \/ LeaveShare(h) PROVE Goal
    <3>1. \/ handler' = [handler EXCEPT ![h] = [old EXCEPT !.call = "fetchSession",
                                                         !.members = None]]
          \/ handler' = [handler EXCEPT ![h] = [old EXCEPT !.call = "markGone",
                                                         !.members = None]]
      BY <2>1 DEF SaveShare, LeaveShare
    <3> QED  BY <3>1, <2>a
  <2>2. ASSUME FetchSession(h) PROVE Goal
    BY <2>2, <2>a DEF FetchSession, End
  <2>3. ASSUME \/ SaveSession(h) \/ SaveTouched(h) \/ MarkGone(h)
               \/ DeleteSession(h) \/ Abort(h)
        PROVE  Goal
    BY <2>3, <2>a DEF SaveSession, SaveTouched, MarkGone, DeleteSession, Abort, End
  <2>4. ASSUME ScanSessions(h) PROVE Goal
    BY <2>4, <2>a DEF ScanSessions, End
  <2>5. ASSUME FetchShare(h) PROVE Goal
    BY <2>5, <2>a DEF FetchShare, Call
  <2>6. Goal
    BY <2>1, <2>2, <2>3, <2>4, <2>5 DEF Continue
  <2> QED  BY <2>6 DEF Goal
<1> QED  BY <1>1, HandlerMoves

(* A handler that goes on and is still a disconnect handler is that of the  *)
(* same client and socket.                                                  *)
LEMMA ContinueMoves ==
  ASSUME Inv, NEW h \in Handlers, Continue(h)
  PROVE  LET old == handler[h]
             new == handler'[h]
         IN  \/ new.call \notin Leaving
             \/ /\ old.call \in Leaving /\ new.call \in Leaving
                /\ new.client = old.client /\ new.socket = old.socket
                /\ \/ /\ old.call = "scanSessions"
                      /\ Matches(clientSession[old.client], old.socket)
                      /\ new.session = clientSession[old.client]
                   \/ old.call = "fetchShare" /\ new.session = old.session
                   \/ /\ old.call = "leaveShare" /\ new.call = "markGone"
                      /\ new.session = old.session
<1> DEFINE old == handler[h]
<1>a. TypeOK /\ handler \in [Handlers -> States] /\ old \in States
  BY DEF Inv, TypeOK
<1>i. Idle.call = "none"
  BY DEF Idle
<1>1. CASE SaveShare(h)
  BY <1>a, <1>1 DEF SaveShare, States, Leaving
<1>2. CASE FetchSession(h)
  BY <1>a, <1>i, <1>2 DEF FetchSession, End, States, Leaving
<1>3. CASE SaveSession(h) \/ SaveTouched(h) \/ MarkGone(h) \/ DeleteSession(h)
  BY <1>a, <1>i, <1>3 DEF SaveSession, SaveTouched, MarkGone, DeleteSession, End, Leaving
<1>4. CASE ScanSessions(h)
  BY <1>a, <1>i, <1>4 DEF ScanSessions, End, States, Leaving
<1>5. CASE FetchShare(h)
  BY <1>a, <1>5 DEF FetchShare, Call, States, Leaving
<1>6. CASE LeaveShare(h)
  BY <1>a, <1>6 DEF LeaveShare, States, Leaving
<1> QED  BY <1>1, <1>2, <1>3, <1>4, <1>5, <1>6 DEF Continue

(* What each step leaves alone.                                             *)
LEMMA ContinueRests ==
  ASSUME NEW h \in Handlers, Continue(h)
  PROVE  /\ UNCHANGED lastSocket /\ UNCHANGED openSockets /\ UNCHANGED lapsed
         /\ spoiled \subseteq spoiled'
         /\ ~SaveShare(h) => UNCHANGED joined
         /\ ~SaveShare(h) /\ ~LeaveShare(h) => UNCHANGED shareSession
<1>1. CASE SaveShare(h)
  BY <1>1 DEF SaveShare, SpoilShare, Spoil
<1>2. CASE LeaveShare(h)
  BY <1>2 DEF LeaveShare, SpoilShare, Spoil
<1>3. CASE FetchSession(h) \/ ScanSessions(h) \/ FetchShare(h)
  BY <1>3 DEF FetchSession, ScanSessions, FetchShare, store
<1>4. CASE SaveSession(h) \/ SaveTouched(h)
  BY <1>4 DEF SaveSession, SaveTouched, SpoilSession, Spoil
<1>5. CASE MarkGone(h) \/ DeleteSession(h)
  BY <1>5 DEF MarkGone, DeleteSession, SpoilSession, Spoil
<1> QED  BY <1>1, <1>2, <1>3, <1>4, <1>5 DEF Continue

LEMMA AbortRests ==
  ASSUME NEW h \in Handlers, Abort(h)
  PROVE  /\ UNCHANGED clientSession /\ UNCHANGED shareSession
         /\ UNCHANGED lastSocket /\ UNCHANGED openSockets
         /\ UNCHANGED joined /\ UNCHANGED lapsed
         /\ spoiled \subseteq spoiled'
         /\ handler[h].call \in Leaving => handler[h].client \in spoiled'
BY DEF Abort, store

(* What an update lost has done lasts until the client registers again.     *)
LEMMA SpoiledHeals ==
  ASSUME Inv, [Next]_vars, NEW key \in spoiled, key \notin spoiled'
  PROVE  key \in Clients /\ \E h \in Handlers : Register(h, key)
<1>a. TypeOK
  BY DEF Inv
<1> DEFINE Goal == key \in Clients /\ \E h \in Handlers : Register(h, key)
<1>0. spoiled \subseteq spoiled' => Goal
  OBVIOUS
<1>1. ASSUME NEW h \in Handlers, NEW c \in Clients, Register(h, c) PROVE Goal
  <2>1. spoiled' = spoiled \ {c}
    BY <1>1 DEF Register
  <2> QED  BY <1>1, <2>1
<1> HIDE DEF Goal
<1>2. ASSUME NEW h \in Handlers, NEW c \in Clients, NEW k \in 1 .. MaxSockets,
             Disconnect(h, c, k)
      PROVE  Goal
  BY <1>0, <1>2 DEF Disconnect
<1>3. ASSUME NEW s \in Shares, ExpireShare(s) PROVE Goal
  BY <1>0, <1>3 DEF ExpireShare
<1>4. ASSUME NEW c \in Clients, ExpireSession(c) PROVE Goal
  BY <1>0, <1>4 DEF ExpireSession
<1>5. CASE UNCHANGED vars
  BY <1>0, <1>5 DEF vars
<1>6. Goal
  BY <1>0, <1>a, <1>1, <1>2, <1>3, <1>4, <1>5, StartMoves, ContinueRests, AbortRests
  DEF Next, Starts
<1> QED  BY <1>6 DEF Goal

(* Who has joined was not spoiled before the step if it is not after it: a  *)
(* client that was has just registered, and a share never recovers.         *)
LEMMA JoinedUnspoiled ==
  ASSUME Inv, [Next]_vars, NEW j \in joined', j[1] \notin spoiled'
  PROVE  j[1] \notin spoiled /\ (j[2] \notin spoiled' => j[2] \notin spoiled)
<1>1. j[1] \in Clients /\ j[2] \in Shares
  BY InvStep DEF Inv, TypeOK
<1>2. ASSUME j[1] \in spoiled PROVE FALSE
  <2>1. \E h \in Handlers : Register(h, j[1])
    BY <1>2, SpoiledHeals
  <2> QED  BY <1>2, <2>1 DEF Register
<1>3. ASSUME j[2] \in spoiled, j[2] \notin spoiled' PROVE FALSE
  BY <1>1, <1>3, SpoiledHeals, ConstantsAssumption
<1> QED  BY <1>2, <1>3

-----------------------------------------------------------------------------
LEMMA NumberedStep == Inv /\ Numbered /\ [Next]_vars => Numbered'
<1> SUFFICES ASSUME Inv, Numbered, [Next]_vars PROVE Numbered'
  OBVIOUS
<1>a. /\ openSockets \subseteq Clients \X (1 .. MaxSockets) /\ TypeOK
      /\ lastSocket \in [Clients -> 0 .. MaxSockets] /\ MaxSockets \in Nat
  BY ConstantsAssumption DEF Inv, TypeOK
<1>1. CASE \E h \in Handlers, c \in Clients : Register(h, c)
  <2>1. PICK c \in Clients :
          /\ lastSocket' = [lastSocket EXCEPT ![c] = lastSocket[c] + 1]
          /\ openSockets' = openSockets \cup {<<c, lastSocket[c] + 1>>}
    BY <1>1 DEF Register
  <2> QED  BY <1>a, <2>1 DEF Numbered
<1>2. CASE \E h \in Handlers, c \in Clients, k \in 1 .. MaxSockets :
             Disconnect(h, c, k)
  BY <1>2 DEF Disconnect, Numbered
<1>3. ASSUME lastSocket' = lastSocket, openSockets' = openSockets PROVE Numbered'
  BY <1>3 DEF Numbered
<1>4. ASSUME NEW h \in Handlers, NEW c \in Clients, Starts(h, c) PROVE Numbered'
  BY <1>a, <1>3, <1>4, StartMoves
<1>5. ASSUME NEW h \in Handlers, Continue(h) \/ Abort(h) PROVE Numbered'
  BY <1>3, <1>5, ContinueRests, AbortRests
<1>6. CASE \/ \E s \in Shares : ExpireShare(s)
           \/ \E c \in Clients : ExpireSession(c)
           \/ UNCHANGED vars
  BY <1>3, <1>6 DEF ExpireShare, ExpireSession, vars
<1> QED  BY <1>1, <1>2, <1>4, <1>5, <1>6 DEF Next, Starts

LEMMA DepartsStep ==
  Inv /\ Numbered /\ (\A h \in Handlers : Departs(handler[h])) /\ [Next]_vars =>
    (\A h \in Handlers : Departs(handler[h]))'
<1> SUFFICES ASSUME Inv, Numbered, \A h \in Handlers : Departs(handler[h]),
                    [Next]_vars, NEW g \in Handlers
             PROVE  Departs(handler[g])'
  OBVIOUS
<1>a. /\ TypeOK /\ handler \in [Handlers -> States] /\ MaxSockets \in Nat
      /\ lastSocket \in [Clients -> 0 .. MaxSockets]
      /\ openSockets \subseteq Clients \X (1 .. MaxSockets)
      /\ Departs(handler[g]) /\ Sound(handler[g])
  BY ConstantsAssumption DEF Inv, TypeOK
<1>b. handler[g].call \in Leaving =>
        handler[g].client \in Clients /\ handler[g].socket \in 0 .. MaxSockets
  BY <1>a DEF Sound, States, Leaving
(* It rests, or is no disconnect handler any more.                          *)
<1>c. ASSUME handler'[g] = handler[g] \/ handler'[g].call \notin Leaving,
             lastSocket' = lastSocket, openSockets' \subseteq openSockets
      PROVE  Departs(handler[g])'
  BY <1>a, <1>c DEF Departs
<1>1. ASSUME NEW h \in Handlers, NEW c \in Clients, Register(h, c)
      PROVE  Departs(handler[g])'
  <2>1. /\ lastSocket' = [lastSocket EXCEPT ![c] = lastSocket[c] + 1]
        /\ openSockets' = openSockets \cup {<<c, lastSocket[c] + 1>>}
        /\ UNCHANGED handler
    BY <1>1 DEF Register
  <2> QED  BY <1>a, <1>b, <2>1 DEF Departs
<1>2. ASSUME NEW h \in Handlers, NEW c \in Clients, NEW k \in 1 .. MaxSockets,
             Disconnect(h, c, k)
      PROVE  Departs(handler[g])'
  <2>1. /\ <<c, k>> \in openSockets /\ openSockets' = openSockets \ {<<c, k>>}
        /\ UNCHANGED lastSocket
    BY <1>2 DEF Disconnect
  <2>2. CASE g = h
    <3>1. k <= lastSocket[c]
      BY <2>1 DEF Numbered
    <3> QED  BY <1>a, <1>2, <2>1, <2>2, <3>1, DisconnectMoves DEF Departs
  <2>3. CASE g # h
    BY <1>a, <1>c, <1>2, <2>1, <2>3, DisconnectMoves
  <2> QED  BY <2>2, <2>3
<1>3. ASSUME NEW h \in Handlers, NEW c \in Clients, Starts(h, c)
      PROVE  Departs(handler[g])'
  BY <1>a, <1>c, <1>3, StartMoves
<1>4. ASSUME NEW h \in Handlers, Continue(h) PROVE Departs(handler[g])'
  <2>1. UNCHANGED <<lastSocket, openSockets>>
    BY <1>4, ContinueRests
  <2>2. CASE g = h /\ handler'[h].call \in Leaving
    <3> DEFINE old == handler[h]
               new == handler'[h]
    <3>1. /\ old.call \in Leaving
          /\ new.client = old.client /\ new.socket = old.socket
          /\ \/ new.session = old.session /\ old.call # "scanSessions"
             \/ /\ Matches(clientSession[old.client], old.socket)
                /\ new.session = clientSession[old.client]
      BY <1>4, <2>2, ContinueMoves
    <3>2. new.session.socket = new.socket
      BY <1>a, <2>2, <3>1 DEF Departs, Matches
    <3> QED  BY <1>a, <2>1, <2>2, <3>1, <3>2 DEF Departs
  <2>3. CASE g # h \/ handler'[h].call \notin Leaving
    BY <1>a, <1>c, <1>4, <2>1, <2>3, OthersRest
  <2> QED  BY <2>2, <2>3
<1>5. ASSUME NEW h \in Handlers, Abort(h) PROVE Departs(handler[g])'
  <2>1. handler'[h].call \notin Leaving
    BY <1>a, <1>5 DEF Abort, End, Idle, Leaving
  <2>2. g # h => handler'[g] = handler[g]
    BY <1>a, <1>5, OthersRest
  <2> QED  BY <1>c, <1>5, <2>1, <2>2, AbortRests
<1>6. CASE \/ \E s \in Shares : ExpireShare(s)
           \/ \E c \in Clients : ExpireSession(c)
           \/ UNCHANGED vars
  BY <1>c, <1>6 DEF ExpireShare, ExpireSession, vars
<1> QED  BY <1>1, <1>2, <1>3, <1>4, <1>5, <1>6 DEF Next, Starts

-----------------------------------------------------------------------------
LEMMA LocatedStep ==
  Inv /\ Spared /\ [Next]_vars => (\A c \in Clients \ spoiled : Located(c))'
<1> SUFFICES ASSUME Inv, Spared, [Next]_vars, NEW c \in Clients, c \notin spoiled'
             PROVE  Located(c)'
  OBVIOUS
<1>a. /\ TypeOK /\ handler \in [Handlers -> States] /\ MaxSockets \in Nat
      /\ lastSocket \in [Clients -> 0 .. MaxSockets]
      /\ clientSession \in [Clients -> Sessions \cup {None}]
      /\ openSockets \subseteq Clients \X (1 .. MaxSockets)
      /\ \A h \in Handlers : Sound(handler[h]) /\ Departs(handler[h])
  BY ConstantsAssumption DEF Inv, TypeOK, Spared
<1>s. None \notin Sessions
  BY SessionsAssumption
(* "register" replaces the session, whatever has become of it.              *)
<1>r. ASSUME NEW h \in Handlers, Register(h, c) PROVE Located(c)'
  <2> DEFINE k == lastSocket[c] + 1
             session == [socket |-> k, connected |-> TRUE, share |-> None]
  <2>1. /\ lastSocket' = [lastSocket EXCEPT ![c] = k]
        /\ openSockets' = openSockets \cup {<<c, k>>}
        /\ clientSession' = [clientSession EXCEPT ![c] = session]
        /\ k \in 1 .. MaxSockets
    BY <1>r, <1>a DEF Register
  <2>2. session \in Sessions
    BY <2>1 DEF Sessions
  <2>3. session.socket = k /\ session.connected
    OBVIOUS
  <2> HIDE DEF session, k
  <2> QED  BY <1>a, <1>s, <2>1, <2>2, <2>3 DEF Located, LastOpen
<1> SUFFICES ASSUME \A h \in Handlers : ~Register(h, c) PROVE Located(c)'
  BY <1>r
<1>b. Located(c) /\ c \notin spoiled
  BY SpoiledHeals DEF Spared
(* Nothing changes for the client: its disconnect handlers go on, or there  *)
(* was none that mattered.                                                  *)
<1>c. ASSUME clientSession'[c] = clientSession[c], lastSocket'[c] = lastSocket[c],
             LastOpen(c)' <=> LastOpen(c), c \in lapsed => c \in lapsed',
             \A h \in Handlers :
               /\ handler[h].call \in Leaving /\ handler[h].client = c
               /\ handler[h].socket = lastSocket[c]
               /\ clientSession[c] # None
               => /\ handler'[h].call \in Leaving /\ handler'[h].client = c
                  /\ handler'[h].socket = lastSocket[c]
      PROVE  Located(c)'
  BY <1>b, <1>c DEF Located
<1>1. ASSUME NEW h \in Handlers, NEW d \in Clients, Register(h, d)
      PROVE  Located(c)'
  <2>1. c # d
    BY <1>1
  <2>2. /\ lastSocket' = [lastSocket EXCEPT ![d] = lastSocket[d] + 1]
        /\ openSockets' = openSockets \cup {<<d, lastSocket[d] + 1>>}
        /\ \E session : clientSession' = [clientSession EXCEPT ![d] = session]
        /\ lapsed' = lapsed \ {d} /\ UNCHANGED handler
    BY <1>1 DEF Register
  <2> QED  BY <1>a, <1>c, <2>1, <2>2 DEF LastOpen
<1>2. ASSUME NEW h \in Handlers, NEW d \in Clients, NEW k \in 1 .. MaxSockets,
             Disconnect(h, d, k)
      PROVE  Located(c)'
  <2>0. /\ openSockets' = openSockets \ {<<d, k>>}
        /\ UNCHANGED <<clientSession, lastSocket>>
    BY <1>2 DEF Disconnect, store
  <2>1. /\ openSockets' = openSockets \ {<<d, k>>} /\ handler[h] = Idle
        /\ UNCHANGED <<clientSession, lastSocket>>
    BY <1>a, <1>2, <2>0, DisconnectMoves
  <2>2. CASE c = d /\ k = lastSocket[c]
    BY <1>a, <1>b, <1>2, <2>1, <2>2, DisconnectMoves DEF Located, LastOpen, Leaving
  <2>3. CASE ~(c = d /\ k = lastSocket[c])
    <3>1. handler[h].call \notin Leaving
      BY <2>1 DEF Idle, Leaving
    <3>2. \A g \in Handlers : g # h => handler'[g] = handler[g]
      BY <1>a, <1>2, DisconnectMoves
    <3>3. c \in lapsed => c \in lapsed'
      BY <1>2, <2>3 DEF Disconnect
    <3> QED  BY <1>c, <2>1, <2>3, <3>1, <3>2, <3>3 DEF LastOpen
  <2> QED  BY <2>2, <2>3
<1>3. ASSUME NEW h \in Handlers, NEW d \in Clients, Starts(h, d)
      PROVE  Located(c)'
  <2>1. handler[h].call \notin Leaving
    BY <1>a, <1>3, StartMoves DEF Idle, Leaving
  <2> QED  BY <1>a, <1>c, <1>3, <2>1, StartMoves DEF LastOpen
(* A write to the session of this client finds what the handler has read.   *)
<1>w. ASSUME NEW h \in Handlers, SpoilSession(handler[h]), handler[h].client = c
      PROVE  clientSession[c] = handler[h].session
  BY <1>w DEF SpoilSession, Spoil
<1>4. ASSUME NEW h \in Handlers, Continue(h) PROVE Located(c)'
  <2> DEFINE old == handler[h]
  <2>1. \A g \in Handlers : g # h => handler'[g] = handler[g]
    BY <1>a, <1>4, OthersRest
  <2>2. UNCHANGED <<lastSocket, openSockets, lapsed>>
    BY <1>4, ContinueRests
  <2>3. CASE SaveShare(h) \/ FetchSession(h) \/ FetchShare(h) \/ LeaveShare(h)
    <3>1. UNCHANGED clientSession
      BY <2>3 DEF SaveShare, FetchSession, FetchShare, LeaveShare, store
    <3>2. old.call \in Leaving =>
            /\ handler'[h].call \in Leaving
            /\ handler'[h].client = old.client /\ handler'[h].socket = old.socket
      BY <1>a, <2>3 DEF SaveShare, FetchSession, FetchShare, LeaveShare, Call,
                        States, Leaving
    <3> QED  BY <1>c, <2>1, <2>2, <3>1, <3>2 DEF LastOpen
  <2>4. CASE ScanSessions(h)
    <3>1. UNCHANGED clientSession /\ old.call = "scanSessions"
      BY <2>4 DEF ScanSessions, store
    <3>2. ASSUME old.client = c, old.socket = lastSocket[c], clientSession[c] # None
          PROVE  /\ handler'[h].call \in Leaving
                 /\ handler'[h].client = c /\ handler'[h].socket = old.socket
      <4>1. Matches(clientSession[c], old.socket)
        BY <1>b, <3>2 DEF Matches, Located
      <4> QED  BY <1>a, <2>4, <3>2, <4>1 DEF ScanSessions, States, Leaving
    <3> QED  BY <1>c, <2>1, <2>2, <3>1, <3>2 DEF LastOpen
  <2>5. CASE SaveSession(h)
    <3> DEFINE moved == [old.session EXCEPT !.share = old.share]
    <3>1. /\ old.call = "saveSession" /\ SpoilSession(old)
          /\ clientSession' = [clientSession EXCEPT ![old.client] = moved]
      BY <2>5 DEF SaveSession
    <3>2. /\ old.session \in Sessions /\ moved \in Sessions
          /\ moved.socket = old.session.socket
          /\ moved.connected = old.session.connected
      BY <1>a, <3>1 DEF Sound, States, Sessions
    <3> HIDE DEF moved
    <3>3. CASE old.client = c
      <4>1. /\ clientSession'[c] = moved /\ moved # None
            /\ clientSession[c] = old.session /\ clientSession[c] # None
        BY <1>a, <1>s, <1>w, <3>1, <3>2, <3>3
      <4> QED  BY <1>b, <2>1, <2>2, <3>1, <3>2, <4>1 DEF Located, LastOpen, Leaving
    <3>4. CASE old.client # c
      BY <1>a, <1>c, <2>1, <2>2, <3>1, <3>4 DEF LastOpen
    <3> QED  BY <3>3, <3>4
  <2>6. CASE SaveTouched(h)
    <3>1. /\ old.call = "saveTouched" /\ SpoilSession(old)
          /\ clientSession' = [clientSession EXCEPT ![old.client] = old.session]
      BY <2>6 DEF SaveTouched
    <3>2. clientSession'[c] = clientSession[c]
      BY <1>a, <1>w, <3>1
    <3> QED  BY <1>c, <2>1, <2>2, <3>1, <3>2 DEF LastOpen, Leaving
  <2>7. CASE MarkGone(h)
    <3>1. /\ old.call = "markGone" /\ SpoilSession(old)
          /\ clientSession' = [clientSession EXCEPT ![old.client] = Gone(old.session)]
      BY <2>7 DEF MarkGone
    <3>2. /\ old.session \in Sessions /\ Gone(old.session) \in Sessions
          /\ Gone(old.session).socket = old.session.socket
          /\ ~Gone(old.session).connected
      BY <1>a, <3>1 DEF Gone, Sound, States, Sessions
    <3>3. CASE old.client = c
      <4>1. /\ clientSession'[c] = Gone(old.session) /\ Gone(old.session) # None
            /\ clientSession[c] = old.session /\ clientSession[c] # None
        BY <1>a, <1>s, <1>w, <3>1, <3>2, <3>3
      <4>2. ~LastOpen(c) /\ old.session.socket = lastSocket[c]
        BY <1>a, <1>b, <3>1, <3>3, <4>1 DEF Departs, Leaving, Located, LastOpen
      <4> QED  BY <2>2, <3>2, <4>1, <4>2 DEF Located, LastOpen
    <3>4. CASE old.client # c
      BY <1>a, <1>c, <2>1, <2>2, <3>1, <3>4 DEF LastOpen
    <3> QED  BY <3>3, <3>4
  <2>8. CASE DeleteSession(h)
    <3>1. /\ old.call = "deleteSession" /\ SpoilSession(old)
          /\ clientSession' = [clientSession EXCEPT ![old.client] = None]
      BY <2>8 DEF DeleteSession
    <3>2. CASE old.client = c
      <4>1. clientSession[c] # None /\ ~clientSession[c].connected
        BY <1>a, <1>w, <3>1, <3>2 DEF Sound
      <4>2. ~LastOpen(c)
        BY <1>b, <4>1 DEF Located
      <4> QED  BY <1>a, <2>2, <3>1, <3>2, <4>2 DEF Located, LastOpen
    <3>3. CASE old.client # c
      BY <1>a, <1>c, <2>1, <2>2, <3>1, <3>3 DEF LastOpen
    <3> QED  BY <3>2, <3>3
  <2> QED
    BY <1>4, <2>3, <2>4, <2>5, <2>6, <2>7, <2>8 DEF Continue
<1>5. ASSUME NEW h \in Handlers, Abort(h) PROVE Located(c)'
  <2>1. /\ handler[h].call \in Leaving => handler[h].client # c
        /\ UNCHANGED <<clientSession, lastSocket, openSockets, lapsed>>
    BY <1>5 DEF Abort, store
  <2>2. \A g \in Handlers : g # h => handler'[g] = handler[g]
    BY <1>a, <1>5, OthersRest
  <2> QED  BY <1>c, <2>1, <2>2 DEF LastOpen
<1>6. ASSUME NEW d \in Clients, ExpireSession(d) PROVE Located(c)'
  <2>1. /\ clientSession' = [clientSession EXCEPT ![d] = None]
        /\ lapsed' = IF LastOpen(d) THEN lapsed \cup {d} ELSE lapsed
        /\ UNCHANGED <<lastSocket, openSockets, handler>>
    BY <1>6 DEF ExpireSession
  <2>2. CASE c = d
    BY <1>a, <2>1, <2>2 DEF Located, LastOpen
  <2>3. CASE c # d
    BY <1>a, <1>c, <2>1, <2>3 DEF LastOpen
  <2> QED  BY <2>2, <2>3
<1>7. CASE (\E s \in Shares : ExpireShare(s)) \/ UNCHANGED vars
  BY <1>c, <1>7 DEF ExpireShare, vars, store, LastOpen
<1> QED  BY <1>1, <1>2, <1>3, <1>4, <1>5, <1>6, <1>7 DEF Next, Starts

-----------------------------------------------------------------------------
LEMMA StaysStep ==
  Inv /\ Spared /\ [Next]_vars => (\A h \in Handlers : Stays(handler[h]))'
<1> SUFFICES ASSUME Inv, Spared, [Next]_vars, NEW g \in Handlers,
                    NEW j \in joined', j[1] = handler'[g].client, j[1] \notin spoiled'
             PROVE  /\ handler'[g].call \notin {"fetchShare", "leaveShare"}
                    /\ handler'[g].call = "scanSessions" =>
                         handler'[g].socket # lastSocket'[j[1]]
  BY DEF Stays
<1> DEFINE c == j[1]
           Goal == /\ handler'[g].call \notin {"fetchShare", "leaveShare"}
                   /\ handler'[g].call = "scanSessions" =>
                        handler'[g].socket # lastSocket'[c]
<1>a. /\ TypeOK /\ handler \in [Handlers -> States] /\ MaxSockets \in Nat
      /\ lastSocket \in [Clients -> 0 .. MaxSockets]
      /\ joined \subseteq Clients \X Shares
      /\ Sound(handler[g]) /\ Departs(handler[g]) /\ Stays(handler[g])
  BY ConstantsAssumption DEF Inv, TypeOK, Spared
<1>b. c \notin spoiled
  BY JoinedUnspoiled
<1>c. ASSUME handler'[g] = handler[g], j \in joined, UNCHANGED lastSocket PROVE Goal
  BY <1>a, <1>b, <1>c DEF Stays
<1>d. handler'[g].call \notin Leaving => Goal
  BY DEF Leaving
<1> HIDE DEF Goal
<1>1. ASSUME NEW h \in Handlers, NEW d \in Clients, Register(h, d) PROVE Goal
  <2>1. /\ lastSocket' = [lastSocket EXCEPT ![d] = lastSocket[d] + 1]
        /\ j \in joined /\ UNCHANGED handler
    BY <1>1 DEF Register
  <2>2. CASE c = d
    <3>1. handler[g].call = "scanSessions" => handler[g].socket <= lastSocket[d]
      BY <1>a, <2>1, <2>2 DEF Departs, Leaving
    <3>2. handler[g].socket \in 0 .. MaxSockets
      BY <1>a DEF States
    <3> QED  BY <1>a, <1>b, <2>1, <2>2, <3>1, <3>2 DEF Stays, Goal
  <2>3. CASE c # d
    <3>1. lastSocket'[c] = lastSocket[c]
      BY <1>a, <2>1, <2>3
    <3> QED  BY <1>a, <1>b, <2>1, <3>1 DEF Stays, Goal
  <2> QED  BY <2>2, <2>3
<1>2. ASSUME NEW h \in Handlers, NEW d \in Clients, NEW k \in 1 .. MaxSockets,
             Disconnect(h, d, k)
      PROVE  Goal
  <2>1. /\ joined' = IF k = lastSocket[d] THEN {i \in joined : i[1] # d} ELSE joined
        /\ UNCHANGED lastSocket
    BY <1>2 DEF Disconnect
  <2>2. CASE g = h
    BY <1>a, <1>2, <2>1, <2>2, DisconnectMoves DEF Goal
  <2>3. CASE g # h
    <3>1. handler'[g] = handler[g]
      BY <1>a, <1>2, <2>3, DisconnectMoves
    <3> QED  BY <1>c, <2>1, <3>1
  <2> QED  BY <2>2, <2>3
<1>3. ASSUME NEW h \in Handlers, NEW d \in Clients, Starts(h, d) PROVE Goal
  BY <1>a, <1>c, <1>d, <1>3, StartMoves
<1>4. ASSUME NEW h \in Handlers, SaveShare(h) PROVE Goal
  <2>1. UNCHANGED lastSocket /\ handler'[h].call = "fetchSession"
    BY <1>a, <1>4 DEF SaveShare, States
  <2>2. CASE g = h
    BY <1>d, <2>1, <2>2 DEF Leaving
  <2>3. CASE g # h
    <3>1. handler'[g] = handler[g]
      BY <1>a, <1>4, <2>3, OthersRest DEF Continue
    <3>2. j \in joined \/ ~Leaves(c)
      BY <1>4 DEF SaveShare
    <3>3. ~Leaves(c) => handler'[g].call \notin Leaving
      BY <3>1 DEF Leaves
    <3> QED  BY <1>c, <1>d, <2>1, <3>1, <3>2, <3>3
  <2> QED  BY <2>2, <2>3
<1>5. ASSUME NEW h \in Handlers, Continue(h), ~SaveShare(h) PROVE Goal
  <2>1. UNCHANGED <<lastSocket, joined>>
    BY <1>5, ContinueRests
  <2>2. CASE g # h
    <3>1. handler'[g] = handler[g]
      BY <1>a, <1>5, <2>2, OthersRest
    <3> QED  BY <1>c, <2>1, <3>1
  <2>3. CASE g = h /\ handler'[h].call \in Leaving
    <3> DEFINE old == handler[h]
               new == handler'[h]
    <3>1. /\ new.client = old.client /\ new.socket = old.socket
          /\ \/ /\ old.call = "scanSessions"
                /\ Matches(clientSession[old.client], old.socket)
             \/ old.call = "fetchShare"
             \/ old.call = "leaveShare" /\ new.call = "markGone"
      BY <1>5, <2>3, ContinueMoves
    <3>2. old.client = c
      BY <2>3, <3>1
    <3>3. old.call # "fetchShare"
      BY <1>a, <1>b, <2>1, <2>3, <3>2 DEF Stays
    <3>4. ASSUME old.call = "scanSessions", Matches(clientSession[c], old.socket)
          PROVE  FALSE
      <4>1. old.socket # lastSocket[c]
        BY <1>a, <1>b, <2>1, <2>3, <3>2, <3>4 DEF Stays
      <4>2. Located(c)
        BY <1>a, <1>b, <2>1 DEF Spared
      <4> QED  BY <3>4, <4>1, <4>2 DEF Located, Matches
    <3> QED  BY <2>3, <3>1, <3>2, <3>3, <3>4 DEF Goal
  <2>4. CASE g = h /\ handler'[h].call \notin Leaving
    BY <1>d, <2>4
  <2> QED  BY <2>2, <2>3, <2>4
<1>6. ASSUME NEW h \in Handlers, Abort(h) PROVE Goal
  <2>1. UNCHANGED <<lastSocket, joined>> /\ handler'[h].call \notin Leaving
    BY <1>a, <1>6 DEF Abort, End, Idle, Leaving
  <2>2. g # h => handler'[g] = handler[g]
    BY <1>a, <1>6, OthersRest
  <2> QED  BY <1>c, <1>d, <2>1, <2>2
<1>7. ASSUME \/ \E s \in Shares : ExpireShare(s)
             \/ \E d \in Clients : ExpireSession(d)
             \/ UNCHANGED vars
      PROVE  Goal
  <2>1. handler' = handler /\ joined' \subseteq joined /\ lastSocket' = lastSocket
    <3>1. CASE \E s \in Shares : ExpireShare(s)
      BY <3>1 DEF ExpireShare
    <3>2. CASE \E d \in Clients : ExpireSession(d)
      BY <3>2 DEF ExpireSession
    <3>3. CASE UNCHANGED vars
      BY <3>3 DEF vars
    <3> QED  BY <1>7, <3>1, <3>2, <3>3
  <2> QED  BY <1>c, <2>1
<1>8. ASSUME NEW h \in Handlers, Continue(h) PROVE Goal
  BY <1>4, <1>5, <1>8
<1>9. Goal
  BY <1>1, <1>2, <1>3, <1>6, <1>7, <1>8 DEF Next, Starts
<1> QED  BY <1>9 DEF Goal

-----------------------------------------------------------------------------
LEMMA MemberStep == Inv /\ Spared /\ [Next]_vars => JoinedIsMember'
<1> SUFFICES ASSUME Inv, Spared, [Next]_vars,
                    NEW j \in joined', j[1] \notin spoiled', j[2] \notin spoiled'
             PROVE  j[1] \in Members(j[2])'
  BY DEF JoinedIsMember
<1>a. /\ TypeOK /\ handler \in [Handlers -> States]
      /\ shareSession \in [Shares -> (Seq(Clients) \ {<<>>}) \cup {None}]
      /\ joined \subseteq Clients \X Shares
      /\ \A h \in Handlers : Sound(handler[h]) /\ Stays(handler[h])
      /\ None \notin Seq(Clients)
  BY SessionsAssumption DEF Inv, TypeOK, Spared
<1>b. j[1] \notin spoiled /\ j[2] \notin spoiled
  BY JoinedUnspoiled
<1>m. j \in joined => j[1] \in Members(j[2]) /\ j[1] \in Clients /\ j[2] \in Shares
  BY <1>a, <1>b DEF Spared, JoinedIsMember
<1>c. ASSUME j \in joined, shareSession'[j[2]] = shareSession[j[2]]
      PROVE  j[1] \in Members(j[2])'
  BY <1>c, <1>m DEF Members
<1>1. ASSUME NEW h \in Handlers, SaveShare(h) PROVE j[1] \in Members(j[2])'
  <2> DEFINE old == handler[h]
             list == Joined(old.members, old.client)
  <2>1. /\ old.call = "saveShare" /\ SpoilShare(old)
        /\ shareSession' = [shareSession EXCEPT ![old.share] = list]
        /\ j \in joined \/ j = <<old.client, old.share>>
    BY <1>1 DEF SaveShare
  <2>2. old.client \in Clients /\ old.share \in Shares
    BY <1>a, <2>1 DEF Sound, States
  <2>s. PICK s \in Shares : s = old.share
    BY <2>2
  <2>3. /\ list \in Seq(Clients) /\ list # None
        /\ old.client \in Entries(list)
        /\ old.members # None => Entries(list) = Entries(old.members) \cup {old.client}
    <3>1. CASE old.members = None
      <4>1. list = <<old.client>>
        BY <3>1 DEF Joined
      <4>2. <<old.client>> \in Seq(Clients) /\ Entries(<<old.client>>) = {old.client}
        BY <2>2 DEF Entries
      <4> QED  BY <1>a, <3>1, <4>1, <4>2
    <3>2. CASE old.members # None
      <4>1. old.members \in Seq(Clients)
        BY <1>a, <3>2 DEF States
      <4>2. list \in Seq(Clients)
        BY <2>2, <3>2, <4>1 DEF Joined
      <4> QED  BY <1>a, <2>2, <3>2, <4>1, <4>2, JoinedKeeps
    <3> QED  BY <3>1, <3>2
  <2> HIDE DEF list
  <2>4. Members(s)' = Entries(list)
    <3>1. shareSession'[s] = list
      BY <1>a, <2>1, <2>2, <2>s
    <3>2. Members(s)' = IF shareSession'[s] = None THEN {} ELSE Entries(shareSession'[s])
      BY DEF Members, Entries
    <3> QED  BY <2>3, <3>1, <3>2
  <2>5. CASE j = <<old.client, old.share>>
    <3>1. j[1] = old.client /\ j[2] = s
      BY <2>5, <2>s
    <3> QED  BY <2>3, <2>4, <3>1
  <2>6. CASE j \in joined /\ j[2] # old.share
    BY <1>a, <1>c, <1>m, <2>1, <2>6
  <2>7. CASE j \in joined /\ j[2] = old.share
    <3>1. shareSession[j[2]] = old.members
      BY <2>1, <2>7 DEF SpoilShare, Spoil
    <3>2. old.members # None /\ j[1] \in Entries(old.members)
      BY <1>m, <2>7, <3>1 DEF Members, Entries
    <3> QED  BY <2>3, <2>4, <2>7, <2>s, <3>2
  <2> QED  BY <2>1, <2>5, <2>6, <2>7
<1>2. ASSUME NEW h \in Handlers, LeaveShare(h) PROVE j[1] \in Members(j[2])'
  <2> DEFINE old == handler[h]
             list == Without(old.members, old.client)
  <2>1. /\ old.call = "leaveShare" /\ SpoilShare(old) /\ j \in joined
        /\ shareSession' = [shareSession EXCEPT ![old.share] = Left(list)]
    BY <1>2 DEF LeaveShare
  <2>2. CASE j[2] # old.share
    BY <1>a, <1>c, <1>m, <2>1, <2>2
  <2>3. CASE j[2] = old.share
    <3>1. shareSession[j[2]] = old.members
      BY <2>1, <2>3 DEF SpoilShare, Spoil
    <3>2. j[1] # old.client
      BY <1>a, <1>b, <2>1 DEF Stays
    <3>3. /\ old.members \in Seq(Clients) /\ Len(old.members) <= 2
          /\ j[1] \in Entries(old.members)
      BY <1>a, <1>m, <2>1, <3>1 DEF Members, Entries, Sound, States
    <3>4. list \in Seq(Clients) /\ j[1] \in Entries(list)
      BY <3>2, <3>3, WithoutShortens, WithoutKeeps
    <3> HIDE DEF list
    <3>5. list # <<>> /\ list # None
      BY <1>a, <3>4 DEF Entries
    <3>6. shareSession'[j[2]] = list
      BY <1>a, <1>m, <2>1, <2>3, <3>5 DEF Left
    <3> QED  BY <3>4, <3>5, <3>6 DEF Members, Entries
  <2> QED  BY <2>2, <2>3
<1>3. ASSUME NEW s \in Shares, ExpireShare(s) PROVE j[1] \in Members(j[2])'
  BY <1>3, <1>a, <1>c, <1>m DEF ExpireShare
<1>4. ASSUME NEW h \in Handlers, Continue(h), ~SaveShare(h), ~LeaveShare(h)
      PROVE  j[1] \in Members(j[2])'
  BY <1>c, <1>4, ContinueRests
<1>5. ASSUME NEW h \in Handlers, Abort(h) PROVE j[1] \in Members(j[2])'
  BY <1>c, <1>5, AbortRests
<1>6. ASSUME NEW h \in Handlers, NEW c \in Clients, Starts(h, c)
      PROVE  j[1] \in Members(j[2])'
  BY <1>a, <1>c, <1>6, StartMoves
<1>7. ASSUME NEW h \in Handlers, NEW c \in Clients, Register(h, c)
      PROVE  j[1] \in Members(j[2])'
  BY <1>c, <1>7 DEF Register
<1>8. ASSUME NEW h \in Handlers, NEW c \in Clients, NEW k \in 1 .. MaxSockets,
             Disconnect(h, c, k)
      PROVE  j[1] \in Members(j[2])'
  BY <1>c, <1>8 DEF Disconnect, store
<1>9. CASE (\E c \in Clients : ExpireSession(c)) \/ UNCHANGED vars
  BY <1>c, <1>9 DEF ExpireSession, vars, store
<1>10. \/ \E h \in Handlers :
            \/ SaveShare(h) \/ LeaveShare(h)
            \/ Continue(h) /\ ~SaveShare(h) /\ ~LeaveShare(h)
            \/ Abort(h)
       \/ \E h \in Handlers, c \in Clients :
            \/ Register(h, c) \/ Starts(h, c)
            \/ \E k \in 1 .. MaxSockets : Disconnect(h, c, k)
       \/ \E s \in Shares : ExpireShare(s)
       \/ \E c \in Clients : ExpireSession(c)
       \/ UNCHANGED vars
  BY DEF Next, Starts
<1> QED
  BY <1>1, <1>2, <1>3, <1>4, <1>5, <1>6, <1>7, <1>8, <1>9, <1>10

-----------------------------------------------------------------------------
LEMMA SparedInit == Init => Spared
BY ConstantsAssumption
   DEF Init, Spared, Numbered, Departs, Located, LastOpen, Stays, JoinedIsMember,
       Leaving, Idle

LEMMA SparedStep == Inv /\ Spared /\ [Next]_vars => Spared'
<1> SUFFICES ASSUME Inv, Spared, [Next]_vars PROVE Spared'
  OBVIOUS
<1>1. Numbered'
  BY NumberedStep DEF Spared
<1>2. (\A h \in Handlers : Departs(handler[h]))'
  BY DepartsStep DEF Spared
<1> QED  BY <1>1, <1>2, LocatedStep, StaysStep, MemberStep DEF Spared

LEMMA SparedAlways == Spec => [](Inv /\ Spared)
<1>1. Inv /\ Spared /\ [Next]_vars => (Inv /\ Spared)'
  BY InvStep, SparedStep
<1> QED  BY <1>1, InvInit, SparedInit, PTL DEF Spec

(* However many handlers overlap and fail: a client stays a member of the   *)
(* share it has joined until its latest socket closes, unless a write has   *)
(* replaced a value that its handler had not read, of this very client or   *)
(* this very share.                                                         *)
THEOREM JoinedStaysMember == Spec => []JoinedIsMember
<1>1. Spared => JoinedIsMember
  BY DEF Spared
<1> QED  BY <1>1, SparedAlways, PTL

(* The session of a client whose latest socket is open names it and says    *)
(* connected, unless an update of this very session was lost since the      *)
(* client registered: nothing but the TTL takes it away before that.        *)
THEOREM LastSocketLocated == Spec => []ClientLocated
<1>1. Spared => ClientLocated
  BY DEF Spared, ClientLocated, Located, LastOpen
<1> QED  BY <1>1, SparedAlways, PTL

(* And it is marked as gone if no socket of the client is open and its      *)
(* disconnect handlers are through: nothing but a lost update of it leaves  *)
(* a session behind that the cleanup interval would never delete.           *)
THEOREM GoneAlwaysMarked == Spec => []GoneIsMarked
<1>1. Inv /\ Spared => GoneIsMarked
  <2> SUFFICES ASSUME Inv, Spared, NEW c \in Clients, c \notin spoiled, ~Online(c),
                      ~Leaves(c), clientSession[c] # None, clientSession[c].connected
               PROVE  FALSE
    BY DEF GoneIsMarked
  <2>1. LastOpen(c)
    BY DEF Spared, Located, Leaves
  <2> QED  BY <2>1 DEF Inv, TypeOK, LastOpen, Online
<1> QED  BY <1>1, SparedAlways, PTL
=============================================================================
