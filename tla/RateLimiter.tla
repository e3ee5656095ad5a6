---------------------------- MODULE RateLimiter ----------------------------
(***************************************************************************)
(* The rate limiter that upload-init and heartbeat ask first               *)
(* (RedisService.checkRateLimit).  It reads the count of a window, and     *)
(* increments it a round trip later; the TTL of the key ends the window.   *)
(* An action is one call to Redis.                                         *)
(***************************************************************************)
EXTENDS Naturals, FiniteSets

CONSTANTS
  Identifiers,   \* upload:<clientId>, heartbeat:<clientId>
  Requests,      \* bound: how many requests may be under way at a time
  None,
  RateLimit      \* maxRequests

ASSUME ConstantsAssumption ==
  /\ None \notin Identifiers
  /\ IsFiniteSet(Requests)
  /\ RateLimit \in Nat \ {0}

VARIABLES
  count,      \* Redis: ratelimit:<identifier>, 0 if there is no key
  expiring,   \* the identifiers whose key has a TTL
  request     \* what each request that has read a count is for

vars == <<count, expiring, request>>

(* fresh: it has read that there is no key.                                *)
States == [for : Identifiers \cup {None}, fresh : BOOLEAN]

Idle == [for |-> None, fresh |-> FALSE]

TypeOK ==
  /\ count \in [Identifiers -> Nat]
  /\ expiring \in SUBSET {i \in Identifiers : count[i] > 0}
  /\ request \in [Requests -> States]

Init ==
  /\ count = [i \in Identifiers |-> 0]
  /\ expiring = {}
  /\ request = [r \in Requests |-> Idle]

-----------------------------------------------------------------------------
AllowedOnceMore(n) == n <= RateLimit
Allowed(n) == n < RateLimit

(* GET.  At the limit the client is told so, and nothing changes.          *)
Get(r, i) ==
  /\ request[r] = Idle
  /\ Allowed(count[i])
  /\ request' = [request EXCEPT ![r] = [for |-> i, fresh |-> count[i] = 0]]
  /\ UNCHANGED <<count, expiring>>

(* INCR and, if the count was 0, EXPIRE, in one transaction.               *)
Expires(r) == request[r].fresh

Increment(r) ==
  LET i == request[r].for
  IN  /\ i # None
      /\ count' = [count EXCEPT ![i] = @ + 1]
      /\ expiring' = IF Expires(r) THEN expiring \cup {i} ELSE expiring
      /\ request' = [request EXCEPT ![r] = Idle]

(* A call is rejected, which ends the handler, or its process crashes.     *)
Abort(r) ==
  /\ request[r] # Idle
  /\ request' = [request EXCEPT ![r] = Idle]
  /\ UNCHANGED <<count, expiring>>

(* The TTL of the key.                                                     *)
AfterWindowRefilled(n) == n - RateLimit
AfterWindow(n) == 0

WindowEnds(i) ==
  /\ i \in expiring
  /\ count' = [count EXCEPT ![i] = AfterWindow(@)]
  /\ expiring' = expiring \ {i}
  /\ UNCHANGED request

Next ==
  \/ \E r \in Requests :
       \/ \E i \in Identifiers : Get(r, i)
       \/ Increment(r) \/ Abort(r)
  \/ \E i \in Identifiers : WindowEnds(i)

Spec == Init /\ [][Next]_vars

(* Calls return, and keys with a TTL expire.                               *)
Fairness ==
  /\ \A r \in Requests : WF_vars(Increment(r) \/ Abort(r))
  /\ \A i \in Identifiers : WF_vars(WindowEnds(i))

FairSpec == Spec /\ Fairness

-----------------------------------------------------------------------------
(* Properties.                                                             *)

(* "Maximum uploads per user per minute": requests that overlap exceed the *)
(* limit of a window by less than their number.                            *)
RateBounded ==
  \A i \in Identifiers : count[i] <= RateLimit - 1 + Cardinality(Requests)

(* "Rate-limit window in seconds": an identifier at its limit is let in    *)
(* again, when the window is over.                                         *)
BlockedIsLetIn ==
  \A i \in Identifiers : ~Allowed(count[i]) ~> Allowed(count[i])
=============================================================================
