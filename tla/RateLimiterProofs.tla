--------------------------- MODULE RateLimiterProofs ---------------------------
(* What RateLimiter guarantees for every limit and number of requests.       *)
EXTENDS RateLimiter, FiniteSetTheorems, TLAPS

(* Those that have been let in and have not incremented the count yet.       *)
Pending(i) == {r \in Requests : request[r].for = i}

(* The count does not tell that a request that is let in when it is below    *)
(* the limit leaves room for no more than the requests still idle: together  *)
(* with those pending it does.                                               *)
Inv ==
  /\ TypeOK
  /\ \A i \in Identifiers :
       count[i] + Cardinality(Pending(i)) <= RateLimit - 1 + Cardinality(Requests)

-----------------------------------------------------------------------------
LEMMA PendingTyped ==
  ASSUME NEW i
  PROVE  /\ IsFiniteSet(Pending(i))
         /\ Cardinality(Pending(i)) \in Nat
         /\ Cardinality(Requests) \in Nat
         /\ Cardinality(Pending(i)) <= Cardinality(Requests)
<1>1. Pending(i) \in SUBSET Requests
  BY DEF Pending
<1> QED  BY <1>1, ConstantsAssumption, FS_Subset, FS_CardinalityType

(* When r begins, or ends, it is one more, or less, of what it is for.       *)
LEMMA PendingMoves ==
  ASSUME TypeOK, NEW r \in Requests, NEW state \in States,
         request' = [request EXCEPT ![r] = state], NEW i \in Identifiers
  PROVE  /\ request[r].for # i /\ state.for # i =>
              Cardinality(Pending(i))' = Cardinality(Pending(i))
         /\ request[r].for # i /\ state.for = i =>
              Cardinality(Pending(i))' = Cardinality(Pending(i)) + 1
         /\ request[r].for = i /\ state.for # i =>
              Cardinality(Pending(i))' = Cardinality(Pending(i)) - 1
<1>1. request'[r] = state /\ \A q \in Requests \ {r} : request'[q] = request[q]
  BY DEF TypeOK
<1>2. IsFiniteSet(Pending(i))
  BY PendingTyped
<1>3. CASE request[r].for # i /\ state.for # i
  <2>1. Pending(i)' = Pending(i)
    BY <1>1, <1>3 DEF Pending
  <2> QED  BY <1>3, <2>1
<1>4. CASE request[r].for # i /\ state.for = i
  <2>1. Pending(i)' = Pending(i) \cup {r} /\ r \notin Pending(i)
    BY <1>1, <1>4 DEF Pending
  <2> QED  BY <1>2, <1>4, <2>1, FS_AddElement
<1>5. CASE request[r].for = i /\ state.for # i
  <2>1. Pending(i)' = Pending(i) \ {r} /\ r \in Pending(i)
    BY <1>1, <1>5 DEF Pending
  <2> QED  BY <1>2, <1>5, <2>1, FS_RemoveElement
<1> QED  BY <1>3, <1>4, <1>5

LEMMA InvInit == Init => Inv
<1> SUFFICES ASSUME Init PROVE Inv
  OBVIOUS
<1>1. TypeOK
  BY ConstantsAssumption DEF Init, TypeOK, States, Idle
<1>2. ASSUME NEW i \in Identifiers
      PROVE  count[i] + Cardinality(Pending(i))
               <= RateLimit - 1 + Cardinality(Requests)
  <2>1. count[i] = 0
    BY DEF Init
  <2> QED  BY <2>1, PendingTyped, ConstantsAssumption
<1> QED  BY <1>1, <1>2 DEF Inv

LEMMA InvStep == Inv /\ [Next]_vars => Inv'
<1> SUFFICES ASSUME Inv, [Next]_vars PROVE Inv'
  OBVIOUS
<1> USE ConstantsAssumption
<1>a. /\ TypeOK
      /\ count \in [Identifiers -> Nat]
      /\ request \in [Requests -> States]
  BY DEF Inv, TypeOK
<1>b. Idle \in States /\ Idle.for = None
  BY DEF Idle, States
<1>c. ASSUME NEW i \in Identifiers
      PROVE  /\ count[i] \in Nat
             /\ Cardinality(Pending(i)) \in Nat /\ Cardinality(Requests) \in Nat
             /\ count[i] + Cardinality(Pending(i))
                  <= RateLimit - 1 + Cardinality(Requests)
             /\ Cardinality(Pending(i))' <= Cardinality(Requests)
             /\ Cardinality(Pending(i))' \in Nat
  <2>1. /\ Pending(i) \in SUBSET Requests
        /\ Pending(i)' \in SUBSET Requests
    BY DEF Pending
  <2> QED  BY <1>a, <2>1, FS_Subset, FS_CardinalityType DEF Inv
<1>1. ASSUME NEW r \in Requests, NEW j \in Identifiers, Get(r, j) PROVE Inv'
  <2> DEFINE new == [for |-> j, fresh |-> count[j] = 0]
  <2>1. /\ request[r] = Idle /\ count[j] < RateLimit
        /\ request' = [request EXCEPT ![r] = new]
        /\ UNCHANGED <<count, expiring>>
    BY <1>1 DEF Get, Allowed
  <2>2. new \in States /\ new.for = j
    BY DEF States
  <2> HIDE DEF new
  <2>3. TypeOK'
    BY <1>a, <2>1, <2>2 DEF TypeOK
  <2>4. ASSUME NEW i \in Identifiers
        PROVE  (count[i] + Cardinality(Pending(i))
                 <= RateLimit - 1 + Cardinality(Requests))'
    <3>1. CASE i = j
      BY <2>1, <3>1, <1>c
    <3>2. CASE i # j
      BY <1>a, <1>b, <1>c, <2>1, <2>2, <3>2, PendingMoves
    <3> QED  BY <3>1, <3>2
  <2> QED  BY <2>3, <2>4 DEF Inv
<1>2. ASSUME NEW r \in Requests, Increment(r) PROVE Inv'
  <2> DEFINE j == request[r].for
  <2>1. /\ j \in Identifiers
        /\ count' = [count EXCEPT ![j] = count[j] + 1]
        /\ request' = [request EXCEPT ![r] = Idle]
    BY <1>2, <1>a DEF Increment, States
  <2>2. expiring' = IF request[r].fresh THEN expiring \cup {j} ELSE expiring
    BY <1>2 DEF Increment, Expires
  <2>3. count'[j] = count[j] + 1 /\ \A i \in Identifiers \ {j} : count'[i] = count[i]
    BY <1>a, <2>1
  <2>4. TypeOK'
    <3>1. count' \in [Identifiers -> Nat] /\ request' \in [Requests -> States]
      BY <1>a, <1>b, <1>c, <2>1
    <3>2. \A i \in Identifiers : count[i] > 0 => count'[i] > 0
      BY <1>c, <2>1, <2>3
    <3>3. count'[j] > 0
      BY <1>c, <2>1, <2>3
    <3>4. expiring' \in SUBSET {i \in Identifiers : count'[i] > 0}
      BY <1>a, <2>1, <2>2, <3>2, <3>3 DEF TypeOK
    <3> QED  BY <3>1, <3>4 DEF TypeOK
  <2>5. ASSUME NEW i \in Identifiers
        PROVE  (count[i] + Cardinality(Pending(i))
                 <= RateLimit - 1 + Cardinality(Requests))'
    <3>1. i = j => Cardinality(Pending(i))' = Cardinality(Pending(i)) - 1
      BY <1>a, <1>b, <2>1, PendingMoves
    <3>2. i # j => Cardinality(Pending(i))' = Cardinality(Pending(i))
      BY <1>a, <1>b, <2>1, PendingMoves
    <3> QED  BY <1>c, <2>1, <2>3, <3>1, <3>2
  <2> QED  BY <2>4, <2>5 DEF Inv
<1>3. ASSUME NEW r \in Requests, Abort(r) PROVE Inv'
  <2>1. /\ request' = [request EXCEPT ![r] = Idle]
        /\ UNCHANGED <<count, expiring>>
    BY <1>3 DEF Abort
  <2>2. TypeOK'
    BY <1>a, <1>b, <2>1 DEF TypeOK
  <2>3. ASSUME NEW i \in Identifiers
        PROVE  (count[i] + Cardinality(Pending(i))
                 <= RateLimit - 1 + Cardinality(Requests))'
    <3>1. request[r].for # i =>
            Cardinality(Pending(i))' = Cardinality(Pending(i))
      BY <1>a, <1>b, <2>1, PendingMoves
    <3>2. request[r].for = i =>
            Cardinality(Pending(i))' = Cardinality(Pending(i)) - 1
      BY <1>a, <1>b, <2>1, PendingMoves
    <3> QED  BY <1>c, <2>1, <3>1, <3>2
  <2> QED  BY <2>2, <2>3 DEF Inv
<1>4. ASSUME NEW j \in Identifiers, WindowEnds(j) PROVE Inv'
  <2>1. /\ count' = [count EXCEPT ![j] = 0]
        /\ expiring' = expiring \ {j}
        /\ request' = request
    BY <1>4 DEF WindowEnds, AfterWindow
  <2>2. count'[j] = 0 /\ \A i \in Identifiers \ {j} : count'[i] = count[i]
    BY <1>a, <2>1
  <2>3. TypeOK'
    <3>1. expiring' \in SUBSET {i \in Identifiers : count'[i] > 0}
      BY <1>a, <2>1, <2>2 DEF TypeOK
    <3> QED  BY <1>a, <2>1, <3>1 DEF TypeOK
  <2>4. ASSUME NEW i \in Identifiers
        PROVE  (count[i] + Cardinality(Pending(i))
                 <= RateLimit - 1 + Cardinality(Requests))'
    <3>1. CASE i = j
      BY <1>c, <2>2, <3>1
    <3>2. CASE i # j
      <4>1. Pending(i)' = Pending(i)
        BY <2>1 DEF Pending
      <4> QED  BY <1>c, <2>2, <3>2, <4>1
    <3> QED  BY <3>1, <3>2
  <2> QED  BY <2>3, <2>4 DEF Inv
<1>5. CASE UNCHANGED vars
  <2>1. TypeOK' /\ \A i : Pending(i)' = Pending(i)
    BY <1>a, <1>5 DEF vars, TypeOK, Pending
  <2> QED  BY <1>5, <2>1 DEF vars, Inv
<1> QED  BY <1>1, <1>2, <1>3, <1>4, <1>5 DEF Next

(* Counts and what requests have read keep their types: a TTL is only ever   *)
(* set on a key that exists.                                                 *)
THEOREM TypeCorrect == Spec => []TypeOK
<1>1. Inv => TypeOK
  BY DEF Inv
<1> QED  BY <1>1, InvInit, InvStep, PTL DEF Spec

(* In a window the limit is exceeded by less than the number of requests     *)
(* that can be under way at a time.                                          *)
THEOREM RateStaysBounded == Spec => []RateBounded
<1>1. Inv => RateBounded
  <2> SUFFICES ASSUME Inv, NEW i \in Identifiers
               PROVE  count[i] <= RateLimit - 1 + Cardinality(Requests)
    BY DEF RateBounded
  <2>1. count[i] \in Nat
    BY DEF Inv, TypeOK
  <2> QED  BY <2>1, PendingTyped, ConstantsAssumption DEF Inv
<1> QED  BY <1>1, InvInit, InvStep, PTL DEF Spec
=============================================================================
