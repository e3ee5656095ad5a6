--------------------------- MODULE TransferProofs ---------------------------
(***************************************************************************)
(* Proofs about Transfer, for any number of chunks, handlers and retries.  *)
(***************************************************************************)
EXTENDS Transfer, TLAPS

(* A chunk was asked for again as often as its entry in pendingAcks says,  *)
(* or less often.                                                          *)
Counted == \A i \in Chunks : retryTold[i] <= upload.retries[i]

(* At most one handler is about to announce the completion, and none once  *)
(* it is announced; both go with the status "completed", which is final.   *)
Announcing(h) == handler[h].step = "announce"
Once ==
  /\ \A g, h \in Handlers : Announcing(g) /\ Announcing(h) => g = h
  /\ \A h \in Handlers :
       Announcing(h) => completions = 0 /\ upload.status = "completed"
  /\ completions # 0 => completions = 1 /\ upload.status = "completed"

(* Redis is not ahead of the object in memory.                             *)
Behind == stored.status = "completed" => upload.status = "completed"

Inv == TypeOK /\ Counted /\ Once /\ Behind

(* The initial state satisfies the invariant.                              *)
LEMMA InvInit == Init => Inv
<1> SUFFICES ASSUME Init PROVE Inv
  OBVIOUS
<1>1. TypeOK
  BY ConstantsAssumption
     DEF Init, TypeOK, Uploads, Records, Receivers, Statuses
<1>2. \A h \in Handlers : ~Announcing(h)
  BY DEF Init, Announcing, Idle
<1>3. QED
  BY <1>1, <1>2, ConstantsAssumption DEF Init, Inv, Counted, Once, Behind

-----------------------------------------------------------------------------
(* A handler that is at a step has a chunk, and keeps its type when it     *)
(* goes on to another step.                                                *)
LEMMA BusyHandler ==
  ASSUME handler \in [Handlers -> Busy \cup {Idle}], NEW h \in Handlers,
         handler[h].step # "none"
  PROVE  /\ handler[h].chunk \in Chunks
         /\ \A step \in {"forward", "settle", "finish", "announce"} :
              Goto(h, step) => handler' \in [Handlers -> Busy \cup {Idle}]
<1>1. handler[h] \in Busy
  BY DEF Idle
<1>2. \A step \in {"forward", "settle", "finish", "announce"} :
        [handler[h] EXCEPT !.step = step] \in Busy
  BY <1>1 DEF Busy
<1>3. QED
  BY <1>1, <1>2 DEF Busy, Goto

(* Redis holds a record after every setUploadState.                        *)
LEMMA PersistTyped ==
  ASSUME NEW u, u.status \in Statuses, stored \in Records, Persist(u),
         useRedis \in BOOLEAN
  PROVE  stored' \in Records
BY DEF Persist, Records

(* Every step keeps the types.                                             *)
LEMMA TypeStep == TypeOK /\ [Next]_vars => TypeOK'
<1> SUFFICES ASSUME TypeOK, [Next]_vars PROVE TypeOK'
  OBVIOUS
<1> USE DEF TypeOK, Uploads, Receivers, Statuses
<1>1. ASSUME NEW h \in Handlers, NEW i \in Chunks, ReceiveChunk(h, i)
      PROVE  TypeOK'
  <2>1. sends' \in [Chunks -> 0 .. MaxSends]
    BY <1>1, ConstantsAssumption DEF ReceiveChunk
  <2>2. upload' \in Uploads
    BY <1>1 DEF ReceiveChunk, Tracked
  <2>3. handler' \in [Handlers -> Busy \cup {Idle}]
    BY <1>1 DEF ReceiveChunk, Busy
  <2>4. QED
    BY <1>1, <2>1, <2>2, <2>3 DEF ReceiveChunk, setting
<1>2. ASSUME NEW h \in Handlers, Forward(h) PROVE TypeOK'
  <2>1. handler[h].chunk \in Chunks
    BY <1>2, BusyHandler DEF Forward
  <2>2. handler' \in [Handlers -> Busy \cup {Idle}]
    BY <1>2, BusyHandler DEF Forward
  <2>3. QED
    BY <1>2, <2>1, <2>2 DEF Forward, Routed, setting, sender
<1>3. ASSUME NEW h \in Handlers, Settle(h) PROVE TypeOK'
  <2>1. handler[h].chunk \in Chunks
    BY <1>3, BusyHandler DEF Settle
  <2>2. handler' \in [Handlers -> Busy \cup {Idle}]
    BY <1>3, BusyHandler DEF Settle
  <2>3. upload' \in Uploads
    BY <1>3 DEF Settle
  <2>4. QED
    BY <1>3, <2>1, <2>2, <2>3 DEF Settle, setting
<1>4. ASSUME NEW h \in Handlers, Finish(h) PROVE TypeOK'
  <2>1. CASE Completes(upload)
    <3>1. upload' \in Uploads
      BY <1>4, <2>1 DEF Finish
    <3>2. stored' \in Records
      BY <1>4, <2>1, <3>1, PersistTyped DEF Finish
    <3>3. handler' \in [Handlers -> Busy \cup {Idle}]
      BY <1>4, <2>1, BusyHandler DEF Finish
    <3>4. QED
      BY <1>4, <2>1, <3>1, <3>2, <3>3 DEF Finish, setting
  <2>2. CASE ~Completes(upload)
    BY <1>4, <2>2 DEF Finish, End, setting
  <2>3. QED
    BY <2>1, <2>2
<1>5. ASSUME NEW h \in Handlers, Announce(h) PROVE TypeOK'
  BY <1>5 DEF Announce, End, setting
<1>6. ASSUME NEW i \in Chunks, Acknowledge(i) PROVE TypeOK'
  <2>1. upload' \in Uploads
    BY <1>6 DEF Acknowledge
  <2>2. stored' \in Records
    BY <1>6, <2>1, PersistTyped DEF Acknowledge
  <2>3. QED
    BY <1>6, <2>1, <2>2 DEF Acknowledge, setting, sender
<1>7. ASSUME AcknowledgeElsewhere PROVE TypeOK'
  BY <1>7 DEF AcknowledgeElsewhere, AfterForeignAck, setting, sender
<1>8. ASSUME ReceiverLeaves PROVE TypeOK'
  BY <1>8 DEF ReceiverLeaves, setting, sender
<1>9. ASSUME NEW due \in SUBSET upload.pending, CheckMemory(due)
       PROVE  TypeOK'
  <2> DEFINE late == {i \in due : ~Exhausted(upload.retries[i])}
             retries == [i \in Chunks |-> IF i \in late
                                          THEN Retried(upload.retries[i])
                                          ELSE upload.retries[i]]
  <2>1. upload' \in Uploads
    <3>1. retries \in [Chunks -> 0 .. MAX_RETRIES]
      BY ConstantsAssumption DEF Exhausted, Retried
    <3>2. /\ upload'.retries = retries
          /\ upload'.chunks = upload.chunks
          /\ upload'.pending = upload.pending
          /\ upload'.status \in {upload.status, "failed"}
          /\ upload' = [upload EXCEPT !.retries = upload'.retries,
                                      !.status = upload'.status]
      BY <1>9 DEF CheckMemory, AfterFailed
    <3>3. QED
      BY <3>1, <3>2
  <2>2. retryTold' \in [Chunks -> Nat]
    BY <1>9 DEF CheckMemory, AfterFailed
  <2>3. QED
    BY <1>9, <2>1, <2>2 DEF CheckMemory, setting
<1>10. ASSUME CheckRedis PROVE TypeOK'
  BY <1>10 DEF CheckRedis, setting, sender
<1>11. CASE UNCHANGED vars
  BY <1>11 DEF vars, setting
<1>12. QED
  BY <1>1, <1>2, <1>3, <1>4, <1>5, <1>6, <1>7, <1>8, <1>9, <1>10,
     <1>11 DEF Next, Continue

-----------------------------------------------------------------------------
(* A step asks for a chunk again only together with counting the retry,    *)
(* and nothing lowers the count.                                           *)
LEMMA CountedStep == TypeOK /\ Counted /\ [Next]_vars => Counted'
<1> SUFFICES ASSUME TypeOK, Counted, [Next]_vars PROVE Counted'
  OBVIOUS
<1> USE DEF Counted
<1>0. upload \in Uploads /\ retryTold \in [Chunks -> Nat]
  BY DEF TypeOK
<1>1. ASSUME upload'.retries = upload.retries, UNCHANGED retryTold
      PROVE  Counted'
  BY <1>1
<1>2. ASSUME NEW h \in Handlers, NEW i \in Chunks, ReceiveChunk(h, i)
      PROVE  Counted'
  BY <1>0, <1>1, <1>2 DEF ReceiveChunk, Tracked, Uploads
<1>3. ASSUME NEW h \in Handlers,
             Forward(h) \/ Settle(h) \/ Finish(h) \/ Announce(h)
      PROVE  Counted'
  BY <1>0, <1>1, <1>3
     DEF Forward, Settle, Finish, Announce, Uploads, sender
<1>4. ASSUME NEW i \in Chunks, Acknowledge(i) PROVE Counted'
  BY <1>0, <1>1, <1>4 DEF Acknowledge, Uploads, sender
<1>5. ASSUME AcknowledgeElsewhere \/ ReceiverLeaves \/ CheckRedis
      PROVE  Counted'
  BY <1>1, <1>5 DEF AcknowledgeElsewhere, ReceiverLeaves, CheckRedis, sender
<1>6. ASSUME NEW due \in SUBSET upload.pending, CheckMemory(due)
      PROVE  Counted'
  <2>1. ASSUME NEW i \in Chunks
        PROVE  retryTold'[i] <= upload'.retries[i]
    <3>1. upload.retries[i] \in Nat /\ retryTold[i] \in Nat
      BY <1>0, ConstantsAssumption DEF Uploads
    <3>2. \/ /\ upload'.retries[i] = upload.retries[i] + 1
             /\ retryTold'[i] = retryTold[i] + 1
          \/ /\ upload'.retries[i] = upload.retries[i]
             /\ retryTold'[i] = retryTold[i]
      BY <1>0, <1>6 DEF CheckMemory, Retried, AfterFailed, Uploads
    <3>3. QED
      BY <3>1, <3>2
  <2>2. QED
    BY <2>1
<1>7. CASE UNCHANGED vars
  BY <1>1, <1>7 DEF vars
<1>8. QED
  BY <1>2, <1>3, <1>4, <1>5, <1>6, <1>7 DEF Next, Continue

(* Only a handler that finds the status not yet "completed" goes on to     *)
(* announce, and it sets the status in the same step.                      *)
LEMMA OnceStep == TypeOK /\ Once /\ [Next]_vars => Once'
<1> SUFFICES ASSUME TypeOK, Once, [Next]_vars PROVE Once'
  OBVIOUS
<1> USE DEF Once, Announcing
<1>0. upload \in Uploads /\ handler \in [Handlers -> Busy \cup {Idle}]
  BY DEF TypeOK
<1>1. ASSUME \A h \in Handlers : Announcing(h)' => Announcing(h),
             UNCHANGED completions,
             upload.status = "completed" => upload'.status = "completed"
      PROVE  Once'
  BY <1>1
<1>2. ASSUME NEW h \in Handlers, NEW i \in Chunks, ReceiveChunk(h, i)
      PROVE  Once'
  BY <1>0, <1>1, <1>2 DEF ReceiveChunk, Tracked, Uploads
<1>3. ASSUME NEW h \in Handlers, Forward(h) \/ Settle(h)
      PROVE  Once'
  <2>1. \A g \in Handlers : Announcing(g)' => Announcing(g)
    <3>1. \E step \in {"settle", "finish"} : Goto(h, step) \/ End(h)
      BY <1>3 DEF Forward, Settle
    <3>2. QED
      BY <1>0, <3>1 DEF Goto, End, Idle, Busy
  <2>2. UNCHANGED completions
    BY <1>3 DEF Forward, Settle, sender
  <2>3. upload'.status = upload.status
    BY <1>0, <1>3 DEF Forward, Settle, Uploads
  <2>4. QED
    BY <1>1, <2>1, <2>2, <2>3
<1>4. ASSUME NEW h \in Handlers, Finish(h) PROVE Once'
  <2>1. CASE Completes(upload)
    <3>1. completions = 0 /\ \A g \in Handlers : ~Announcing(g)
      BY <2>1 DEF Completes
    <3>2. /\ upload'.status = "completed" /\ UNCHANGED completions
          /\ \A g \in Handlers : Announcing(g)' => g = h
      BY <1>0, <1>4, <2>1, <3>1 DEF Finish, Goto, Uploads
    <3>3. QED
      BY <3>1, <3>2
  <2>2. CASE ~Completes(upload)
    BY <1>0, <1>1, <1>4, <2>2 DEF Finish, End, Idle
  <2>3. QED
    BY <2>1, <2>2
<1>5. ASSUME NEW h \in Handlers, Announce(h) PROVE Once'
  <2>1. completions = 0 /\ upload.status = "completed"
    BY <1>5 DEF Announce
  <2>2. completions' = 1 /\ upload' = upload
    BY <1>5, <2>1 DEF Announce
  <2>3. \A g \in Handlers : ~Announcing(g)'
    BY <1>0, <1>5 DEF Announce, End, Idle
  <2>4. QED
    BY <2>1, <2>2, <2>3
<1>6. ASSUME NEW i \in Chunks, Acknowledge(i) PROVE Once'
  BY <1>0, <1>1, <1>6 DEF Acknowledge, Uploads, sender
<1>7. ASSUME AcknowledgeElsewhere \/ ReceiverLeaves \/ CheckRedis PROVE Once'
  BY <1>1, <1>7 DEF AcknowledgeElsewhere, ReceiverLeaves, CheckRedis, sender
<1>8. ASSUME NEW due \in SUBSET upload.pending, CheckMemory(due) PROVE Once'
  BY <1>1, <1>8 DEF CheckMemory, AfterFailed
<1>9. CASE UNCHANGED vars
  BY <1>1, <1>9 DEF vars
<1>10. QED
  BY <1>2, <1>3, <1>4, <1>5, <1>6, <1>7, <1>8, <1>9 DEF Next, Continue

(* Redis gets the status from the object, whose "completed" is final.      *)
LEMMA BehindStep == TypeOK /\ Behind /\ [Next]_vars => Behind'
<1> SUFFICES ASSUME TypeOK, Behind, [Next]_vars PROVE Behind'
  OBVIOUS
<1> USE DEF Behind
<1>0. upload \in Uploads /\ stored \in Records
  BY DEF TypeOK
<1>1. ASSUME UNCHANGED stored,
             upload.status = "completed" => upload'.status = "completed"
      PROVE  Behind'
  BY <1>1
<1>2. ASSUME NEW h \in Handlers, NEW i \in Chunks, ReceiveChunk(h, i)
      PROVE  Behind'
  BY <1>0, <1>1, <1>2 DEF ReceiveChunk, Tracked, Uploads
<1>3. ASSUME NEW h \in Handlers,
             Forward(h) \/ Settle(h) \/ Announce(h)
      PROVE  Behind'
  BY <1>0, <1>1, <1>3 DEF Forward, Settle, Announce, Uploads
<1>4. ASSUME NEW h \in Handlers, Finish(h) PROVE Behind'
  <2>1. CASE Completes(upload)
    BY <1>0, <1>4, <2>1 DEF Finish, Uploads
  <2>2. CASE ~Completes(upload)
    BY <1>1, <1>4, <2>2 DEF Finish
  <2>3. QED
    BY <2>1, <2>2
<1>5. ASSUME NEW i \in Chunks, Acknowledge(i) PROVE Behind'
  <2>1. upload'.status = upload.status
    BY <1>0, <1>5 DEF Acknowledge, Uploads
  <2>2. stored'.status \in {stored.status, upload'.status}
    BY <1>5 DEF Acknowledge, Persist
  <2>3. QED
    BY <2>1, <2>2
<1>6. ASSUME AcknowledgeElsewhere \/ ReceiverLeaves \/ CheckRedis
      PROVE  Behind'
  BY <1>1, <1>6
     DEF AcknowledgeElsewhere, AfterForeignAck, ReceiverLeaves, CheckRedis
<1>7. ASSUME NEW due \in SUBSET upload.pending, CheckMemory(due)
      PROVE  Behind'
  BY <1>1, <1>7 DEF CheckMemory, AfterFailed
<1>8. CASE UNCHANGED vars
  BY <1>1, <1>8 DEF vars
<1>9. QED
  BY <1>2, <1>3, <1>4, <1>5, <1>6, <1>7, <1>8 DEF Next, Continue

(* The invariant is inductive.                                             *)
LEMMA InvStep == Inv /\ [Next]_vars => Inv'
BY TypeStep, CountedStep, OnceStep, BehindStep DEF Inv

(* The invariant holds in every reachable state.                           *)
LEMMA InvAlways == Spec => []Inv
BY InvInit, InvStep, PTL DEF Spec

-----------------------------------------------------------------------------
(* Type correctness.                                                       *)
THEOREM TypeCorrect == Spec => []TypeOK
<1>1. Inv => TypeOK
  BY DEF Inv
<1>2. QED
  BY InvAlways, <1>1, PTL

(* However many handlers find all chunks there, the sender gets one        *)
(* "upload-complete" (socket.handler.ts:514-538).                          *)
THEOREM CompletedOnce == Spec => []CompletesOnce
<1>1. Inv => CompletesOnce
  BY DEF Inv, Once, CompletesOnce, TypeOK
<1>2. QED
  BY InvAlways, <1>1, PTL

(* The checker asks for no chunk more than MAX_RETRIES times.              *)
THEOREM RetriesStayBounded == Spec => []RetriesBounded
<1>1. ASSUME TypeOK, Counted, NEW i \in Chunks
      PROVE  retryTold[i] <= MAX_RETRIES
  <2>1. upload.retries[i] \in 0 .. MAX_RETRIES /\ retryTold[i] \in Nat
    BY <1>1 DEF TypeOK, Uploads
  <2>2. retryTold[i] <= upload.retries[i]
    BY <1>1 DEF Counted
  <2>3. QED
    BY <2>1, <2>2, ConstantsAssumption
<1>2. Inv => RetriesBounded
  BY <1>1 DEF Inv, RetriesBounded
<1>3. QED
  BY InvAlways, <1>2, PTL

(* A settled chunk is never pending again, however it is sent.             *)
THEOREM SettledForGood == Spec => SettledStaysSettled
<1>1. Inv /\ [Next]_vars =>
        upload.chunks \ upload.pending \subseteq
          upload'.chunks \ upload'.pending
  <2> SUFFICES ASSUME TypeOK, [Next]_vars
               PROVE  /\ upload.chunks \subseteq upload'.chunks
                      /\ upload'.pending \cap upload.chunks
                           \subseteq upload.pending
    BY DEF Inv
  <2>0. upload \in Uploads
    BY DEF TypeOK
  <2>1. ASSUME NEW h \in Handlers, NEW i \in Chunks, ReceiveChunk(h, i)
        PROVE  /\ upload.chunks \subseteq upload'.chunks
               /\ upload'.pending \cap upload.chunks \subseteq upload.pending
    BY <2>0, <2>1 DEF ReceiveChunk, Tracked, Uploads
  <2>2. ASSUME NEW h \in Handlers, Settle(h) \/ Finish(h)
        PROVE  /\ upload'.chunks = upload.chunks
               /\ upload'.pending \subseteq upload.pending
    BY <2>0, <2>2 DEF Settle, Finish, Uploads
  <2>3. ASSUME NEW i \in Chunks, Acknowledge(i)
        PROVE  /\ upload'.chunks = upload.chunks
               /\ upload'.pending \subseteq upload.pending
    BY <2>0, <2>3 DEF Acknowledge, Uploads
  <2>4. ASSUME NEW due \in SUBSET upload.pending, CheckMemory(due)
        PROVE  /\ upload'.chunks = upload.chunks
               /\ upload'.pending = upload.pending
    BY <2>0, <2>4 DEF CheckMemory, AfterFailed, Uploads
  <2>5. ASSUME \/ \E h \in Handlers : Forward(h) \/ Announce(h)
               \/ AcknowledgeElsewhere \/ ReceiverLeaves \/ CheckRedis
               \/ UNCHANGED vars
        PROVE  upload' = upload
    BY <2>5 DEF Forward, Announce, AcknowledgeElsewhere, ReceiverLeaves,
                CheckRedis, vars
  <2>6. QED
    BY <2>1, <2>2, <2>3, <2>4, <2>5 DEF Next, Continue
<1>2. QED
  BY InvAlways, <1>1, PTL DEF Spec, SettledStaysSettled

(* What Redis holds never falls back from "completed".                     *)
THEOREM StoredCompletedForGood == Spec => StoredStaysCompleted
<1>1. Inv /\ [Next]_vars =>
        (stored.status = "completed" => stored'.status = "completed")
  <2> SUFFICES ASSUME Inv, [Next]_vars, stored.status = "completed"
               PROVE  stored'.status = "completed"
    OBVIOUS
  <2>0. upload \in Uploads /\ upload.status = "completed"
    BY DEF Inv, TypeOK, Behind
  <2>1. ASSUME NEW h \in Handlers, Finish(h) PROVE UNCHANGED stored
    BY <2>0, <2>1 DEF Finish, Completes
  <2>2. ASSUME NEW i \in Chunks, Acknowledge(i)
        PROVE  stored'.status = "completed"
    <3>1. upload'.status = "completed"
      BY <2>0, <2>2 DEF Acknowledge, Uploads
    <3>2. QED
      BY <2>2, <3>1 DEF Acknowledge, Persist
  <2>3. ASSUME \/ \E h \in Handlers : \/ Forward(h) \/ Settle(h)
                                     \/ Announce(h)
                                     \/ \E i \in Chunks : ReceiveChunk(h, i)
               \/ AcknowledgeElsewhere \/ ReceiverLeaves
               \/ \E due \in SUBSET upload.pending : CheckMemory(due)
               \/ CheckRedis
               \/ UNCHANGED vars
        PROVE  UNCHANGED stored
    BY <2>3 DEF Forward, Settle, Announce, ReceiveChunk, ReceiverLeaves,
                AcknowledgeElsewhere, AfterForeignAck, CheckMemory, AfterFailed, CheckRedis,
                vars
  <2>4. QED
    BY <2>1, <2>2, <2>3 DEF Next, Continue
<1>2. QED
  BY InvAlways, <1>1, PTL DEF Spec, StoredStaysCompleted
=============================================================================
