------------------------------ MODULE Transfer ------------------------------
(***************************************************************************)
(* The life of one upload after upload-init has accepted it: upload-chunk, *)
(* chunk-acknowledged and the periodic acknowledgement checker of          *)
(* socket.handler.ts, and the places its state lives in: the object in the *)
(* memory of the sender's node, its JSON in Redis, and the copy that the   *)
(* receiver's node loads from there (storage.repository.ts).               *)
(*                                                                         *)
(* An upload-chunk handler works on the object and gives the event loop    *)
(* away at its lookups and at each routed message, so handlers of several  *)
(* chunks, or of one chunk sent twice, interleave.  Nothing ever sets the  *)
(* status "paused" or "cancelled": the test for them is left out.          *)
(***************************************************************************)
EXTENDS Naturals

CONSTANTS
  Chunks,       \* totalChunks of them
  MAX_RETRIES,
  None,         \* a handler without a chunk, a copy that is not there
  Handlers,     \* bound: upload-chunk handlers under way at a time
  MaxSends      \* bound: how often one chunk is sent

ASSUME ConstantsAssumption ==
  /\ Chunks # {} /\ None \notin Chunks
  /\ MAX_RETRIES \in Nat /\ MaxSends \in Nat

VARIABLES
  useRedis,      \* config.useRedis; constant in a behaviour
  sameNode,      \* sender and receiver are on one node; constant too
  receiver,      \* what has become of the receiver
  upload,        \* the object in the memory of the sender's node
  stored,        \* Redis: what it holds of it
  copy,          \* what the receiver's node has loaded from Redis
  handler,       \* the upload-chunk handlers: their chunk and next step
  sends,         \* how often the sender has sent each chunk
  received,      \* chunks handed over to the receiver's socket
  acknowledged,  \* chunks the sender got a "chunk-acknowledged" for
  retryTold,     \* how many "chunk-retry" the sender got for each chunk
  completions,   \* how many "upload-complete" the sender got
  alive          \* the process of the sender's node

setting == <<useRedis, sameNode>>
sender == <<sends, acknowledged, retryTold, completions>>
vars == <<setting, receiver, upload, stored, copy, handler, sends,
          received, acknowledged, retryTold, completions, alive>>

Statuses == {"uploading", "completed", "failed"}

(* pendingAcks is a Map from a chunk to its retries.                       *)
Uploads == [chunks : SUBSET Chunks, pending : SUBSET Chunks,
            retries : [Chunks -> 0 .. MAX_RETRIES], status : Statuses]

(* JSON has no Map: pendingAcks is absent, or the plain object {}.         *)
Records == [acks : {"absent", "object"}, status : Statuses]

(* The receiver is connected and downloads the file; its socket is closed  *)
(* while its session and the share still list it; it is not listed.        *)
Receivers == {"online", "offline", "gone"}

Idle == [step |-> "none", chunk |-> None]

Busy == [step : {"forward", "settle", "finish", "announce"}, chunk : Chunks]

TypeOK ==
  /\ useRedis \in BOOLEAN /\ sameNode \in BOOLEAN /\ alive \in BOOLEAN
  /\ receiver \in Receivers
  /\ upload \in Uploads
  /\ stored \in Records
  /\ copy \in Records \cup {None}
  /\ handler \in [Handlers -> Busy \cup {Idle}]
  /\ sends \in [Chunks -> 0 .. MaxSends]
  /\ received \subseteq Chunks /\ acknowledged \subseteq Chunks
  /\ retryTold \in [Chunks -> Nat]
  /\ completions \in Nat

(* upload-init has stored the upload; a receiver has accepted it, or the   *)
(* sender is alone.  Without Redis there is one node.                      *)
Init ==
  /\ useRedis \in BOOLEAN
  /\ sameNode \in BOOLEAN /\ (~useRedis => sameNode)
  /\ receiver \in {"online", "gone"}
  /\ upload = [chunks |-> {}, pending |-> {},
               retries |-> [i \in Chunks |-> 0], status |-> "uploading"]
  /\ stored = [acks |-> "absent", status |-> "uploading"]
  /\ copy = None
  /\ handler = [h \in Handlers |-> Idle]
  /\ sends = [i \in Chunks |-> 0]
  /\ received = {} /\ acknowledged = {}
  /\ retryTold = [i \in Chunks |-> 0]
  /\ completions = 0
  /\ alive = TRUE

Goto(h, step) == handler' = [handler EXCEPT ![h].step = step]

End(h) == handler' = [handler EXCEPT ![h] = Idle]

(* setUploadState: Redis gets the object as JSON.  A Redis error is logged *)
(* and forgotten.  Once a chunk has come in, pendingAcks is a Map.         *)
Persist(u) ==
  \/ stored' = IF useRedis
               THEN [acks |-> IF u.chunks = {} THEN "absent" ELSE "object",
                     status |-> u.status]
               ELSE stored
  \/ useRedis /\ UNCHANGED stored

-----------------------------------------------------------------------------
(* upload-chunk.                                                           *)

(* A chunk is tracked when it comes in for the first time.                 *)
TrackedAlways(u, i) ==
  [u EXCEPT !.chunks = @ \cup {i}, !.pending = @ \cup {i}, !.retries[i] = 0]
Tracked(u, i) ==
  IF i \in u.chunks THEN u
  ELSE [u EXCEPT !.chunks = @ \cup {i}, !.pending = @ \cup {i}]

(* The sender sends a chunk, for the first time or again.  How far ahead   *)
(* of the callbacks it sends is up to the client: any distance is allowed. *)
ReceiveChunk(h, i) ==
  /\ handler[h] = Idle
  /\ sends[i] < MaxSends
  /\ sends' = [sends EXCEPT ![i] = @ + 1]
  /\ upload' = Tracked(upload, i)
  /\ handler' = [handler EXCEPT ![h] = [step |-> "forward", chunk |-> i]]
  /\ UNCHANGED <<setting, receiver, stored, copy, received,
                 acknowledged, retryTold, completions, alive>>

(* routeMessageToClient: it returns in the same way when the receiver has  *)
(* got the chunk, and when its socket is closed or pub/sub loses the       *)
(* message.                                                                *)
Routed(i) ==
  \/ receiver = "online" /\ received' = received \cup {i}
  \/ (receiver = "offline" \/ useRedis) /\ UNCHANGED received

(* The lookups of the sender's session, the share and the receiver's       *)
(* session, one of which finds nobody when it fails in Redis.              *)
Forward(h) ==
  /\ handler[h].step = "forward"
  /\ \/ /\ receiver = "gone" \/ useRedis
        /\ Goto(h, "finish")
        /\ UNCHANGED received
     \/ /\ receiver # "gone"
        /\ Goto(h, "settle")
        /\ Routed(handler[h].chunk)
  /\ UNCHANGED <<setting, receiver, upload, stored, copy, sender, alive>>

(* The chunk is not pending any more, and the sender is told.              *)
Settle(h) ==
  /\ handler[h].step = "settle"
  /\ upload' = [upload EXCEPT !.pending = @ \ {handler[h].chunk}]
  /\ acknowledged' = acknowledged \cup {handler[h].chunk}
  /\ Goto(h, "finish")
  /\ UNCHANGED <<setting, receiver, stored, copy, sends, received,
                 retryTold, completions, alive>>

(* "Check if upload is complete (only check once)".                        *)
CompletesAgain(u) == u.chunks = Chunks
CompletesUnfailed(u) == u.chunks = Chunks /\ u.status = "uploading"
Completes(u) == u.chunks = Chunks /\ u.status # "completed"

(* The callback says "success", then the check is made.                    *)
Finish(h) ==
  /\ handler[h].step = "finish"
  /\ IF Completes(upload)
     THEN /\ upload' = [upload EXCEPT !.status = "completed"]
          /\ Persist(upload')
          /\ Goto(h, "announce")
     ELSE /\ End(h)
          /\ UNCHANGED <<upload, stored>>
  /\ UNCHANGED <<setting, receiver, copy, sends, received, acknowledged,
                 retryTold, completions, alive>>

(* "upload-complete", with the webhook and the statistics.                 *)
Announce(h) ==
  /\ handler[h].step = "announce"
  /\ completions' = completions + 1
  /\ End(h)
  /\ UNCHANGED <<setting, receiver, upload, stored, copy, sends,
                 received, acknowledged, retryTold, alive>>

-----------------------------------------------------------------------------
(* The receiver.                                                           *)

(* chunk-acknowledged, from a receiver on the sender's node.               *)
Acknowledge(i) ==
  /\ sameNode
  /\ receiver = "online" /\ i \in received
  /\ upload' = [upload EXCEPT !.pending = @ \ {i}]
  /\ Persist(upload')
  /\ UNCHANGED <<setting, receiver, copy, handler, sender, received, alive>>

(* From a receiver on another node, which works on a copy of its own.  In  *)
(* it pendingAcks is absent, and nothing is done, or it is {}, whose       *)
(* missing delete throws into safeHandler.                                 *)
AfterForeignAckSaves(record) == record
AfterForeignAck(record) == stored

AcknowledgeElsewhere ==
  /\ ~sameNode
  /\ receiver = "online" /\ received # {}
  /\ copy' = IF copy = None THEN stored ELSE copy
  /\ stored' = AfterForeignAck(copy')
  /\ UNCHANGED <<setting, receiver, upload, handler, sender, received, alive>>

(* cancel-download takes the file off the session's downloads; a closed    *)
(* socket is taken off the share, some calls later, by "disconnect".       *)
ReceiverLeaves ==
  /\ \/ receiver = "online" /\ receiver' \in {"offline", "gone"}
     \/ receiver = "offline" /\ receiver' = "gone"
  /\ UNCHANGED <<setting, upload, stored, copy, handler, sender, received,
                 alive>>

-----------------------------------------------------------------------------
(* startAckTimeoutChecker.                                                 *)

ExhaustedAbove(retries) == retries > MAX_RETRIES
Exhausted(retries) == retries >= MAX_RETRIES

Retried(retries) == retries + 1

(* A chunk that has failed fails its upload.                               *)
AfterFailedForgotten(status, failed) == status
AfterFailed(status, failed) == IF failed = {} THEN status ELSE "failed"

(* Without Redis it goes through the objects themselves, and nothing but   *)
(* the webhook at its end makes it wait.  A chunk is due when its last     *)
(* attempt is ACK_TIMEOUT_MS old.                                          *)
CheckMemory(due) ==
  LET failed == {i \in due : Exhausted(upload.retries[i])}
      late == due \ failed
  IN  /\ ~useRedis
      /\ upload.status = "uploading"
      /\ due # {}
      /\ upload' = [upload EXCEPT
           !.retries = [i \in Chunks |->
                          IF i \in late THEN Retried(@[i]) ELSE @[i]],
           !.status = AfterFailed(@, failed)]
      /\ retryTold' = [i \in Chunks |->
           IF i \in late THEN retryTold[i] + 1 ELSE retryTold[i]]
      /\ UNCHANGED <<setting, receiver, stored, copy, handler, sends,
                     received, acknowledged, completions, alive>>

(* With Redis it goes through what Redis holds: an upload without          *)
(* pendingAcks is skipped, and iterating over {} throws.  Nothing catches  *)
(* that rejection, which ends the process.                                 *)
CheckRedis ==
  /\ useRedis
  /\ stored = [acks |-> "object", status |-> "uploading"]
  /\ alive' = FALSE
  /\ UNCHANGED <<setting, receiver, upload, stored, copy, handler, sender,
                 received>>

-----------------------------------------------------------------------------
Continue(h) ==
  alive /\ (Forward(h) \/ Settle(h) \/ Finish(h) \/ Announce(h))

Next ==
  \/ \E h \in Handlers :
       \/ Continue(h)
       \/ \E i \in Chunks : alive /\ ReceiveChunk(h, i)
  \/ \E i \in Chunks : alive /\ Acknowledge(i)
  \/ alive /\ AcknowledgeElsewhere
  \/ alive /\ ReceiverLeaves
  \/ \E due \in SUBSET upload.pending : alive /\ CheckMemory(due)
  \/ alive /\ CheckRedis

Spec == Init /\ [][Next]_vars

(* Calls return, and the checker's interval keeps firing: a chunk that     *)
(* stays pending becomes due.                                              *)
Fairness ==
  /\ \A h \in Handlers : WF_vars(Continue(h))
  /\ \A i \in Chunks :
       WF_vars(\E due \in SUBSET upload.pending :
                 i \in due /\ alive /\ CheckMemory(due))
  /\ WF_vars(alive /\ CheckRedis)

FairSpec == Spec /\ Fairness

-----------------------------------------------------------------------------
(* Properties.                                                             *)

(* The sender gets one "upload-complete", and one upload is counted,       *)
(* although handlers of several chunks find all chunks there.              *)
CompletesOnce == completions <= 1

(* "Maximum retries for failed chunks": no chunk is asked for again more   *)
(* than MAX_RETRIES times, however often it is sent.                       *)
RetriesBounded == \A i \in Chunks : retryTold[i] <= MAX_RETRIES

(* A chunk that has been settled stays so: one sent again does not become  *)
(* pending a second time, which nothing might then settle.                 *)
SettledStaysSettled ==
  [][upload.chunks \ upload.pending \subseteq
       upload'.chunks \ upload'.pending]_vars

(* What Redis holds never falls back to before the upload was completed,   *)
(* although the receiver's node keeps an older copy of it.                 *)
StoredStaysCompleted ==
  [][stored.status = "completed" => stored'.status = "completed"]_vars

(* "Start periodic checker for unacknowledged chunks": without Redis, a    *)
(* chunk nobody acknowledges does not stay pending in a running upload.    *)
Settled(i) == i \notin upload.pending \/ upload.status # "uploading"
PendingSettles ==
  \A i \in Chunks : ~useRedis /\ i \in upload.pending ~> Settled(i)

(* The same whatever the configuration.                                    *)
NoChunkForgotten == \A i \in Chunks : i \in upload.pending ~> Settled(i)

(* Once all chunks have come in, the sender hears that the upload is       *)
(* complete, unless the process ends.                                      *)
AllInCompletes == upload.chunks = Chunks ~> completions > 0 \/ ~alive

(* "Notify uploader's UI that chunk was delivered": a chunk the sender     *)
(* got a "chunk-acknowledged" for was handed over to the receiver.         *)
AcknowledgedIsReceived == acknowledged \subseteq received
=============================================================================
