# MeshDrop backend: TLA+ specification, model checking and proofs

This directory specifies the parts of the MeshDrop backend where several
processes, sockets and asynchronous handlers meet. The code is TypeScript under
`src/src`; all paths below are relative to it. Every definition that models code
is listed with its lines in `PROJECT.json` under `map`.

## 1. The system

Several backend nodes serve Socket.IO clients. Two clients join a *share*; one
uploads a file in chunks, the node it is connected to forwards each chunk to the
other. Nodes share Redis (sessions, shares, uploads, the master key, pub/sub) and
PostgreSQL (nodes, database sessions). With `USE_REDIS=false` there is one node
and its memory.

Node.js runs one callback at a time, so the atomic step everywhere is *the code
between two awaits, with the remote command it issues*. What makes the system
hard is what happens during the awaits.

| Component (code) | State | Operations | What is hard |
|---|---|---|---|
| Leader election (`services/cluster.service.ts:94-148`) | Redis key `cluster:master` and TTL; `isMaster`; `Node.role` | `tryBecomeMaster` every 5 s, `initialize`, `shutdown` | a lease that is remembered and not looked at; late timers; GET and EXPIRE are two calls; restarts under the same id |
| Sessions and shares (`socket/socket.handler.ts`, `controllers/share.controller.ts`, `server.ts:51-64`) | Redis `session:client:*`, `session:share:*` | register, heartbeat, disconnect, createShare, joinShare, cleanup | read, change a copy, write the whole value back, while others do the same |
| Transfer (`socket.handler.ts:25-126, 395-690`) | upload object in memory, its JSON in Redis, the receiver's copy | upload-chunk, chunk-acknowledged, acknowledgement checker, cancel-download | overlapping chunk handlers; retries; a `Map` that JSON loses; routing that hides failures |
| Upload admission and rate limiter (`socket.handler.ts:218-395`, `services/redis.service.ts:173-207`) | `upload:*`, `downloads` of the sessions, `ratelimit:*` | upload-init | limits checked some awaits before the write; the receiver's session written back as a whole; a counter whose key expires between GET and INCR |
| Message routing (`cluster.service.ts:184-335, 374-488`, `services/pubsub.service.ts`) | `localClients`, Redis sessions, `Session` rows, channels | routeMessageToClient, MESSAGE_ROUTE, ROUTING_REQUEST, handleClientConnect, handleClientDisconnect | three records of where a client is, written one after the other; at-most-once delivery; zero or two masters |
| Node registry (`services/node.service.ts`, `services/prisma.service.ts`) | `Node.status`, `lastHeartbeat` | register, heartbeat, cleanup by every node, deregister | every node cleans up for all; statements of two cleanups interleave |
| Database sessions (`services/session.service.ts`) | `Session` rows | create, remove by socket, deactivate with the node | rows of nodes that crashed or restarted |
| Statistics (`services/stats.service.ts`) | counters, a file | increment, load, save | lazy load and writes interleave |
| Webhooks, health and cluster endpoints, validation, logging, native add-on | none a handler reads | | pure I/O or pure functions |

How they interact: the election, the registry and routing use the node id that
`NodeService.register` returns (the same after a restart, `node.service.ts:23`).
`register` on a socket writes the Redis session and then the database session.
The transfer looks the receiver up through sender session, share and receiver
session and hands chunks to routing, whose result it does not learn; upload-init
and download-confirmed write to sessions too.

The properties that make each component correct:

- election: a node that answers routing requests is the one the key names; at
  most one does; somebody does in the end; a master that lost its key notices;
  clients and database learn of a change.
- sessions and shares: at most two entries; who was told "success" is in the
  share; a session names the latest socket; a client that is gone is forgotten.
- transfer: one completion; bounded retries; nothing settled becomes pending, and
  nothing pending stays so; what Redis holds does not go backwards; an
  acknowledgement means delivery.
- registry: running nodes are active, crashed nodes are not; sessions of open
  sockets are active, whenever nodes restart.
- admission: overlapping requests exceed a limit by no more than their number; a
  receiver that was accepted is sent the chunks; a rate limit lets a client in again.
- routing: a message to a client that is connected and settled reaches its socket,
  whatever former sockets have left behind; no address is used twice; the rows follow
  the sockets.

`PROJECT.json` lists under `hazards` what can go wrong, at its line, with the
property that would notice.

## 2. The modules

| Module | Models | Abstract specification, proofs |
|---|---|---|
| `MasterElection` | `tryBecomeMaster` call by call, process life, time | refines `Mastership`; `MasterElectionProofs` |
| `Mastership` | what an election promises: take over from nobody, give up | |
| `ShareSession` | the read-change-write handlers on client and share sessions (Redis mode) | `ShareSessionProofs` |
| `Transfer` | one upload, from its acceptance by upload-init to "upload-complete" or "failed" | `TransferProofs` |
| `NodeRegistry` | the two database tables and those who keep them | `NodeRegistryProofs` |
| `Routing` | register and disconnect as far as routing depends on them, and every path of a message | `RoutingProofs` |
| `RateLimiter` | `checkRateLimit` call by call | `RateLimiterProofs` |
| `UploadAdmission` | upload-init call by call, and whatever else writes uploads and downloads | `UploadAdmissionProofs` |
| `MCMasterElection`, `MCShareSession`, `MCTransfer`, `MCRouting`, `MCUploadAdmission` | symmetry sets and further definitions for TLC | |

### MasterElection

`pc[n]` says where the round of node `n` is: before SET NX (`"set"`), GET
(`"refused"`) or EXPIRE (`"mine"`), after a reply (`"acquired"`, `"renewed"`,
`"theirs"`), and before `updateRole` and the notice to the clients. `masterKey`
and `ttl` are the Redis key, `isMaster`, `role` and `told` what the node
remembers, has written to the database and has told its clients. `Shutdown`,
`RejectedByQuit`, `Drain` and `Exit` are the steps of a SIGTERM: `quit` waits for
the replies to commands already sent and rejects later ones, the key is not deleted, and
`isMaster` is not reset, so the node routes until pub/sub is disconnected.
Time is discrete; `CanWait` bounds how late a timer and how long a round and a
shutdown may be (`MaxLate`, `RoundTime`, `StopTime`), and the assumption
`RoundTime < ELECTION_INTERVAL` excludes overlapping rounds of one node.
`Faults` names the kinds of fault a run allows: failing Redis calls, failing database calls, and a
process that is back before the key of its former life has expired.

### ShareSession

`handler[h]` is a handler under way: what it has read and its next call. What it
changes in its copy is computed where it writes. Of a session the model keeps the
socket, `connected` and the share; of a share its list of clients. A client with
several sockets is the reconnect: sockets are numbered, `lastSocket` is the latest.
`ReadsNull` is a GET that finds nothing *or fails*, which `RedisService` does not tell
apart; `Abort` is a failing write or a crash of the process in the middle of a handler.
The cleanup interval and the TTLs are actions of their own.

Both TTLs run whatever the sockets do. An open socket does not renew a session: the client
must send heartbeats, and a heartbeat that the rate limiter refuses writes nothing
(`socket.handler.ts:204`). So `ExpireSession` has no condition but that the key exists.

Three variables are history. `joined` holds who was entered into which share, until the
latest socket of the client closes or the share expires; a client whose disconnect
handler is still under way does not count. `lapsed` holds the clients whose session
expired although their latest socket was open: routing does not find them, and their
disconnect finds no session to mark and no share to leave, until they register again.
`spoiled` holds the clients and shares of
which an update was lost: a handler wrote the key although the value it had read was no
longer the one stored (`Spoil`), or a disconnect handler was cut short (`Abort`). The code
does lose updates: of two overlapping creations of one id the second write drops the
first client; a heartbeat that overlaps a registration writes the old socket back, and
no later heartbeat corrects it. So `JoinedIsMember`, `ClientLocated` and `GoneIsMarked` are stated
for the keys that are not spoiled, with any overlap and failure elsewhere: a lost update
harms the client or share it happens to, and nobody else, and a client only until its
next registration replaces the session (a share does not recover). Without `spoiled` TLC
refutes each of them within a few steps. Whether an update is lost at all is not a property.

### Transfer

`upload` is the object in the sender's node, `stored` what Redis has of it and
`copy` what the receiver's node has loaded. `handler[h]` is an upload-chunk
handler between its awaits (`forward`, `settle`, `finish`, `announce`). `stored`
keeps of `pendingAcks` whether it is absent or `{}`, because a JavaScript `Map`
has no other JSON form. `CheckMemory` and `CheckRedis` are the acknowledgement
checker in the two configurations; the second one throws on iterating `{}`, in a
rejection that nothing handles, which ends the process (`alive`).

### NodeRegistry

An action is one statement, or a read and a write of one row by its key. The cleanup of
a node is the sequence `MarkDead`, `FindDead`, `DeactivateSessions`
(`cleanupDeadNodes`), `DeleteSessions`, `MarkDeadAgain`
(`PrismaService.cleanup`). `Connect` and `CreateSession` are two steps, so that a
socket may close before its row exists. A node may crash and register again at any
point of another's cleanup. `exposed` is history: the sockets whose row was created while
some cleanup had read their node among the dead and had not updated the sessions yet.
Such a session the cleanup ends, although node and socket are alive, and `OpenIsActive` leaves
it out. The sessions of a node that only `MarkDeadAgain` marks stay active until another
node dies, because `cleanupDeadNodes` skips them when it has marked none itself; no property
promises more. Ages stop counting at the first that is
too old. `PrismaService.cleanup` deletes rows inactive for a day: the model lets
it delete any set of inactive rows. The role column belongs to `MasterElection`.
A shutdown that stops before `deregister`, because closing the Redis client
failed, is not part of the model.

### Routing

Where a client is, is written in three places: the Redis session (by `Register`, with the
socket), the row in the database (`CreateRow`) and the cache of the node
(`CacheLocally`). A disconnect takes row, cache and session back in that order
(`RemoveRow`, `Forget`, `ScanSessions`, `MarkGone`). `registering` and `leaving` name
the next call of the two handlers of a socket. A socket is open or not; its number
says nothing about which is the latest.

`task[m][n]` is what node `n` does to route message `m`: it waits for the session
(`"resolve"`), or goes through the rows it has read (`"dispatch"`), on its own behalf
or, as the master, on request. `wire` is what pub/sub has yet to hand to a node: `Publish` reaches
those connected at that moment, `ReceiveRoute` and `ReceiveRequest` are the two
handlers, in any order, and `Lose` a broken connection or a message that comes
before a restarted node has added its handler (`"joining"`). `delivered` records which socket
got a message, the address it was sent to and by which path.
`PublishRejected` is the rejection that `routeMessageToClient` catches and the handler of a
routing request does not, which ends the process.

`sure` and `excused` are history. A message is in `sure` if its client was settled when it
was sent (one open socket, no handler under way, found in the session or
with a row and a master to look it up) and nothing but routing has happened to the
client since. A socket is in `excused` if it closed before its row existed, or its node or
the database failed. `MasterElection` decides who is master; here the role is taken
when nobody has it and given up, as in `Mastership`.

### RateLimiter

`count` is the key, `expiring` says whether it has a TTL; a request has read the count
and will increment it. Only one that has read 0 calls EXPIRE, so a request that has read
more before the window ended leaves a key without a TTL: `BlockedIsLetIn` is about that.

### UploadAdmission

`handler[h]` is a handler under way: what upload-init has seen of the uploads, and
its next call (`sender`, `store`, `offer`, `accept`, `respond`), or the list of downloads
that another handler is about to write back (`save`). `uploading` and `downloads` are
what Redis holds. A read that fails returns nothing, as `RedisService` reports it; a failing
write of the upload is logged and upload-init goes on. `accepted` are the uploads a receiver was entered
for, `through` those it is through with. `spoiled` are the clients whose session has
lost an update of its downloads since they registered, in the sense of `ShareSession`. With `serial` handlers do not overlap.
KEYS and MGET of one reading count as one call. Who shares with whom is fixed (`Partner`).

### What composes what

`MasterElection` refines `Mastership` (`KeepsPromise`); `Routing` takes its master from
there. `RateLimiter` stands in front of heartbeat and upload-init and shares
no state with them. `UploadAdmission` ends where `Transfer` begins, with an upload
that is announced. `Transfer` contains the
outcomes of routing as `Routed`, and of the lookups of sessions and share as the
alternatives of `Forward`, instead of composing the modules: `ShareSession`
and `Transfer` share no variable but through these.

## 3. The runs

"Violation" runs check a promise the documentation, a comment or a message of the
code makes and the code does not keep; see `findings` in `PROJECT.json`.

| Run | Instance | Shows |
|---|---|---|
| `ElectionTimely` | 3 nodes, interval 2, TTL 6, lateness 1, two crashes, shutdowns or database errors | `TypeOK`, `MasterHoldsKey`, `OneRouter`, `RenewsOwnKey`, and that the election implements `Mastership` |
| `ElectionFaulty` | 2 nodes, TTL 4, lateness 3, failing Redis calls, quick restarts | `RoleSettles`, `Failover`, `StaleMasterYields`, although the master may lose its key unnoticed |
| `ShareSessions` | 2 clients, 2 sockets, 2 handlers that may overlap, one failure, TTLs that end at any time | `TypeOK`, `ShareHoldsTwo`; `JoinedIsMember`, `ClientLocated`, `GoneIsMarked` for every client and share of which no update was lost |
| `TransferFlow` | 2 chunks sent up to twice, 2 handlers, both configurations | `TypeOK`, `CompletesOnce`, `RetriesBounded`, `SettledStaysSettled`, `StoredStaysCompleted`, `PendingSettles`, `AllInCompletes` |
| `TransferSilentLoss` | a receiver whose socket closes | violates `AcknowledgedIsReceived` |
| `TransferForgotten` | Redis mode | violates `NoChunkForgotten` |
| `RegistryTimely` | 2 nodes, heartbeats that may be late by a whole interval, three such periods per limit, two crashes, shutdowns or failing statements, restarts at any time | `TypeOK`, `RunningIsActive`, `OpenIsActive`, `CrashIsNoticed` |
| `Routing` | 2 nodes, 1 client, 2 sockets, 1 message, one disruption of any of seven kinds | `TypeOK`, `AtMostOnce`, `SettledIsReached`, `RowsMatchSockets` |
| `RateLimiter` | 3 requests at a time, limit 3 | `TypeOK`, `RateBounded` |
| `RateBlocked` | 2 requests at a time, limit 2, calls return and TTLs end | violates `BlockedIsLetIn`: a request increments the count after the window in which it has read it, the key gets no TTL, and the limit holds for good |
| `UploadAdmission` | 2 clients, 3 uploads, 2 handlers, limits 1, 2 and 2, one failure | `TypeOK`, `UploadsBounded`, `DownloadsBounded`, `TransfersBounded`, `AcceptedStaysListed` |
| `LostDownload` | 2 uploads of one client that start together | violates `AcceptedIsDownloading`: the second handler writes the receiver's session back without the first download |

`UploadAdmission` and `LostDownload` belong together: an accepted receiver stays
entered unless an update of its session is lost (`AcceptedStaysListed`), and two
uploads that start together lose one. So do `TransferFlow` and `TransferForgotten`: `PendingSettles`
is `NoChunkForgotten` for the memory mode, the only one where it holds.

`OneRouter` needs the assumption that no process restarts within the TTL of its
former life's key (`Faults` without `"quickRestart"`): such a process has its old id, reads it from
the key, and sets `isMaster` even if the key expires before its EXPIRE, whose reply is
ignored. `ElectionFaulty` allows that and shows that the cluster recovers.

### Bounds

- Nodes: two take part in every hand-over of mastership, a third can take the key in between.
  The proofs have no such bound.
- `MaxDisruptions`, `MaxFailures`: crashes, shutdowns and failures of one
  behaviour. Two allow one that causes a problem and one in the
  recovery from it; one suffices where the property concerns a single failure.
- Times are ratios. `ElectionTimely` satisfies
  `Timely`: interval + lateness + round + stop < TTL, with little to spare, as 5 s and 15 s do
  with much. `ElectionFaulty` breaks it. In `RegistryTimely`
  three heartbeat periods, lateness included, make the limit exactly: one disruption more, or
  one tick less, and `RunningIsActive` fails. By default (10 s and 30 s) the same condition
  (`Frequent`) allows for two disruptions if no heartbeat is late, and for one if they
  are up to 5 s late.
- Handlers: every lost update needs two, the second one's read and write around the first one's write. Shares: they
  are independent of each other. Clients of `ShareSessions`: two suffice to overfill a share, because
  a client that joins once more is entered once more; three need minutes even without
  failures and show nothing else. The proof of `ShareHoldsTwo` has no such bound.
- `Sockets`, `MaxSockets`: one reconnect, in `Routing` and in `ShareSessions`, where
  `MaxSockets` bounds the sockets of both clients together; a client needs no socket to
  create or join a share, so the partner of one that reconnects is there. With three
  sockets TLC finds nothing in ten times the states, and the proofs have no bound. Rows of different sockets in `NodeRegistry` do not
  influence each other, so one socket stands for each.
- `Messages`: messages do not influence each other except through stale cache entries,
  which `Send` removes, so one is followed through everything that happens to the client. The
  proof of `AtMostOnce` has no such bound.
- `Files`: one more than an overlap of two handlers gets past `MaxUploads` 1. With three
  handlers the run takes minutes and shows nothing else.
- `Partner`: both clients are in one share, but the session of one names none, as after a
  second registration. So one is a receiver, and both are senders.
- Chunks: two, so that there is a last one and one that overtakes it. A chunk is sent once
  and again once; `MAX_RETRIES` 1 separates "retried" from "exhausted".

### Fairness

- Election: time passes, a running process's timer fires and its calls return
  (they may return an error), and a shutdown that has begun goes on to the pub/sub
  disconnect. No fairness for starting, for crashing, or for the last connection to close.
- Transfer: handlers go on; the checker's interval keeps firing, so a chunk that
  stays pending becomes due. None for the sender, the receiver or its acknowledgements.
- Registry: time, heartbeat timers and the interval of the cleanup, with the
  statements of one that has begun. None for clients, restarts and shutdowns.
- Rate limiter, in `RateBlocked` only: a request under way goes on or is aborted, and a key
  that has a TTL expires. None for new requests.
- Shares, routing and admission: none. Their properties are safety; that
  something has come to its end is part of the property (`Through`, `Over`).

The runs of `Transfer`, `Routing`, `RateLimiter` and `UploadAdmission` switch the deadlock
check off: a transfer ends, and its process may; sockets, messages and uploads
are used up; a counter without a TTL stays at its limit. In the other runs a deadlock is an error.

## 4. What is proved

All proofs are checked by TLAPS without unproved steps, for every value of the
constants that satisfies `ConstantsAssumption` of the module.

**MasterElectionProofs.** `TypeCorrect`; `RolesSettle` (if the database answers);
and under `Timely` and without Redis faults and quick restarts
`MasterNamedByKey`, `RouterUnique`, `RefreshSafe` and the refinement
`ElectionKeepsPromise`. `MasterHoldsKey` alone is not inductive: a master keeps
its key only because the rest of its TTL covers the time to its next refresh. The
invariant (`HoldInv`) therefore bounds `ttl` from below by what is left of
interval, lateness, round and shutdown, separately for each place of `pc`. With
it the EXPIRE always meets the node's own key, at most one node routes, and each
step is one of `Mastership` or a stutter. `RoleInv` ties `told` and `role` to
`isMaster` for each place of `pc`.

**ShareSessionProofs.** `TypeCorrect` and `ShareNeverOverfull`, for any number of handlers and
failures. Why does the limit hold although the check is stale when the share is
written? Because a handler writes the list *it has checked*, with one entry more: the later
write loses entries and never adds them up. The invariant says so (`Sound`):
every list a handler is about to write has at most two entries, and one at
least if it comes from a join or a creation.
`JoinedStaysMember`, `LastSocketLocated` and `GoneAlwaysMarked` rest on a second
invariant (`Spared`), which holds while handlers overlap and fail. A write to a key that
is not spoiled replaces the very value its handler has read, so it is enough to know
what the stored value says: the session names the latest socket, is gone while that is open
only if it expired, and says connected
only while that is open or its disconnect handler is under way (`Located`). For the
latter a disconnect handler must be that of a closed socket and go on only for a session that names
it (`Departs`), and no socket may have a number above the latest (`Numbered`). A joined client keeps its
entry because no handler takes it out: the disconnect handler of a former socket is all
that can be under way, and it does not find its own socket in the session (`Stays`).
A registration ends what a lost update has done to the client's session: it needs no
hypothesis about the session before (`SpoiledHeals`, `JoinedUnspoiled`).

**TransferProofs.** `TypeCorrect`, `CompletedOnce`, `RetriesStayBounded`,
`SettledForGood`, `StoredCompletedForGood`. The invariant has three parts.
`Counted`: no chunk was asked for more often than its entry says. `Once`: at most
one handler is about to announce, none after the announcement, and the status is
"completed" in both cases. `Behind`: Redis says "completed" only if the object in
memory does.

**NodeRegistryProofs.** `TypeCorrect`; `RunningStaysActive` under `Frequent`,
(disruptions + 1) * heartbeat period <= limit, with the lateness of a heartbeat in the period;
and from it `OpenStaysActive`, wherever in a cleanup a process crashes or comes back. The invariant
`RunningFresh` says how old the heartbeat in the table of a running node can
be: as old as its timer, plus one period for each disruption so far.
A cleanup reads only ids of nodes that do not run, and no socket is open at a node that
comes to run (`Located`). So a session whose node a cleanup has among the dead although
it runs was created in between (`SweptAreExposed`), and all others are out of every
cleanup's way.

**RateLimiterProofs.** `TypeCorrect`, `RateStaysBounded`. A request
that has read the count adds one to it whatever happens meanwhile, so the invariant
counts it in advance: the count and the requests that will increment it together
are at most the limit, less one, plus the number of requests.

**UploadAdmissionProofs.** `TypeCorrect` and the four invariants of the run, for any
limits, numbers of handlers, files and failures. `UploadsStayBounded` adds to
the uploads of a client the handlers that have passed the check and are yet to store
(as above), and charges each failing read with one. `DownloadsStayBounded` needs no
such sum: every list a handler is about to write is within the limit.
`AcceptedAlwaysListed` holds with any overlap: a write to a session that is not spoiled
replaces what its handler has read, and what a handler takes off it, however late, is a
file the receiver is through with (`Listed`). `TransfersStayBounded` needs handlers
that do not overlap, since the limit adds up two values that are read apart: the invariant of
`serial` handlers says that the copy of the one under way is what Redis holds, and
follows the handler through its calls.

**RoutingProofs.** `TypeCorrect`, `RowsAlwaysMatch`, `EmittedAtMostOnce`,
`NeverToAnotherClient`, `SettledReached`. `Known`: what an
address names has been opened. `Rowed` says for each place of the two handlers of a
socket whether it is open and has a row; `Excused`: a node that is down has only
excused sockets, the ones a cleanup may touch. `Once` describes the three ways
of a message: a task that resolves is all there is of it; so is a packet to the node of
a session, or its delivery; a node that is yet to hear a routing request has
done nothing for the message; and an address among rows is still to come, on its way,
or done, and only one of these. `Addressed`: every address a task or a packet holds is
one of the client the message is for, however old it is; so a message is never emitted on a
socket of anybody else, which is no property of a run. That a settled client is reached is not inductive, because it
speaks of the end of a routing only. `Reaching` says what is true before: as long as a
message is in `sure` and not delivered, something still carries it to the client's open
socket (`OnItsWay`): a task that will find the socket by the session or a row, a
packet to its node, or a request to the node that is master.

Only model-checked: the liveness properties (`Failover`, `StaleMasterYields`,
`PendingSettles`, `AllInCompletes`, `CrashIsNoticed`), which need fairness and ENABLED,
out of this prover's reach.

## 5. What is not modelled

Webhooks, health, cluster and upload queries, logging and validation keep no state that a
handler reads. The native add-on consists of functions on bytes. HTTP and Socket.IO
set-up have no state of their own. `StatsService` keeps two counters per process in memory and a
file, and nothing decides on them; what its lazy load can lose is listed as a hazard.

Of the modelled components:

- `MasterElection`: overlapping rounds of one node (a Redis call that lasts longer
  than the interval).
- `ShareSession`, `UploadAdmission`: the in-memory mode. There a read and the write that
  follows do not wait, and handlers change the very objects others have read.
- `Transfer`: a sender that goes on with its upload on another node. The copy loaded
  there has no `Map` for `pendingAcks`, so that its first chunk throws or is not
  tracked, and the copies the nodes keep in memory are never merged or dropped. The
  cancelled-download sets are written and never read by a handler.
- `UploadAdmission`: changes of the share while an upload starts; the cleanup of uploads in
  the memory of a node, which Redis does not see.
- `Routing`: a node that shuts down in order (a crash covers what the others see of it),
  the mode without a cluster, a second "register" on one socket, a failing scan of
  the sessions in a disconnect, and sessions written back by heartbeats, which are
  `ShareSession`'s subject.

## 6. Plan

What a further round would add, in this order:

1. `UploadCache`: two nodes that each hold an upload in memory and write it to
   Redis, a sender that moves, cleanup and TTL, composed with `Transfer`
   as the abstract specification of a sender that stays.
2. Overlapping rounds in `MasterElection`; the in-memory mode of `ShareSession`; what stays in
   a share when a client leaves whose session has expired.
3. `Statistics`.
