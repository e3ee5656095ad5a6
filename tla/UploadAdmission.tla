-------------------------- MODULE UploadAdmission --------------------------
(***************************************************************************)
(* Which uploads are let in: the handler of upload-init with its limits    *)
(* (socket.handler.ts) in Redis mode, after the RateLimiter.  A limit is   *)
(* checked on values that were read some calls before the upload is        *)
(* stored, and what a receiver downloads is kept in its session, which     *)
(* handlers read, change and write back as a whole.                        *)
(*                                                                         *)
(* An action is one call to Redis with the code that looks at its answer;  *)
(* KEYS and MGET of one reading count as one call.  Of a session the model *)
(* keeps its downloads, of an upload whether its record says "uploading";  *)
(* who shares with whom is ShareSession's subject and fixed here.          *)
(***************************************************************************)
EXTENDS Naturals, FiniteSets

CONSTANTS
  Clients,
  Partner,          \* the other member of the share that a session names, or None
  Files,            \* bound: the uploads ever stored
  Handlers,         \* bound: how many handlers may be under way at a time
  None,
  MaxUploads,       \* config.maxConcurrentUploads
  MaxDownloads,     \* config.maxConcurrentDownloads
  MaxTransfers,     \* config.maxConcurrentTransfers
  MaxFailures       \* bound: how many calls fail, or handlers are cut short

ASSUME ConstantsAssumption ==
  /\ None \notin Clients \cup Files
  /\ Partner \in [Clients -> Clients \cup {None}]
  /\ \A c \in Clients : Partner[c] # c
  /\ IsFiniteSet(Files) /\ IsFiniteSet(Handlers) /\ Handlers # {}
  /\ {MaxUploads, MaxDownloads, MaxTransfers} \subseteq Nat \ {0}
  /\ MaxFailures \in Nat

VARIABLES
  owner,       \* who an upload is of; None if it is still to come
  uploading,   \* Redis: the uploads whose record says "uploading"
  downloads,   \* Redis: the downloads in the session of each client
  handler,     \* what each handler under way has read, and its next call
  announced,   \* the uploads whose sender was told their id
  accepted,    \* those a receiver has been entered for
  through,     \* those the receiver has confirmed, cancelled or forgotten
  spoiled,     \* whose session has lost an update of the downloads
  serial,      \* one handler is under way at a time
  failures

uploads == <<owner, uploading, announced, accepted, through>>
vars == <<uploads, downloads, handler, spoiled, serial, failures>>

Calls == {"none", "sender", "store", "offer", "accept", "respond", "save"}

(* seen: the uploads found "uploading".  copy: the downloads that the      *)
(* handler has read, and is about to write with file entered or taken off. *)
States == [call : Calls, client : Clients \cup {None}, file : Files \cup {None},
           seen : SUBSET Files, copy : SUBSET Files]

Idle == [call |-> "none", client |-> None, file |-> None, seen |-> {}, copy |-> {}]

TypeOK ==
  /\ owner \in [Files -> Clients \cup {None}]
  /\ uploading \in SUBSET {f \in Files : owner[f] # None}
  /\ downloads \in [Clients -> SUBSET Files]
  /\ handler \in [Handlers -> States]
  /\ announced \in SUBSET Files /\ accepted \in SUBSET Files
  /\ through \in SUBSET Files
  /\ spoiled \in SUBSET Clients
  /\ serial \in BOOLEAN
  /\ failures \in 0 .. MaxFailures

Init ==
  /\ owner = [f \in Files |-> None]
  /\ uploading = {}
  /\ downloads = [c \in Clients |-> {}]
  /\ handler = [h \in Handlers |-> Idle]
  /\ announced = {} /\ accepted = {} /\ through = {} /\ spoiled = {}
  /\ serial \in BOOLEAN
  /\ failures = 0

-----------------------------------------------------------------------------
Of(c, files) == {f \in files : owner[f] = c}

Begin(h, state) ==
  /\ handler[h] = Idle
  /\ serial => \A g \in Handlers : handler[g] = Idle
  /\ handler' = [handler EXCEPT ![h] = state]

At(h, call) == handler[h].call = call
Goto(h, call) == handler' = [handler EXCEPT ![h].call = call]
End(h) == handler' = [handler EXCEPT ![h] = Idle]

Fails ==
  /\ failures < MaxFailures
  /\ failures' = failures + 1

(* What a read returns: the value or, if it fails, nothing, which          *)
(* RedisService reports as an empty map or a session that is not there.    *)
Read(value, result) ==
  \/ result = value /\ UNCHANGED failures
  \/ result = {} /\ Fails

(* The downloads that a handler has read and is about to replace are no    *)
(* longer those stored: the write undoes what another has written.         *)
Spoil(c, read) ==
  spoiled' = IF downloads[c] = read THEN spoiled ELSE spoiled \cup {c}

-----------------------------------------------------------------------------
(* The limits of the sender, and the upload.                               *)

UploadFitsOneMore(c, seen) == Cardinality(Of(c, seen)) <= MaxUploads
UploadFits(c, seen) == Cardinality(Of(c, seen)) < MaxUploads

(* At the limit the handler throws, and nothing has changed.               *)
ReadUploads(h, c) ==
  /\ \E seen \in {uploading, {}} :
       /\ Read(uploading, seen)
       /\ UploadFits(c, seen)
       /\ Begin(h, [Idle EXCEPT !.call = "sender", !.client = c, !.seen = seen])
  /\ UNCHANGED <<uploads, downloads, spoiled, serial>>

(* A transfer more for a client with these uploads and downloads.          *)
TransferFitsOwn(c, seen, files) == Cardinality(files) < MaxTransfers
TransferFits(c, seen, files) ==
  Cardinality(Of(c, seen)) + Cardinality(files) < MaxTransfers

(* The file may be too large, too.                                         *)
ReadSender(h) ==
  LET c == handler[h].client
  IN  /\ At(h, "sender")
      /\ \E files \in {downloads[c], {}} :
           /\ Read(downloads[c], files)
           /\ \/ TransferFits(c, handler[h].seen, files) /\ Goto(h, "store")
              \/ End(h)
      /\ UNCHANGED <<uploads, downloads, spoiled, serial>>

(* setUploadState, which logs a failing write and goes on.                 *)
UploaderMissing(h) == None
Uploader(h) == handler[h].client

Store(h, f) ==
  /\ At(h, "store") /\ owner[f] = None
  /\ owner' = [owner EXCEPT ![f] = Uploader(h)]
  /\ \/ uploading' = uploading \cup {f} /\ UNCHANGED failures
     \/ Fails /\ UNCHANGED uploading
  /\ handler' = [handler EXCEPT ![h].call = "offer", ![h].file = f]
  /\ UNCHANGED <<announced, accepted, through, downloads, spoiled, serial>>

-----------------------------------------------------------------------------
(* The limits of the receiver, and its downloads.                          *)

ReceiverFits(r, seen, files) ==
  Cardinality(files) < MaxDownloads /\ TransferFits(r, seen, files)

(* With a share, another member and no receiver the handler throws: the    *)
(* upload stays stored.  Without, as after a failing read of the sender's  *)
(* session or share, the upload has no receiver.                           *)
Offer(h) ==
  LET r == Partner[handler[h].client]
      new == [handler[h] EXCEPT !.call = "respond", !.seen = {}]
  IN  /\ At(h, "offer")
      /\ \/ /\ r = None /\ UNCHANGED failures
            /\ handler' = [handler EXCEPT ![h] = new]
         \/ /\ r # None /\ UNCHANGED failures
            /\ IF ReceiverFits(r, handler[h].seen, downloads[r])
               THEN handler' = [handler EXCEPT ![h] =
                      [new EXCEPT !.call = "accept", !.copy = downloads[r]]]
               ELSE End(h)
         \/ /\ r # None /\ Fails
            /\ handler' = [handler EXCEPT ![h] = new] \/ End(h)
      /\ UNCHANGED <<uploads, downloads, spoiled, serial>>

EnteredInPlace(h) == downloads[Partner[handler[h].client]] \cup {handler[h].file}
Entered(h) == handler[h].copy \cup {handler[h].file}

Accept(h) ==
  LET r == Partner[handler[h].client]
      f == handler[h].file
  IN  /\ At(h, "accept")
      /\ downloads' = [downloads EXCEPT ![r] = Entered(h)]
      /\ accepted' = accepted \cup {f}
      /\ Spoil(r, handler[h].copy)
      /\ handler' = [handler EXCEPT ![h].call = "respond", ![h].copy = {}]
      /\ UNCHANGED <<owner, uploading, announced, through, serial, failures>>

(* upload-init-response; the receiver hears "file-transfer-started".       *)
Respond(h) ==
  /\ At(h, "respond")
  /\ announced' = announced \cup {handler[h].file}
  /\ End(h)
  /\ UNCHANGED <<owner, uploading, accepted, through, downloads, spoiled, serial,
                 failures>>

-----------------------------------------------------------------------------
(* What else happens to these values.                                      *)

(* An announced upload completes or fails.                                 *)
Finish(f) ==
  /\ f \in uploading \cap announced
  /\ uploading' = uploading \ {f}
  /\ UNCHANGED <<owner, announced, accepted, through, downloads, handler, spoiled,
                 serial, failures>>

(* The TTL of a record, which no handler lasts; an upload in use, whose    *)
(* record acknowledgements write again, is not idle that long.             *)
Expire(f) ==
  /\ f \in uploading
  /\ \A h \in Handlers : handler[h].file = f => At(h, "save")
  /\ uploading' = uploading \ {f}
  /\ UNCHANGED <<owner, announced, accepted, through, downloads, handler, spoiled,
                 serial, failures>>

(* download-confirmed and cancel-download of the receiver.                 *)
RemainingNone(files, f) == {}
Remaining(files, f) == files \ {f}

Saving(c, f) ==
  [Idle EXCEPT !.call = "save", !.client = c, !.file = f, !.copy = downloads[c]]

TakeOff(h, c, f) ==
  /\ f \in downloads[c]
  /\ Begin(h, Saving(c, f))
  /\ through' = through \cup {f}
  /\ UNCHANGED <<owner, uploading, announced, accepted, downloads, spoiled, serial,
                 failures>>

(* Handlers that change something else in the session: heartbeat,          *)
(* disconnect, createShare, joinShare.                                     *)
Touch(h, c) ==
  /\ Begin(h, Saving(c, None))
  /\ UNCHANGED <<uploads, downloads, spoiled, serial, failures>>

Save(h) ==
  LET state == handler[h]
  IN  /\ At(h, "save")
      /\ downloads' = [downloads EXCEPT ![state.client] =
                         Remaining(state.copy, state.file)]
      /\ Spoil(state.client, state.copy)
      /\ End(h)
      /\ UNCHANGED <<uploads, serial, failures>>

(* The session of a new socket is a new one and has no downloads: none of  *)
(* the transfers to the client goes on.                                    *)
Register(h, c) ==
  /\ Begin(h, Idle)
  /\ downloads' = [downloads EXCEPT ![c] = {}]
  /\ through' = through \cup {f \in accepted : Partner[owner[f]] = c}
  /\ spoiled' = spoiled \ {c}
  /\ UNCHANGED <<owner, uploading, announced, accepted, serial, failures>>

(* Another call is rejected and ends the handler, or its process crashes.  *)
Abort(h) ==
  /\ handler[h] # Idle
  /\ Fails
  /\ End(h)
  /\ UNCHANGED <<uploads, downloads, spoiled, serial>>

-----------------------------------------------------------------------------
Next ==
  \/ \E h \in Handlers :
       \/ ReadSender(h) \/ Offer(h) \/ Accept(h) \/ Respond(h) \/ Save(h) \/ Abort(h)
       \/ \E f \in Files : Store(h, f)
       \/ \E c \in Clients :
            \/ ReadUploads(h, c) \/ Touch(h, c) \/ Register(h, c)
            \/ \E f \in Files : TakeOff(h, c, f)
  \/ \E f \in Files : Finish(f) \/ Expire(f)

Spec == Init /\ [][Next]_vars

-----------------------------------------------------------------------------
(* Properties.                                                             *)

(* How many handlers may have passed a check none of them knew of.         *)
Overlap == IF serial THEN 1 ELSE Cardinality(Handlers)

(* "Too many concurrent uploads": overlapping requests, and one for each   *)
(* failing read, are all that exceeds the limit; uploads that were stored  *)
(* and then refused count against it.                                      *)
UploadsBounded ==
  \A c \in Clients :
    Cardinality(Of(c, uploading)) <= MaxUploads - 1 + Overlap + failures

(* "Too many concurrent downloads": no overlap exceeds this limit, because *)
(* what a handler writes is the list it has checked and one file more.     *)
DownloadsBounded == \A c \in Clients : Cardinality(downloads[c]) <= MaxDownloads

(* "Maximum active transfers per user": kept, but for failing reads, by    *)
(* handlers that do not overlap.                                           *)
TransfersBounded ==
  serial =>
    \A c \in Clients :
      Cardinality(Of(c, uploading)) + Cardinality(downloads[c])
        <= MaxTransfers + failures

(* "Check if this client is actually downloading this file": a receiver    *)
(* that was entered for an upload has it in its downloads, until it is     *)
(* through with it.  upload-chunk sends its chunks to nobody else.         *)
AcceptedIsDownloading ==
  \A f \in accepted \ through : f \in downloads[Partner[owner[f]]]

(* The same, however handlers overlap, of every receiver whose session has *)
(* lost no update: it is not the overlap that takes a receiver out, but a  *)
(* write of its own session that replaces what the writer has not read.    *)
AcceptedStaysListed ==
  \A f \in accepted \ through :
    LET r == Partner[owner[f]]
    IN  r \notin spoiled => f \in downloads[r]
=============================================================================
