------------------------- MODULE UploadAdmissionProofs -------------------------
(* What UploadAdmission guarantees for every limit, and every number of       *)
(* clients, uploads, handlers and failures.                                   *)
EXTENDS UploadAdmission, FiniteSetTheorems, TLAPS

(* What a handler under way holds.  A list of downloads that it is about to *)
(* write, however stale, was within the limit when the handler read it, and *)
(* leaves room for the file it is about to enter.                           *)
Sound(state) ==
  /\ state.call # "none" => state.client # None
  /\ state.call \in {"offer", "accept", "respond"} =>
       state.file # None /\ owner[state.file] = state.client
  /\ state.call = "accept" =>
       Partner[state.client] # None /\ Cardinality(state.copy) < MaxDownloads
  /\ state.call = "save" => Cardinality(state.copy) <= MaxDownloads

(* Handlers that have passed the check of a client's uploads, and may store *)
(* one more each.                                                           *)
Pending(c) ==
  {h \in Handlers : handler[h].client = c
                    /\ handler[h].call \in {"sender", "store"}}

UploadsAndPending(c) ==
  Cardinality(Of(c, uploading)) + Cardinality(Pending(c))
    <= MaxUploads - 1 + Overlap + failures

Inv ==
  /\ TypeOK
  /\ DownloadsBounded
  /\ \A h \in Handlers : Sound(handler[h])
  /\ \A c \in Clients : UploadsAndPending(c)
  /\ \A f \in accepted : owner[f] # None /\ Partner[owner[f]] # None

-----------------------------------------------------------------------------
(* Sets of files are finite, and a smaller one has no more elements.        *)
LEMMA FilesTyped ==
  ASSUME NEW S \in SUBSET Files
  PROVE  /\ IsFiniteSet(S) /\ Cardinality(S) \in Nat
         /\ \A T \in SUBSET S : Cardinality(T) <= Cardinality(S)
<1>1. IsFiniteSet(S)
  BY ConstantsAssumption, FS_Subset
<1> QED  BY <1>1, FS_Subset, FS_CardinalityType

LEMMA OfTyped ==
  ASSUME NEW c, NEW files \in SUBSET Files
  PROVE  /\ Of(c, files) \in SUBSET files
         /\ IsFiniteSet(Of(c, files)) /\ Cardinality(Of(c, files)) \in Nat
<1>1. Of(c, files) \in SUBSET files
  BY DEF Of
<1> QED  BY <1>1, FilesTyped

LEMMA PendingTyped ==
  ASSUME NEW c
  PROVE  /\ IsFiniteSet(Pending(c)) /\ Cardinality(Pending(c)) \in Nat
         /\ Cardinality(Pending(c))' \in Nat
         /\ Cardinality(Pending(c))' <= Cardinality(Handlers)
<1>1. Pending(c) \in SUBSET Handlers /\ Pending(c)' \in SUBSET Handlers
  BY DEF Pending
<1> QED  BY <1>1, ConstantsAssumption, FS_Subset, FS_CardinalityType

LEMMA OverlapTyped == Overlap \in Nat \ {0}
<1>1. Cardinality(Handlers) \in Nat /\ Cardinality(Handlers) # 0
  BY ConstantsAssumption, FS_CardinalityType, FS_EmptySet
<1> QED  BY <1>1 DEF Overlap

(* A handler that begins is one of at most Overlap.                         *)
LEMMA PendingBegins ==
  ASSUME TypeOK, NEW h \in Handlers, NEW state, Begin(h, state),
         UNCHANGED serial, NEW c \in Clients
  PROVE  Cardinality(Pending(c))' <= Overlap
<1>1. CASE serial
  <2>1. Idle.call = "none"
    BY DEF Idle
  <2>2. \A g \in Handlers \ {h} : handler'[g] = Idle
    BY <1>1 DEF Begin, TypeOK
  <2>3. Pending(c)' \in SUBSET {h}
    BY <2>1, <2>2 DEF Pending
  <2>4. Cardinality(Pending(c)') <= 1
    <3>1. IsFiniteSet({h}) /\ Cardinality({h}) = 1
      BY FS_Singleton
    <3> QED  BY <2>3, <3>1, FS_Subset
  <2> QED  BY <1>1, <2>4 DEF Overlap
<1>2. CASE ~serial
  BY <1>2, PendingTyped DEF Overlap
<1> QED  BY <1>1, <1>2

(* What a step of h makes of those pending.                                 *)
LEMMA PendingMoves ==
  ASSUME TypeOK, NEW h \in Handlers, NEW state,
         handler' = [handler EXCEPT ![h] = state], NEW c \in Clients
  PROVE  /\ ~(state.client = c /\ state.call \in {"sender", "store"}) =>
              Cardinality(Pending(c))' =
                IF h \in Pending(c) THEN Cardinality(Pending(c)) - 1
                                    ELSE Cardinality(Pending(c))
         /\ h \in Pending(c)
            /\ state.client = c /\ state.call \in {"sender", "store"} =>
              Cardinality(Pending(c))' = Cardinality(Pending(c))
<1>1. handler'[h] = state /\ \A g \in Handlers \ {h} : handler'[g] = handler[g]
  BY DEF TypeOK
<1>2. IsFiniteSet(Pending(c))
  BY PendingTyped
<1>3. CASE ~(state.client = c /\ state.call \in {"sender", "store"})
  <2>1. Pending(c)' = Pending(c) \ {h}
    BY <1>1, <1>3 DEF Pending
  <2> QED  BY <1>2, <1>3, <2>1, FS_RemoveElement
<1>4. CASE /\ h \in Pending(c)
           /\ state.client = c /\ state.call \in {"sender", "store"}
  <2>1. Pending(c)' = Pending(c)
    BY <1>1, <1>4 DEF Pending
  <2> QED  BY <1>4, <2>1
<1> QED  BY <1>3, <1>4

(* A step that adds no upload and no handler keeps to the bound.            *)
LEMMA UploadsKept ==
  ASSUME Inv, NEW c \in Clients, serial' = serial,
         failures' \in {failures, failures + 1}, uploading' \in SUBSET Files,
         Cardinality(Of(c, uploading))' + Cardinality(Pending(c))'
           <= Cardinality(Of(c, uploading)) + Cardinality(Pending(c))
  PROVE  UploadsAndPending(c)'
<1>1. /\ Cardinality(Of(c, uploading)) \in Nat
      /\ failures \in Nat /\ uploading \in SUBSET Files
  BY OfTyped DEF Inv, TypeOK
<1>2. Cardinality(Of(c, uploading))' \in Nat
  <2>1. Of(c, uploading)' \in SUBSET Files
    BY DEF Of
  <2> QED  BY <2>1, FilesTyped
<1>3. Overlap' = Overlap /\ Overlap \in Nat
  BY OverlapTyped DEF Overlap
<1> QED
  BY <1>1, <1>2, <1>3, PendingTyped, ConstantsAssumption
  DEF Inv, UploadsAndPending

(* A step of h: what is left to show of it is that its new state is sound.  *)
LEMMA InvFrom ==
  ASSUME Inv, NEW h \in Handlers, NEW state \in States,
         handler' = [handler EXCEPT ![h] = state], Sound(handler[h])',
         \A f \in Files : owner[f] # None => owner'[f] = owner[f],
         owner' \in [Files -> Clients \cup {None}],
         uploading' \in SUBSET {f \in Files : owner'[f] # None},
         announced' \in SUBSET Files, through' \in SUBSET Files,
         accepted' \in SUBSET Files,
         \A f \in accepted' : owner'[f] # None /\ Partner[owner'[f]] # None,
         downloads' \in [Clients -> SUBSET Files], DownloadsBounded',
         spoiled' \in SUBSET Clients,
         UNCHANGED serial, failures' \in 0 .. MaxFailures,
         \A c \in Clients : UploadsAndPending(c)'
  PROVE  Inv'
<1>1. TypeOK'
  BY DEF Inv, TypeOK
<1>2. ASSUME NEW g \in Handlers PROVE Sound(handler[g])'
  <2>1. CASE g = h
    BY <2>1
  <2>2. CASE g # h
    <3>1. /\ handler'[g] = handler[g] /\ Sound(handler[g])
          /\ handler[g].file \in Files \cup {None}
          /\ handler[g].client \in Clients \cup {None}
          /\ handler[g].call \in Calls
      BY <2>2 DEF Inv, TypeOK, States
    <3> QED  BY <3>1 DEF Sound, Calls
  <2> QED  BY <2>1, <2>2
<1> QED  BY <1>1, <1>2 DEF Inv

LEMMA IdleSound == Idle \in States /\ Sound(Idle) /\ Idle.call = "none"
BY DEF Idle, States, Calls, Sound

(* A handler reads the downloads of a session to write them back.           *)
LEMMA BeginsSaving ==
  ASSUME NEW h \in Handlers, NEW c \in Clients,
         (\E f \in Files : TakeOff(h, c, f)) \/ Touch(h, c)
  PROVE  /\ \E f \in Files \cup {None} : Begin(h, Saving(c, f))
         /\ UNCHANGED <<owner, uploading, downloads, accepted, announced,
                        spoiled, serial, failures>>
         /\ through' = through \/ \E f \in Files : through' = through \cup {f}
<1>1. CASE Touch(h, c)
  BY <1>1 DEF Touch, uploads
<1>2. ASSUME NEW f \in Files, TakeOff(h, c, f)
      PROVE  /\ Begin(h, Saving(c, f)) /\ through' = through \cup {f}
             /\ UNCHANGED <<owner, uploading, downloads, accepted, announced,
                            spoiled, serial, failures>>
  BY <1>2 DEF TakeOff
<1> QED  BY <1>1, <1>2

LEMMA InvInit == Init => Inv
<1> SUFFICES ASSUME Init PROVE Inv
  OBVIOUS
<1>1. TypeOK
  BY ConstantsAssumption, IdleSound DEF Init, TypeOK
<1>2. Cardinality({}) = 0
  BY FS_EmptySet
<1>3. ASSUME NEW c \in Clients
      PROVE  Cardinality(downloads[c]) <= MaxDownloads /\ UploadsAndPending(c)
  <2>1. Of(c, uploading) = {} /\ Pending(c) = {}
    BY IdleSound DEF Init, Of, Pending
  <2>2. downloads[c] = {} /\ failures = 0
    BY DEF Init
  <2> QED
    BY <1>2, <2>1, <2>2, ConstantsAssumption, OverlapTyped DEF UploadsAndPending
<1>4. \A h \in Handlers : Sound(handler[h])
  BY IdleSound DEF Init
<1> QED  BY <1>1, <1>3, <1>4 DEF Inv, DownloadsBounded, Init

LEMMA InvStep == Inv /\ [Next]_vars => Inv'
<1> SUFFICES ASSUME Inv, [Next]_vars PROVE Inv'
  OBVIOUS
<1> USE ConstantsAssumption
<1>a. /\ TypeOK /\ DownloadsBounded
      /\ \A h \in Handlers : Sound(handler[h]) /\ handler[h] \in States
      /\ \A c \in Clients : UploadsAndPending(c)
      /\ \A f \in accepted : owner[f] # None /\ Partner[owner[f]] # None
  BY DEF Inv, TypeOK
<1>b. /\ owner \in [Files -> Clients \cup {None}]
      /\ uploading \in SUBSET Files
      /\ uploading \in SUBSET {f \in Files : owner[f] # None}
      /\ downloads \in [Clients -> SUBSET Files]
      /\ announced \in SUBSET Files /\ accepted \in SUBSET Files
      /\ through \in SUBSET Files
      /\ spoiled \in SUBSET Clients /\ failures \in 0 .. MaxFailures
  BY <1>a DEF TypeOK
<1>c. /\ Fails => failures' = failures + 1 /\ failures' \in 0 .. MaxFailures
      /\ \A value, result : Read(value, result) =>
           failures' \in {failures, failures + 1} /\ failures' \in 0 .. MaxFailures
  BY <1>b DEF Fails, Read
(* The sessions that lose an update are those of clients.                   *)
<1>s. ASSUME NEW c \in Clients, NEW read, Spoil(c, read)
      PROVE  spoiled' \in SUBSET Clients
  BY <1>b, <1>s DEF Spoil
(* A step of h that leaves the uploads as they are, after which it is none  *)
(* of those pending, or still is one.                                       *)
<1>d. ASSUME NEW h \in Handlers, NEW state \in States,
             handler' = [handler EXCEPT ![h] = state],
             UNCHANGED <<owner, uploading, serial>>,
             failures' \in {failures, failures + 1},
             \/ state.call \notin {"sender", "store"}
             \/ state.client = handler[h].client
                /\ handler[h].call \in {"sender", "store"}
      PROVE  \A c \in Clients : UploadsAndPending(c)'
  <2> SUFFICES ASSUME NEW c \in Clients PROVE UploadsAndPending(c)'
    OBVIOUS
  <2>1. Of(c, uploading)' = Of(c, uploading)
    BY <1>d DEF Of
  <2>2. Cardinality(Pending(c))' <= Cardinality(Pending(c))
    <3>1. Cardinality(Pending(c)) \in Nat
      BY PendingTyped
    <3>2. CASE state.client = c /\ state.call \in {"sender", "store"}
      <4>1. h \in Pending(c)
        BY <1>d, <3>2 DEF Pending
      <4>2. Cardinality(Pending(c))' = Cardinality(Pending(c))
        BY <1>a, <1>d, <3>2, <4>1, PendingMoves
      <4> QED  BY <3>1, <4>2
    <3>3. CASE ~(state.client = c /\ state.call \in {"sender", "store"})
      <4>1. Cardinality(Pending(c))' =
              IF h \in Pending(c) THEN Cardinality(Pending(c)) - 1
                                  ELSE Cardinality(Pending(c))
        BY <1>a, <1>d, <3>3, PendingMoves
      <4> QED  BY <3>1, <4>1
    <3> QED  BY <3>2, <3>3
  <2>3. Cardinality(Of(c, uploading)) \in Nat /\ Cardinality(Pending(c)) \in Nat
    BY <1>b, OfTyped, PendingTyped
  <2> QED
    BY <1>b, <1>d, <2>1, <2>2, <2>3, PendingTyped, UploadsKept
<1>1. ASSUME NEW h \in Handlers, NEW c \in Clients, ReadUploads(h, c)
      PROVE  Inv'
  <2>1. PICK seen \in {uploading, {}} :
          /\ Read(uploading, seen) /\ UploadFits(c, seen)
          /\ Begin(h, [Idle EXCEPT !.call = "sender", !.client = c,
                                   !.seen = seen])
    BY <1>1 DEF ReadUploads
  <2> DEFINE new == [Idle EXCEPT !.call = "sender", !.client = c, !.seen = seen]
  <2>2. /\ UNCHANGED <<uploads, downloads, spoiled, serial>>
        /\ Begin(h, new) /\ handler[h] = Idle
        /\ handler' = [handler EXCEPT ![h] = new]
    BY <1>1, <2>1 DEF ReadUploads, Begin
  <2>3. new \in States
    BY <1>b DEF Idle, States, Calls
  <2>4. new.call = "sender" /\ new.client = c
    BY DEF Idle
  <2> HIDE DEF new
  <2>5. Sound(handler[h])'
    BY <1>a, <2>2, <2>3, <2>4 DEF Sound, TypeOK
  <2>6. ASSUME NEW d \in Clients PROVE UploadsAndPending(d)'
    <3>1. /\ Of(d, uploading)' = Of(d, uploading)
          /\ Cardinality(Of(d, uploading)) \in Nat
      <4>1. Of(d, uploading)' = Of(d, uploading)
        BY <2>2 DEF Of, uploads
      <4> QED  BY <1>b, <4>1, OfTyped
    <3>2. h \notin Pending(d)
      BY <2>2, IdleSound DEF Pending
    <3>3. CASE d # c
      <4>1. Cardinality(Pending(d))' = Cardinality(Pending(d))
        BY <1>a, <2>2, <2>4, <3>2, <3>3, PendingMoves
      <4> QED
        BY <1>b, <1>c, <2>1, <2>2, <3>1, <4>1, PendingTyped, UploadsKept
        DEF uploads
    <3>4. CASE d = c /\ seen = uploading
      <4>1. Cardinality(Of(c, uploading)) < MaxUploads
        BY <2>1, <3>4 DEF UploadFits
      <4>2. Cardinality(Pending(c))' <= Overlap
        BY <1>a, <2>2, PendingBegins
      <4>3. Overlap' = Overlap /\ Overlap \in Nat
        BY <2>2, OverlapTyped DEF Overlap
      <4>4. failures' \in Nat
        BY <1>c, <2>1
      <4> QED
        BY <3>1, <3>4, <4>1, <4>2, <4>3, <4>4, PendingTyped
        DEF UploadsAndPending
    <3>5. CASE d = c /\ seen # uploading
      <4>1. failures' = failures + 1
        BY <2>1, <3>5 DEF Read, Fails
      <4>2. Cardinality(Pending(c))' <= Cardinality(Pending(c)) + 1
        <5>1. Pending(c)' = Pending(c) \cup {h}
          BY <1>a, <2>2, <2>4 DEF Pending, TypeOK
        <5>2. IsFiniteSet(Pending(c)) /\ h \notin Pending(c)
          BY <3>2, <3>5, PendingTyped
        <5>3. Cardinality(Pending(c) \cup {h}) = Cardinality(Pending(c)) + 1
          BY <5>2, FS_AddElement
        <5> QED  BY <5>1, <5>3, PendingTyped
      <4>3. Overlap' = Overlap /\ Overlap \in Nat
        BY <2>2, OverlapTyped DEF Overlap
      <4>4. failures \in Nat
        BY <1>b
      <4> QED
        BY <1>a, <3>1, <3>5, <4>1, <4>2, <4>3, <4>4, PendingTyped
        DEF UploadsAndPending
    <3> QED  BY <3>3, <3>4, <3>5
  <2> QED
    BY <1>a, <1>b, <1>c, <2>1, <2>2, <2>3, <2>5, <2>6, InvFrom
    DEF uploads, DownloadsBounded
(* Any other step of h that leaves the values of the uploads and downloads. *)
<1>e. ASSUME NEW h \in Handlers, NEW state \in States,
             handler' = [handler EXCEPT ![h] = state],
             UNCHANGED <<owner, uploading, downloads, accepted, spoiled, serial>>,
             announced' \in SUBSET Files, through' \in SUBSET Files,
             failures' \in {failures, failures + 1},
             failures' \in 0 .. MaxFailures,
             \/ state.call \notin {"sender", "store"}
             \/ state.client = handler[h].client
                /\ handler[h].call \in {"sender", "store"},
             Sound(state)
      PROVE  Inv'
  <2>1. \A c \in Clients : UploadsAndPending(c)'
    BY <1>d, <1>e
  <2>2. Sound(handler[h])'
    BY <1>a, <1>e DEF TypeOK, Sound
  <2>3. DownloadsBounded'
    BY <1>a, <1>e DEF DownloadsBounded
  <2> QED  BY <1>a, <1>b, <1>e, <2>1, <2>2, <2>3, InvFrom
<1>2. ASSUME NEW h \in Handlers, ReadSender(h) PROVE Inv'
  <2> DEFINE new == [handler[h] EXCEPT !.call = "store"]
  <2>1. /\ handler[h].call = "sender"
        /\ handler' = [handler EXCEPT ![h] = new]
           \/ handler' = [handler EXCEPT ![h] = Idle]
        /\ UNCHANGED <<uploads, downloads, spoiled, serial>>
        /\ failures' \in {failures, failures + 1}
        /\ failures' \in 0 .. MaxFailures
    BY <1>2, <1>c DEF ReadSender, At, Goto, End
  <2>2. new \in States /\ new.call = "store" /\ new.client = handler[h].client
    BY <1>a DEF States, Calls
  <2>3. Sound(new)
    BY <1>a, <2>1, <2>2 DEF Sound
  <2> HIDE DEF new
  <2> QED  BY <1>b, <1>e, <2>1, <2>2, <2>3, IdleSound DEF uploads
<1>3. ASSUME NEW h \in Handlers, NEW f \in Files, Store(h, f) PROVE Inv'
  <2> DEFINE c   == handler[h].client
             new == [handler[h] EXCEPT !.call = "offer", !.file = f]
  <2>1. /\ handler[h].call = "store" /\ owner[f] = None
        /\ owner' = [owner EXCEPT ![f] = c]
        /\ \/ uploading' = uploading \cup {f} /\ UNCHANGED failures
           \/ Fails /\ UNCHANGED uploading
        /\ handler' = [handler EXCEPT ![h] = new]
        /\ UNCHANGED <<announced, accepted, through, downloads, spoiled, serial>>
    BY <1>3 DEF Store, Uploader, At
  <2>2. c \in Clients /\ c # None
    BY <1>a, <2>1 DEF Sound, States
  <2>3. /\ new \in States /\ new.call = "offer" /\ new.file = f
        /\ new.client = c
    BY <1>a DEF States, Calls
  <2> HIDE DEF new
  <2>4. /\ owner'[f] = c
        /\ \A g \in Files \ {f} : owner'[g] = owner[g]
        /\ owner' \in [Files -> Clients \cup {None}]
    BY <1>b, <2>1, <2>2
  <2>5. f \notin uploading /\ f \notin accepted
    BY <1>a, <1>b, <2>1
  <2>6. uploading' \in SUBSET {g \in Files : owner'[g] # None}
    BY <1>b, <2>1, <2>2, <2>4, <2>5
  <2>7. Sound(handler[h])'
    BY <1>a, <2>1, <2>2, <2>3, <2>4 DEF Sound, TypeOK
  <2>8. failures' \in {failures, failures + 1} /\ failures' \in 0 .. MaxFailures
    BY <1>b, <1>c, <2>1
  <2>9. ASSUME NEW d \in Clients PROVE UploadsAndPending(d)'
    <3>1. IsFiniteSet(Of(d, uploading)) /\ Cardinality(Of(d, uploading)) \in Nat
      BY <1>b, OfTyped
    <3>2. CASE d = c
      <4>1. h \in Pending(d)
        BY <2>1, <3>2 DEF Pending
      <4>2. Cardinality(Pending(d))' = Cardinality(Pending(d)) - 1
        BY <1>a, <2>1, <2>3, <4>1, PendingMoves
      <4>3. \/ Of(d, uploading)' = Of(d, uploading)
            \/ Of(d, uploading)' = Of(d, uploading) \cup {f}
        BY <1>b, <2>1, <2>4, <2>5, <3>2 DEF Of
      <4>4. f \notin Of(d, uploading)
        BY <2>5 DEF Of
      <4>5. Cardinality(Of(d, uploading) \cup {f})
              = Cardinality(Of(d, uploading)) + 1
        BY <3>1, <4>4, FS_AddElement
      <4>6. /\ Cardinality(Of(d, uploading))' <= Cardinality(Of(d, uploading)) + 1
            /\ Cardinality(Of(d, uploading))' \in Nat
        <5>1. CASE Of(d, uploading)' = Of(d, uploading)
          BY <3>1, <5>1
        <5>2. CASE Of(d, uploading)' = Of(d, uploading) \cup {f}
          BY <3>1, <4>5, <5>2
        <5> QED  BY <4>3, <5>1, <5>2
      <4> QED
        <5>1. Cardinality(Of(d, uploading))' + Cardinality(Pending(d))'
                <= Cardinality(Of(d, uploading)) + Cardinality(Pending(d))
          BY <3>1, <4>2, <4>6, PendingTyped
        <5>2. uploading' \in SUBSET Files /\ serial' = serial
          BY <2>1, <2>6
        <5> QED  BY <2>8, <5>1, <5>2, UploadsKept
    <3>3. CASE d # c
      <4>1. Of(d, uploading)' = Of(d, uploading)
        BY <1>b, <2>1, <2>4, <2>5, <3>3 DEF Of
      <4>2. Cardinality(Pending(d))' = Cardinality(Pending(d))
        <5>1. h \notin Pending(d)
          BY <3>3 DEF Pending
        <5> QED  BY <1>a, <2>1, <2>3, <3>3, <5>1, PendingMoves
      <4> QED
        BY <2>1, <2>6, <2>8, <3>1, <4>1, <4>2, PendingTyped, UploadsKept
    <3> QED  BY <3>2, <3>3
  <2>10. DownloadsBounded'
    BY <1>a, <2>1 DEF DownloadsBounded
  <2>11. \A g \in accepted' : owner'[g] # None /\ Partner[owner'[g]] # None
    BY <1>a, <1>b, <2>1, <2>4, <2>5
  <2> QED
    BY <1>b, <2>1, <2>3, <2>4, <2>6, <2>7, <2>8, <2>9, <2>10, <2>11, InvFrom
<1>4. ASSUME NEW h \in Handlers, Offer(h) PROVE Inv'
  <2> DEFINE c    == handler[h].client
             r    == Partner[c]
             new  == [handler[h] EXCEPT !.call = "respond", !.seen = {}]
             next == [new EXCEPT !.call = "accept", !.copy = downloads[r]]
  <2>1. /\ handler[h].call = "offer"
        /\ UNCHANGED <<uploads, downloads, spoiled, serial>>
        /\ failures' \in {failures, failures + 1}
        /\ failures' \in 0 .. MaxFailures
        /\ \/ handler' = [handler EXCEPT ![h] = new]
           \/ handler' = [handler EXCEPT ![h] = Idle]
           \/ /\ handler' = [handler EXCEPT ![h] = next]
              /\ r # None /\ Cardinality(downloads[r]) < MaxDownloads
    BY <1>4, <1>b, <1>c DEF Offer, At, End, ReceiverFits
  <2>2. /\ new \in States /\ new.call = "respond" /\ new.client = c
        /\ new.file = handler[h].file
    BY <1>a DEF States, Calls
  <2>3. Sound(new)
    BY <1>a, <2>1, <2>2 DEF Sound
  <2>4. ASSUME r # None, Cardinality(downloads[r]) < MaxDownloads
        PROVE  next \in States /\ Sound(next) /\ next.call = "accept"
    <3>1. c \in Clients /\ r \in Clients
      BY <1>a, <2>1, <2>4 DEF Sound, States
    <3>2. downloads[r] \in SUBSET Files
      BY <1>b, <3>1
    <3>3. /\ next \in States /\ next.call = "accept" /\ next.client = c
          /\ next.file = handler[h].file /\ next.copy = downloads[r]
      BY <2>2, <3>2 DEF States, Calls
    <3> HIDE DEF next, new
    <3>4. Sound(next)
      BY <1>a, <2>1, <2>4, <3>3 DEF Sound
    <3> QED  BY <3>3, <3>4
  <2> HIDE DEF next, new, r
  <2>5. CASE handler' = [handler EXCEPT ![h] = new]
    BY <1>b, <1>e, <2>1, <2>2, <2>3, <2>5 DEF uploads
  <2>6. CASE handler' = [handler EXCEPT ![h] = Idle]
    BY <1>b, <1>e, <2>1, <2>6, IdleSound DEF uploads
  <2>7. CASE /\ handler' = [handler EXCEPT ![h] = next]
             /\ r # None /\ Cardinality(downloads[r]) < MaxDownloads
    BY <1>b, <1>e, <2>1, <2>4, <2>7 DEF uploads
  <2> QED  BY <2>1, <2>5, <2>6, <2>7
<1>5. ASSUME NEW h \in Handlers, Accept(h) PROVE Inv'
  <2> DEFINE c    == handler[h].client
             f    == handler[h].file
             r    == Partner[c]
             new  == [handler[h] EXCEPT !.call = "respond", !.copy = {}]
             list == handler[h].copy \cup {f}
  <2>1. /\ handler[h].call = "accept"
        /\ downloads' = [downloads EXCEPT ![r] = list]
        /\ accepted' = accepted \cup {f}
        /\ handler' = [handler EXCEPT ![h] = new]
        /\ UNCHANGED <<owner, uploading, announced, through, serial, failures>>
        /\ Spoil(r, handler[h].copy)
    BY <1>5 DEF Accept, At, Entered
  <2>2. /\ c \in Clients /\ r \in Clients /\ r # None
        /\ f \in Files /\ owner[f] = c /\ c # None
        /\ handler[h].copy \in SUBSET Files
        /\ Cardinality(handler[h].copy) < MaxDownloads
    BY <1>a, <2>1 DEF Sound, States
  <2>3. list \in SUBSET Files /\ Cardinality(list) <= MaxDownloads
    <3>1. /\ IsFiniteSet(handler[h].copy)
          /\ Cardinality(handler[h].copy) \in Nat
      BY <2>2, FilesTyped
    <3>2. Cardinality(list) = IF f \in handler[h].copy
                              THEN Cardinality(handler[h].copy)
                              ELSE Cardinality(handler[h].copy) + 1
      BY <3>1, FS_AddElement
    <3>3. Cardinality(list) \in Nat
      BY <2>2, FilesTyped
    <3> QED  BY <2>2, <3>1, <3>2, <3>3
  <2>4. /\ new \in States /\ new.call = "respond" /\ new.client = c
        /\ new.file = f
    BY <1>a DEF States, Calls
  <2> HIDE DEF new, list
  <2>5. Sound(handler[h])'
    BY <1>a, <2>1, <2>2, <2>4 DEF Sound, TypeOK
  <2>6. downloads' \in [Clients -> SUBSET Files] /\ DownloadsBounded'
    BY <1>a, <1>b, <2>1, <2>3 DEF DownloadsBounded
  <2>7. \A d \in Clients : UploadsAndPending(d)'
    BY <1>b, <1>d, <2>1, <2>4
  <2>8. \A g \in accepted' : owner'[g] # None /\ Partner[owner'[g]] # None
    BY <1>a, <2>1, <2>2
  <2>9. spoiled' \in SUBSET Clients
    BY <1>s, <2>1, <2>2
  <2>10. /\ accepted' \in SUBSET Files /\ announced' \in SUBSET Files
         /\ through' \in SUBSET Files /\ failures' \in 0 .. MaxFailures
         /\ owner' = owner /\ uploading' = uploading /\ serial' = serial
    BY <1>b, <2>1, <2>2
  <2>11. handler' = [handler EXCEPT ![h] = new]
    BY <2>1
  <2> HIDE DEF c, f, r
  <2> QED
    BY <1>b, <2>4, <2>5, <2>6, <2>7, <2>8, <2>9, <2>10, <2>11, InvFrom
<1>6. ASSUME NEW h \in Handlers, Respond(h) PROVE Inv'
  <2>1. /\ announced' = announced \cup {handler[h].file}
        /\ handler' = [handler EXCEPT ![h] = Idle]
        /\ UNCHANGED <<owner, uploading, accepted, through, downloads, spoiled,
                       serial, failures>>
        /\ handler[h].file \in Files
    BY <1>6, <1>a DEF Respond, At, End, Sound, States
  <2>2. announced' \in SUBSET Files
    BY <1>b, <2>1
  <2> QED  BY <1>b, <1>e, <2>1, <2>2, IdleSound
<1>7. ASSUME NEW f \in Files, Finish(f) \/ Expire(f) PROVE Inv'
  <2>1. /\ uploading' = uploading \ {f}
        /\ UNCHANGED <<owner, announced, accepted, through, downloads, handler,
                       spoiled, serial, failures>>
    BY <1>7 DEF Finish, Expire
  <2>2. ASSUME NEW c \in Clients PROVE UploadsAndPending(c)'
    <3>1. Of(c, uploading)' \in SUBSET Of(c, uploading)
      BY <2>1 DEF Of
    <3>2. Pending(c)' = Pending(c)
      BY <2>1 DEF Pending
    <3>3. Cardinality(Of(c, uploading)') <= Cardinality(Of(c, uploading))
      BY <1>b, <3>1, OfTyped, FS_Subset
    <3>4. /\ Cardinality(Of(c, uploading)') \in Nat
          /\ Cardinality(Of(c, uploading)) \in Nat
      BY <1>b, <3>1, OfTyped, FilesTyped
    <3>5. /\ Cardinality(Pending(c))' = Cardinality(Pending(c))
          /\ Cardinality(Pending(c)) \in Nat
      BY <3>2, PendingTyped
    <3>6. /\ uploading' \in SUBSET Files /\ serial' = serial
          /\ failures' \in {failures, failures + 1}
      BY <1>b, <2>1
    <3>7. Cardinality(Of(c, uploading))' + Cardinality(Pending(c))'
            <= Cardinality(Of(c, uploading)) + Cardinality(Pending(c))
      BY <3>3, <3>4, <3>5
    <3> QED  BY <3>6, <3>7, UploadsKept
  <2>3. TypeOK' /\ DownloadsBounded'
    BY <1>a, <2>1 DEF TypeOK, DownloadsBounded
  <2>4. \A h \in Handlers : Sound(handler[h])'
    BY <1>a, <2>1 DEF Sound
  <2> QED  BY <1>a, <2>1, <2>2, <2>3, <2>4 DEF Inv
<1>8. ASSUME NEW h \in Handlers, NEW c \in Clients,
             (\E f \in Files : TakeOff(h, c, f)) \/ Touch(h, c)
      PROVE  Inv'
  <2>1. PICK f \in Files \cup {None} : handler' = [handler EXCEPT ![h] = Saving(c, f)]
    BY <1>8, BeginsSaving DEF Begin
  <2>2. /\ UNCHANGED <<owner, uploading, downloads, accepted, announced,
                       spoiled, serial, failures>>
        /\ through' \in SUBSET Files
    BY <1>8, <1>b, BeginsSaving
  <2>3. downloads[c] \in SUBSET Files /\ Cardinality(downloads[c]) <= MaxDownloads
    BY <1>a, <1>b DEF DownloadsBounded
  <2>4. /\ Saving(c, f) \in States /\ Saving(c, f).call = "save"
        /\ Saving(c, f).client = c /\ Saving(c, f).copy = downloads[c]
    BY <2>3 DEF Saving, Idle, States, Calls
  <2>5. Sound(Saving(c, f))
    BY <2>3, <2>4 DEF Sound
  <2> QED  BY <1>b, <1>e, <2>1, <2>2, <2>4, <2>5
<1>9. ASSUME NEW h \in Handlers, Save(h) PROVE Inv'
  <2> DEFINE copy == handler[h].copy
             list == copy \ {handler[h].file}
  <2>1. /\ handler[h].call = "save"
        /\ downloads' = [downloads EXCEPT ![handler[h].client] = list]
        /\ Spoil(handler[h].client, copy)
        /\ handler' = [handler EXCEPT ![h] = Idle]
        /\ UNCHANGED <<owner, uploading, accepted, announced, through, serial,
                       failures>>
    BY <1>9 DEF Save, At, End, uploads, Remaining
  <2>2. /\ handler[h].client \in Clients
        /\ copy \in SUBSET Files /\ Cardinality(copy) <= MaxDownloads
    BY <1>a, <2>1 DEF Sound, States
  <2>3. list \in SUBSET Files /\ Cardinality(list) <= MaxDownloads
    <3>1. list \in SUBSET copy
      OBVIOUS
    <3>2. Cardinality(list) <= Cardinality(copy)
      BY <2>2, <3>1, FilesTyped
    <3>3. Cardinality(copy) \in Nat /\ Cardinality(list) \in Nat
      BY <2>2, <3>1, FilesTyped
    <3> QED  BY <2>2, <3>1, <3>2, <3>3
  <2> HIDE DEF list
  <2>4. downloads' \in [Clients -> SUBSET Files] /\ DownloadsBounded'
    BY <1>a, <1>b, <2>1, <2>3 DEF DownloadsBounded
  <2>5. \A d \in Clients : UploadsAndPending(d)'
    BY <1>b, <1>d, <2>1, IdleSound
  <2>6. Sound(handler[h])'
    BY <1>a, <2>1, IdleSound DEF TypeOK, Sound
  <2>7. spoiled' \in SUBSET Clients
    BY <1>s, <2>1, <2>2
  <2> QED
    BY <1>a, <1>b, <2>1, <2>4, <2>5, <2>6, <2>7, IdleSound, InvFrom
<1>10. ASSUME NEW h \in Handlers, NEW c \in Clients, Register(h, c) PROVE Inv'
  <2>1. /\ handler' = [handler EXCEPT ![h] = Idle]
        /\ downloads' = [downloads EXCEPT ![c] = {}]
        /\ through' \in SUBSET Files /\ spoiled' \in SUBSET Clients
        /\ UNCHANGED <<owner, uploading, accepted, announced, serial, failures>>
    BY <1>10, <1>b DEF Register, Begin
  <2>2. Cardinality({}) <= MaxDownloads
    BY FS_EmptySet
  <2>3. downloads' \in [Clients -> SUBSET Files] /\ DownloadsBounded'
    BY <1>a, <1>b, <2>1, <2>2 DEF DownloadsBounded
  <2>4. \A d \in Clients : UploadsAndPending(d)'
    BY <1>b, <1>d, <2>1, IdleSound
  <2>5. Sound(handler[h])'
    BY <1>a, <2>1, IdleSound DEF TypeOK, Sound
  <2> QED
    BY <1>a, <1>b, <2>1, <2>3, <2>4, <2>5, IdleSound, InvFrom
<1>11. ASSUME NEW h \in Handlers, Abort(h) PROVE Inv'
  <2>1. /\ handler' = [handler EXCEPT ![h] = Idle]
        /\ UNCHANGED <<uploads, downloads, spoiled, serial>>
        /\ failures' = failures + 1 /\ failures' \in 0 .. MaxFailures
    BY <1>11, <1>c DEF Abort, End
  <2> QED  BY <1>b, <1>e, <2>1, IdleSound DEF uploads
<1>12. CASE UNCHANGED vars
  <2>1. /\ TypeOK' /\ DownloadsBounded'
        /\ UNCHANGED <<owner, uploading, accepted, handler, serial, failures>>
    BY <1>a, <1>12 DEF vars, uploads, TypeOK, DownloadsBounded
  <2>2. \A h \in Handlers : Sound(handler[h])'
    BY <1>a, <2>1 DEF Sound
  <2>3. \A c \in Clients : Of(c, uploading)' = Of(c, uploading)
                           /\ Pending(c)' = Pending(c)
    BY <2>1 DEF Of, Pending
  <2>4. Overlap' = Overlap
    BY <2>1 DEF Overlap
  <2> QED
    BY <1>a, <2>1, <2>2, <2>3, <2>4 DEF Inv, UploadsAndPending
<1> QED
  BY <1>1, <1>2, <1>3, <1>4, <1>5, <1>6, <1>7, <1>8, <1>9, <1>10, <1>11, <1>12
  DEF Next

(* Everything an overlapping or failing handler leaves behind keeps its      *)
(* type, and an upload that says "uploading" is someone's.                   *)
THEOREM TypeCorrect == Spec => []TypeOK
<1>1. Inv => TypeOK
  BY DEF Inv
<1> QED  BY <1>1, InvInit, InvStep, PTL DEF Spec

(* The limit of uploads is exceeded by no more than overlapping requests and *)
(* failing reads add.                                                        *)
THEOREM UploadsStayBounded == Spec => []UploadsBounded
<1>1. Inv => UploadsBounded
  <2> SUFFICES ASSUME Inv, NEW c \in Clients
               PROVE  Cardinality(Of(c, uploading))
                        <= MaxUploads - 1 + Overlap + failures
    BY DEF UploadsBounded
  <2>1. /\ Cardinality(Of(c, uploading)) \in Nat
        /\ Cardinality(Pending(c)) \in Nat /\ Overlap \in Nat
        /\ failures \in Nat /\ MaxUploads \in Nat
    BY OfTyped, PendingTyped, OverlapTyped, ConstantsAssumption DEF Inv, TypeOK
  <2> QED  BY <2>1 DEF Inv, UploadsAndPending
<1> QED  BY <1>1, InvInit, InvStep, PTL DEF Spec

(* The limit of downloads is never exceeded, however handlers overlap.       *)
THEOREM DownloadsStayBounded == Spec => []DownloadsBounded
<1>1. Inv => DownloadsBounded
  BY DEF Inv
<1> QED  BY <1>1, InvInit, InvStep, PTL DEF Spec

-----------------------------------------------------------------------------
(* What a lost update costs: a handler that takes a file off, however late, *)
(* takes off one that its receiver is through with.                         *)
Listed ==
  /\ AcceptedStaysListed
  /\ \A h \in Handlers :
       handler[h].call = "save" => handler[h].file \in through \cup {None}

LEMMA ListedInit == Init => Listed
BY IdleSound DEF Init, Listed, AcceptedStaysListed

LEMMA ListedStep == Inv /\ Listed /\ [Next]_vars => Listed'
<1> SUFFICES ASSUME Inv, Listed, [Next]_vars PROVE Listed'
  OBVIOUS
<1>a. /\ handler \in [Handlers -> States]
      /\ downloads \in [Clients -> SUBSET Files]
      /\ owner \in [Files -> Clients \cup {None}]
      /\ accepted \in SUBSET Files /\ through \in SUBSET Files
      /\ \A h \in Handlers : Sound(handler[h])
      /\ \A f \in accepted : owner[f] # None /\ Partner[owner[f]] \in Clients
      /\ None \notin Files
  BY ConstantsAssumption DEF Inv, TypeOK
<1>b. /\ AcceptedStaysListed
      /\ \A h \in Handlers :
           handler[h].call = "save" => handler[h].file \in through \cup {None}
  BY DEF Listed
<1>k. ASSUME NEW h \in Handlers, NEW state, handler' = [handler EXCEPT ![h] = state],
             state.call = "save" => state.file \in through' \cup {None},
             through \subseteq through', AcceptedStaysListed'
      PROVE  Listed'
  BY <1>a, <1>b, <1>k DEF Listed
<1>l. ASSUME UNCHANGED <<owner, accepted, downloads, spoiled>>,
             through \subseteq through'
      PROVE  AcceptedStaysListed'
  BY <1>b, <1>l DEF AcceptedStaysListed
<1>1. ASSUME NEW h \in Handlers,
             \/ \E c \in Clients : ReadUploads(h, c)
             \/ ReadSender(h) \/ Offer(h) \/ Respond(h) \/ Abort(h)
      PROVE  Listed'
  <2>1. UNCHANGED <<owner, accepted, downloads, spoiled, through>>
    <3>1. CASE \E c \in Clients : ReadUploads(h, c)
      BY <3>1 DEF ReadUploads, uploads
    <3>2. CASE ReadSender(h) \/ Offer(h) \/ Respond(h) \/ Abort(h)
      BY <3>2 DEF ReadSender, Offer, Respond, Abort, uploads
    <3> QED  BY <1>1, <3>1, <3>2
  <2>2. AcceptedStaysListed' /\ through \subseteq through'
    BY <1>l, <2>1
  <2>3. \E state : handler' = [handler EXCEPT ![h] = state] /\ state.call # "save"
    <3> DEFINE old == handler[h]
               Goal == \E state : /\ handler' = [handler EXCEPT ![h] = state]
                                  /\ state.call # "save"
    <3>1. old \in States
      BY <1>a
    <3>2. ASSUME NEW c \in Clients, ReadUploads(h, c) PROVE Goal
      <4>1. PICK seen \in {uploading, {}} :
              handler' = [handler EXCEPT ![h] =
                [Idle EXCEPT !.call = "sender", !.client = c, !.seen = seen]]
        BY <3>2 DEF ReadUploads, Begin
      <4>2. [Idle EXCEPT !.call = "sender", !.client = c, !.seen = seen].call
              # "save"
        BY DEF Idle
      <4> QED  BY <4>1, <4>2
    <3>3. ASSUME ReadSender(h) PROVE Goal
      <4>1. \/ handler' = [handler EXCEPT ![h] = [old EXCEPT !.call = "store"]]
            \/ handler' = [handler EXCEPT ![h] = Idle]
        BY <3>3 DEF ReadSender, Goto, End
      <4>2. [old EXCEPT !.call = "store"].call # "save" /\ Idle.call # "save"
        BY <3>1, IdleSound DEF States
      <4> QED  BY <4>1, <4>2
    <3>4. ASSUME Offer(h) PROVE Goal
      <4> DEFINE new == [old EXCEPT !.call = "respond", !.seen = {}]
                 next == [new EXCEPT !.call = "accept",
                                     !.copy = downloads[Partner[old.client]]]
      <4>1. handler' \in {[handler EXCEPT ![h] = new], [handler EXCEPT ![h] = Idle],
                          [handler EXCEPT ![h] = next]}
        BY <3>4 DEF Offer, End
      <4>2. new.call # "save" /\ next.call # "save" /\ Idle.call # "save"
        BY <3>1, IdleSound DEF States
      <4> HIDE DEF new, next
      <4> QED  BY <4>1, <4>2
    <3>5. ASSUME Respond(h) \/ Abort(h) PROVE Goal
      BY <3>5, IdleSound DEF Respond, Abort, End
    <3> HIDE DEF Goal
    <3>6. Goal
      BY <1>1, <3>2, <3>3, <3>4, <3>5
    <3> QED  BY <3>6 DEF Goal
  <2> QED  BY <1>k, <2>2, <2>3
<1>2. ASSUME NEW h \in Handlers, NEW f \in Files, Store(h, f) PROVE Listed'
  <2> DEFINE new == [handler[h] EXCEPT !.call = "offer", !.file = f]
  <2>1. /\ owner[f] = None /\ handler' = [handler EXCEPT ![h] = new]
        /\ owner' = [owner EXCEPT ![f] = handler[h].client]
        /\ UNCHANGED <<accepted, through, downloads, spoiled>>
    BY <1>2 DEF Store, Uploader
  <2>2. new.call = "offer"
    BY <1>a DEF States
  <2> HIDE DEF new
  <2>3. \A g \in accepted : owner'[g] = owner[g]
    BY <1>a, <2>1
  <2>4. AcceptedStaysListed'
    BY <1>b, <2>1, <2>3 DEF AcceptedStaysListed
  <2> QED  BY <1>k, <2>1, <2>2, <2>4
<1>3. ASSUME NEW h \in Handlers, Accept(h) PROVE Listed'
  <2> DEFINE new == [handler[h] EXCEPT !.call = "respond", !.copy = {}]
  <2>1. PICK r \in Clients, f \in Files :
          /\ r = Partner[handler[h].client] /\ f = handler[h].file
          /\ Partner[owner[f]] = r
    BY <1>3, <1>a, ConstantsAssumption DEF Accept, At, Sound, States
  <2>2. /\ downloads' = [downloads EXCEPT ![r] = handler[h].copy \cup {f}]
        /\ accepted' = accepted \cup {f}
        /\ spoiled' = IF downloads[r] = handler[h].copy THEN spoiled
                                                        ELSE spoiled \cup {r}
        /\ handler' = [handler EXCEPT ![h] = new]
        /\ UNCHANGED <<owner, through>>
    BY <1>3, <2>1 DEF Accept, Entered, Spoil
  <2>3. new.call = "respond"
    BY <1>a DEF States
  <2> HIDE DEF new
  <2>4. /\ downloads'[r] = handler[h].copy \cup {f}
        /\ \A c \in Clients \ {r} : downloads'[c] = downloads[c]
    BY <1>a, <2>2
  <2>5. ASSUME NEW g \in accepted', g \notin through', Partner[owner'[g]] \notin spoiled'
        PROVE  g \in downloads'[Partner[owner'[g]]]
    <3>1. owner'[g] = owner[g] /\ Partner[owner[g]] \notin spoiled /\ g \notin through
      BY <2>2, <2>5
    <3>2. CASE Partner[owner[g]] = r
      <4>1. downloads[r] = handler[h].copy
        BY <2>2, <2>5, <3>1, <3>2
      <4>2. g = f \/ g \in downloads[r]
        BY <1>b, <2>2, <3>1, <3>2 DEF AcceptedStaysListed
      <4> QED  BY <2>4, <3>1, <3>2, <4>1, <4>2
    <3>3. CASE Partner[owner[g]] # r
      <4>1. g \in accepted
        BY <2>1, <2>2, <3>3
      <4> QED  BY <1>a, <1>b, <2>4, <3>1, <3>3, <4>1 DEF AcceptedStaysListed
    <3> QED  BY <3>2, <3>3
  <2>6. AcceptedStaysListed'
    BY <2>5 DEF AcceptedStaysListed
  <2> QED  BY <1>k, <2>2, <2>3, <2>6
<1>4. ASSUME NEW h \in Handlers, Save(h) PROVE Listed'
  <2>1. PICK c \in Clients, copy \in SUBSET Files, f \in Files \cup {None} :
          c = handler[h].client /\ copy = handler[h].copy /\ f = handler[h].file
    BY <1>4, <1>a DEF Save, At, Sound, States
  <2>2. /\ downloads' = [downloads EXCEPT ![c] = copy \ {f}]
        /\ spoiled' = IF downloads[c] = copy THEN spoiled ELSE spoiled \cup {c}
        /\ handler' = [handler EXCEPT ![h] = Idle]
        /\ UNCHANGED <<owner, accepted, through>>
    BY <1>4, <2>1 DEF Save, End, Remaining, Spoil, uploads
  <2>3. f \in through \cup {None}
    BY <1>4, <1>b, <2>1 DEF Save, At
  <2>4. /\ downloads'[c] = copy \ {f}
        /\ \A d \in Clients \ {c} : downloads'[d] = downloads[d]
    BY <1>a, <2>2
  <2>5. ASSUME NEW g \in accepted, g \notin through, Partner[owner[g]] \notin spoiled'
        PROVE  g \in downloads'[Partner[owner[g]]]
    <3>1. g \in downloads[Partner[owner[g]]] /\ g # f
      BY <1>a, <1>b, <2>2, <2>3, <2>5 DEF AcceptedStaysListed
    <3>2. CASE Partner[owner[g]] = c
      BY <2>2, <2>4, <2>5, <3>1, <3>2
    <3>3. CASE Partner[owner[g]] # c
      BY <1>a, <2>4, <3>1, <3>3
    <3> QED  BY <3>2, <3>3
  <2>6. AcceptedStaysListed'
    BY <2>2, <2>5 DEF AcceptedStaysListed
  <2> QED  BY <1>k, <2>2, <2>6, IdleSound
<1>5. ASSUME NEW h \in Handlers, NEW c \in Clients, NEW f \in Files, TakeOff(h, c, f)
      PROVE  Listed'
  <2> DEFINE new == Saving(c, f)
  <2>1. /\ handler' = [handler EXCEPT ![h] = new] /\ through' = through \cup {f}
        /\ UNCHANGED <<owner, accepted, downloads, spoiled>>
    BY <1>5 DEF TakeOff, Begin
  <2>2. new.file = f
    BY DEF Saving, Idle
  <2> HIDE DEF new
  <2> QED  BY <1>k, <1>l, <2>1, <2>2
<1>6. ASSUME NEW h \in Handlers, NEW c \in Clients, Touch(h, c) PROVE Listed'
  <2> DEFINE new == Saving(c, None)
  <2>1. /\ handler' = [handler EXCEPT ![h] = new]
        /\ UNCHANGED <<owner, accepted, downloads, spoiled, through>>
    BY <1>6 DEF Touch, Begin, uploads
  <2>2. new.file = None
    BY DEF Saving, Idle
  <2> HIDE DEF new
  <2> QED  BY <1>k, <1>l, <2>1, <2>2
<1>7. ASSUME NEW h \in Handlers, NEW c \in Clients, Register(h, c) PROVE Listed'
  <2>1. /\ handler' = [handler EXCEPT ![h] = Idle]
        /\ downloads' = [downloads EXCEPT ![c] = {}]
        /\ through' = through \cup {f \in accepted : Partner[owner[f]] = c}
        /\ spoiled' = spoiled \ {c}
        /\ UNCHANGED <<owner, accepted>>
    BY <1>7 DEF Register, Begin
  <2>2. AcceptedStaysListed'
    BY <1>a, <1>b, <2>1 DEF AcceptedStaysListed
  <2> QED  BY <1>k, <2>1, <2>2, IdleSound
<1>8. CASE (\E f \in Files : Finish(f) \/ Expire(f)) \/ UNCHANGED vars
  <2>1. UNCHANGED <<owner, accepted, downloads, spoiled, through, handler>>
    BY <1>8 DEF Finish, Expire, vars, uploads
  <2> QED  BY <1>b, <1>l, <2>1 DEF Listed
<1> QED  BY <1>1, <1>2, <1>3, <1>4, <1>5, <1>6, <1>7, <1>8 DEF Next

(* A receiver stays entered in the downloads that decide whether it is sent  *)
(* the chunks, however handlers overlap, until it is through with the file   *)
(* or an update of its own session is lost.                                  *)
THEOREM AcceptedAlwaysListed == Spec => []AcceptedStaysListed
<1>1. Inv /\ Listed /\ [Next]_vars => (Inv /\ Listed)'
  BY InvStep, ListedStep
<1>2. Inv /\ Listed => AcceptedStaysListed
  BY DEF Listed
<1> QED  BY <1>1, <1>2, InvInit, ListedInit, PTL DEF Spec

-----------------------------------------------------------------------------
(* Handlers that do not overlap.                                            *)

Alone ==
  \A g, h \in Handlers : handler[g] # Idle /\ handler[h] # Idle => g = h

Transfers(c) == Cardinality(Of(c, uploading)) + Cardinality(downloads[c])

Room(c) == Transfers(c) < MaxTransfers + failures

(* What has been read leaves no upload out, or leaving some out was counted *)
(* as a failure.                                                            *)
Seen(c, seen) == Of(c, uploading) \subseteq seen \/ Room(c)

(* What the handler under way has read is still there, and what it is about *)
(* to add fits.                                                             *)
Ordered(state) ==
  LET c == state.client
      r == Partner[c]
  IN  /\ state.call = "sender" => Seen(c, state.seen)
      /\ state.call = "store" => Room(c)
      /\ state.call \in {"sender", "store", "offer"} /\ r # None =>
           Seen(r, state.seen)
      /\ state.call = "accept" => Room(r) /\ state.copy = downloads[r]
      /\ state.call = "save" => state.copy = downloads[c]

SerialInv ==
  serial =>
    /\ Alone
    /\ \A h \in Handlers : Ordered(handler[h])
    /\ \A c \in Clients : Transfers(c) <= MaxTransfers + failures

LEMMA TransfersTyped ==
  ASSUME TypeOK, NEW c \in Clients
  PROVE  /\ Cardinality(Of(c, uploading)) \in Nat
         /\ Cardinality(downloads[c]) \in Nat
         /\ Transfers(c) \in Nat /\ failures \in Nat
<1>1. uploading \in SUBSET Files /\ downloads[c] \in SUBSET Files
  BY DEF TypeOK
<1> QED  BY <1>1, OfTyped, FilesTyped DEF Transfers, TypeOK

(* A step after which a client has no upload and no download more.          *)
LEMMA NoMore ==
  ASSUME TypeOK, TypeOK', NEW c \in Clients,
         Of(c, uploading)' \in SUBSET Of(c, uploading),
         downloads'[c] \in SUBSET downloads[c],
         failures' \in {failures, failures + 1}
  PROVE  /\ Transfers(c)' <= Transfers(c)
         /\ Transfers(c) <= MaxTransfers + failures =>
              Transfers(c)' <= MaxTransfers + failures'
         /\ Room(c) => Room(c)'
         /\ \A seen : Seen(c, seen) => Seen(c, seen)'
<1>1. uploading \in SUBSET Files /\ downloads[c] \in SUBSET Files
  BY DEF TypeOK
<1>2. Cardinality(Of(c, uploading)') <= Cardinality(Of(c, uploading))
  BY <1>1, OfTyped, FS_Subset
<1>3. Cardinality(downloads'[c]) <= Cardinality(downloads[c])
  BY <1>1, FilesTyped
<1>4. /\ Cardinality(Of(c, uploading)') \in Nat
      /\ Cardinality(downloads'[c]) \in Nat
  <2>1. Of(c, uploading)' \in SUBSET Files /\ downloads'[c] \in SUBSET Files
    BY <1>1, OfTyped
  <2> QED  BY <2>1, FilesTyped
<1>5. /\ Transfers(c)' <= Transfers(c) /\ Transfers(c)' \in Nat
      /\ Transfers(c) \in Nat /\ failures \in Nat
  BY <1>2, <1>3, <1>4, TransfersTyped DEF Transfers
<1>6. MaxTransfers \in Nat
  BY ConstantsAssumption
<1>7. Room(c) => Room(c)'
  BY <1>5, <1>6 DEF Room
<1> QED  BY <1>5, <1>6, <1>7 DEF Seen

(* A check against what has been seen is one against what there is.         *)
LEMMA FitsIsRoom ==
  ASSUME TypeOK, NEW c \in Clients, NEW seen \in SUBSET Files, Seen(c, seen),
         TransferFits(c, seen, downloads[c])
  PROVE  Room(c)
<1>1. CASE Of(c, uploading) \subseteq seen
  <2>1. Of(c, uploading) \in SUBSET Of(c, seen)
    BY <1>1 DEF Of
  <2>2. Cardinality(Of(c, uploading)) <= Cardinality(Of(c, seen))
    BY <2>1, OfTyped, FS_Subset
  <2>3. /\ Cardinality(Of(c, seen)) \in Nat
        /\ Cardinality(Of(c, seen)) + Cardinality(downloads[c]) < MaxTransfers
    BY OfTyped DEF TransferFits
  <2> QED
    BY <2>2, <2>3, TransfersTyped, ConstantsAssumption DEF Room, Transfers
<1> QED  BY <1>1 DEF Seen

(* While only h is under way, what SerialInv says of it is left to show.    *)
LEMMA SerialFrom ==
  ASSUME NEW h \in Handlers,
         \A g \in Handlers \ {h} : handler'[g] = Idle,
         Ordered(handler[h])',
         \A c \in Clients : (Transfers(c) <= MaxTransfers + failures)'
  PROVE  SerialInv'
<1>1. Alone'
  BY DEF Alone
<1>2. \A g \in Handlers : Ordered(handler[g])'
  BY IdleSound DEF Ordered
<1> QED  BY <1>1, <1>2 DEF SerialInv

LEMMA SerialRests == [Next]_vars => serial' = serial
<1> SUFFICES ASSUME [Next]_vars PROVE serial' = serial
  OBVIOUS
<1>1. ASSUME NEW h \in Handlers,
             ReadSender(h) \/ Offer(h) \/ Accept(h) \/ Respond(h) \/ Save(h) \/ Abort(h)
      PROVE  serial' = serial
  BY <1>1 DEF ReadSender, Offer, Accept, Respond, Save, Abort
<1>2. ASSUME NEW h \in Handlers, NEW f \in Files, Store(h, f) PROVE serial' = serial
  BY <1>2 DEF Store
<1>3. ASSUME NEW h \in Handlers, NEW c \in Clients,
             ReadUploads(h, c) \/ Touch(h, c) \/ Register(h, c)
      PROVE  serial' = serial
  BY <1>3 DEF ReadUploads, Touch, Register
<1>4. ASSUME NEW h \in Handlers, NEW c \in Clients, NEW f \in Files, TakeOff(h, c, f)
      PROVE  serial' = serial
  BY <1>4 DEF TakeOff
<1>5. ASSUME NEW f \in Files, Finish(f) \/ Expire(f) PROVE serial' = serial
  BY <1>5 DEF Finish, Expire
<1>6. CASE UNCHANGED vars
  BY <1>6 DEF vars
<1> QED  BY <1>1, <1>2, <1>3, <1>4, <1>5, <1>6 DEF Next

LEMMA SerialInit == Init => SerialInv
<1> SUFFICES ASSUME Init PROVE SerialInv
  OBVIOUS
<1>1. Alone /\ \A h \in Handlers : Ordered(handler[h])
  BY IdleSound DEF Init, Alone, Ordered
<1>2. ASSUME NEW c \in Clients PROVE Transfers(c) <= MaxTransfers + failures
  <2>1. Of(c, uploading) = {} /\ downloads[c] = {}
    BY DEF Init, Of
  <2> QED  BY <2>1, FS_EmptySet, ConstantsAssumption DEF Init, Transfers
<1> QED  BY <1>1, <1>2 DEF SerialInv

LEMMA SerialStep == Inv /\ Inv' /\ SerialInv /\ [Next]_vars => SerialInv'
<1> SUFFICES ASSUME Inv, Inv', SerialInv, [Next]_vars, serial'
             PROVE  SerialInv'
  BY DEF SerialInv
<1> USE ConstantsAssumption
<1>a. serial /\ UNCHANGED serial
  BY SerialRests
<1>b. /\ Alone
      /\ \A h \in Handlers : Ordered(handler[h])
      /\ \A c \in Clients : Transfers(c) <= MaxTransfers + failures
  BY <1>a DEF SerialInv
<1>c. /\ TypeOK /\ TypeOK'
      /\ \A h \in Handlers : Sound(handler[h]) /\ handler[h] \in States
      /\ \A f \in accepted :
           owner[f] \in Clients /\ Partner[owner[f]] \in Clients
      /\ handler \in [Handlers -> States] /\ failures \in Nat
      /\ downloads \in [Clients -> SUBSET Files] /\ uploading \in SUBSET Files
      /\ owner \in [Files -> Clients \cup {None}]
      /\ accepted \in SUBSET Files
  BY DEF Inv, TypeOK
(* A handler begins when all are idle, and goes on when the others are.     *)
<1>d. ASSUME NEW h \in Handlers, NEW state,
             handler' = [handler EXCEPT ![h] = state],
             (\A g \in Handlers : handler[g] = Idle) \/ handler[h].call # "none"
      PROVE  /\ \A g \in Handlers \ {h} : handler'[g] = Idle
             /\ handler'[h] = state
  BY <1>b, <1>c, <1>d, IdleSound DEF Alone
(* What steps that leave uploads and downloads alone, or lessen them, keep. *)
<1>e. ASSUME UNCHANGED <<owner, uploading, downloads>>,
             failures' \in {failures, failures + 1}, NEW c \in Clients
      PROVE  /\ (Transfers(c) <= MaxTransfers + failures)'
             /\ Room(c) => Room(c)'
             /\ \A seen : Seen(c, seen) => Seen(c, seen)'
             /\ failures' = failures + 1 => Room(c)'
  <2>1. Of(c, uploading)' = Of(c, uploading) /\ downloads'[c] = downloads[c]
    BY <1>e DEF Of
  <2>2. Transfers(c)' = Transfers(c) /\ Transfers(c) \in Nat
    BY <1>c, <2>1, TransfersTyped DEF Transfers
  <2>3. Transfers(c) <= MaxTransfers + failures
    BY <1>b
  <2> QED  BY <1>b, <1>c, <1>e, <2>1, <2>2, <2>3, NoMore DEF Room
<1>1. ASSUME NEW h \in Handlers, NEW c \in Clients, ReadUploads(h, c)
      PROVE  SerialInv'
  <2>1. PICK seen \in {uploading, {}} :
          /\ Read(uploading, seen)
          /\ Begin(h, [Idle EXCEPT !.call = "sender", !.client = c,
                                   !.seen = seen])
    BY <1>1 DEF ReadUploads
  <2> DEFINE new == [Idle EXCEPT !.call = "sender", !.client = c, !.seen = seen]
  <2>2. new.call = "sender" /\ new.client = c /\ new.seen = seen
    BY DEF Idle
  <2> HIDE DEF new
  <2>3. /\ \A g \in Handlers \ {h} : handler'[g] = Idle
        /\ handler'[h] = new
        /\ UNCHANGED <<owner, uploading, downloads, accepted, through>>
        /\ failures' \in {failures, failures + 1}
    <3>1. Begin(h, new) /\ UNCHANGED uploads /\ UNCHANGED downloads
      BY <1>1, <2>1 DEF ReadUploads, new
    <3>2. failures' \in {failures, failures + 1}
      BY <2>1 DEF Read, Fails
    <3>3. /\ \A g \in Handlers \ {h} : handler'[g] = Idle
          /\ handler'[h] = new
      BY <1>a, <1>d, <3>1 DEF Begin
    <3>4. UNCHANGED <<owner, uploading, downloads, accepted, through>>
      BY <3>1 DEF uploads
    <3> QED  BY <3>2, <3>3, <3>4
  <2>4. ASSUME NEW d \in Clients PROVE Seen(d, seen)'
    <3>1. CASE seen = uploading
      BY <2>3, <3>1 DEF Seen, Of
    <3>2. CASE seen # uploading
      <4>1. failures' = failures + 1
        BY <2>1, <3>2 DEF Read, Fails
      <4> QED  BY <1>e, <2>3, <4>1 DEF Seen
    <3> QED  BY <3>1, <3>2
  <2>5. Ordered(handler[h])'
    BY <2>2, <2>3, <2>4 DEF Ordered
  <2> QED  BY <1>e, <2>3, <2>5, SerialFrom
<1>2. ASSUME NEW h \in Handlers, ReadSender(h) PROVE SerialInv'
  <2>1. /\ handler[h].call = "sender"
        /\ UNCHANGED <<owner, uploading, downloads, accepted, through>>
    BY <1>2 DEF ReadSender, At, uploads
  <2>4. PICK c \in Clients, seen \in SUBSET Files :
          c = handler[h].client /\ seen = handler[h].seen
    BY <1>c, <2>1 DEF Sound, States
  <2> DEFINE r   == Partner[c]
             new == [handler[h] EXCEPT !.call = "store"]
  <2>2. PICK files \in {downloads[c], {}} :
          /\ Read(downloads[c], files)
          /\ \/ TransferFits(c, seen, files) /\ Goto(h, "store")
             \/ End(h)
    BY <1>2, <2>4 DEF ReadSender
  <2>3. /\ UNCHANGED <<owner, uploading, downloads>>
        /\ failures' \in {failures, failures + 1}
    BY <2>1, <2>2 DEF Read, Fails
  <2>5. CASE End(h)
    <3>1. /\ \A g \in Handlers \ {h} : handler'[g] = Idle
          /\ handler'[h] = Idle
      BY <1>d, <2>1, <2>5 DEF End
    <3>2. Ordered(handler[h])'
      BY <3>1, IdleSound DEF Ordered
    <3> QED  BY <1>e, <2>1, <2>3, <3>1, <3>2, SerialFrom
  <2>6. CASE TransferFits(c, seen, files) /\ Goto(h, "store")
    <3>1. /\ \A g \in Handlers \ {h} : handler'[g] = Idle
          /\ handler'[h] = new
      BY <1>d, <2>1, <2>6 DEF Goto
    <3>2. /\ new.call = "store" /\ new.client = c
          /\ new.seen = seen
      BY <1>c, <2>4 DEF States
    <3> HIDE DEF new
    <3>3. Seen(c, seen) /\ (r # None => Seen(r, seen))
      BY <1>b, <2>1, <2>4 DEF Ordered
    <3>4. Room(c)'
      <4>1. CASE files = downloads[c]
        <5>1. Room(c)
          BY <1>c, <2>4, <2>6, <3>3, <4>1, FitsIsRoom
        <5> QED  BY <1>e, <2>3, <2>4, <5>1
      <4>2. CASE files # downloads[c]
        <5>1. failures' = failures + 1
          BY <2>2, <4>2 DEF Read, Fails
        <5> QED  BY <1>e, <2>3, <2>4, <5>1
      <4> QED  BY <4>1, <4>2
    <3>5. r # None => Seen(r, seen)'
      <4>1. r \in Clients \cup {None}
        BY <2>4
      <4> QED  BY <1>e, <2>3, <3>3, <4>1
    <3>6. Ordered(handler[h])'
      BY <3>1, <3>2, <3>4, <3>5 DEF Ordered
    <3> QED  BY <1>e, <2>1, <2>3, <3>1, <3>6, SerialFrom
  <2> QED  BY <2>2, <2>5, <2>6
<1>3. ASSUME NEW h \in Handlers, NEW f \in Files, Store(h, f) PROVE SerialInv'
  <2>1. PICK c \in Clients, seen \in SUBSET Files :
          c = handler[h].client /\ seen = handler[h].seen
    BY <1>3, <1>c DEF Store, At, Sound, States
  <2> DEFINE r   == Partner[c]
             new == [handler[h] EXCEPT !.call = "offer", !.file = f]
  <2>2. /\ handler[h].call = "store" /\ owner[f] = None
        /\ owner' = [owner EXCEPT ![f] = c]
        /\ \/ uploading' = uploading \cup {f} /\ UNCHANGED failures
           \/ Fails /\ UNCHANGED uploading
        /\ handler' = [handler EXCEPT ![h] = new]
        /\ UNCHANGED <<accepted, through, downloads>>
    BY <1>3, <2>1 DEF Store, Uploader, At
  <2>3. failures' \in {failures, failures + 1}
    BY <2>2 DEF Fails
  <2>4. /\ new.call = "offer" /\ new.client = c /\ new.seen = seen
    BY <1>c, <2>1 DEF States
  <2> HIDE DEF new
  <2>5. /\ \A g \in Handlers \ {h} : handler'[g] = Idle
        /\ handler'[h] = new
    BY <1>d, <2>2
  <2>6. /\ owner'[f] = c /\ f \notin uploading /\ f \notin accepted
        /\ \A g \in Files \ {f} : owner'[g] = owner[g]
    BY <1>c, <2>2 DEF TypeOK
  <2>7. Room(c) /\ (r # None => Seen(r, seen))
    BY <1>b, <2>1, <2>2 DEF Ordered
  <2>8. ASSUME NEW d \in Clients, d # c
        PROVE  /\ (Transfers(d) <= MaxTransfers + failures)'
               /\ \A files : Seen(d, files) => Seen(d, files)'
    <3>1. Of(d, uploading)' \in SUBSET Of(d, uploading)
      BY <1>c, <2>2, <2>6, <2>8 DEF Of
    <3> QED  BY <1>b, <1>c, <2>2, <2>3, <3>1, NoMore
  <2>9. (Transfers(c) <= MaxTransfers + failures)'
    <3>1. Of(c, uploading)' \in SUBSET (Of(c, uploading) \cup {f})
      BY <1>c, <2>2, <2>6 DEF Of
    <3>2. /\ IsFiniteSet(Of(c, uploading))
          /\ Cardinality(Of(c, uploading)) \in Nat
      BY <1>c, OfTyped
    <3>3. /\ IsFiniteSet(Of(c, uploading) \cup {f})
          /\ Cardinality(Of(c, uploading) \cup {f})
               = IF f \in Of(c, uploading) THEN Cardinality(Of(c, uploading))
                 ELSE Cardinality(Of(c, uploading)) + 1
      BY <3>2, FS_AddElement
    <3>4. /\ Cardinality(Of(c, uploading)')
               <= Cardinality(Of(c, uploading) \cup {f})
          /\ IsFiniteSet(Of(c, uploading)')
      BY <3>1, <3>3, FS_Subset
    <3>5. Cardinality(Of(c, uploading)') \in Nat
      BY <3>4, FS_CardinalityType
    <3>6. Cardinality(downloads[c])' = Cardinality(downloads[c])
      BY <2>2
    <3>7. /\ Cardinality(downloads[c]) \in Nat
          /\ Cardinality(Of(c, uploading)) + Cardinality(downloads[c])
               < MaxTransfers + failures
      BY <1>c, <2>7, TransfersTyped DEF Room, Transfers
    <3> QED
      BY <1>c, <2>3, <3>2, <3>3, <3>4, <3>5, <3>6, <3>7 DEF Transfers
  <2>10. r # None => Seen(r, seen)'
    <3>1. r # None => r \in Clients /\ r # c
      OBVIOUS
    <3> QED  BY <2>7, <2>8, <3>1
  <2>11. Ordered(handler[h])'
    BY <2>4, <2>5, <2>10 DEF Ordered
  <2> QED  BY <2>5, <2>8, <2>9, <2>11, SerialFrom
<1>4. ASSUME NEW h \in Handlers, Offer(h) PROVE SerialInv'
  <2>1. PICK c \in Clients, seen \in SUBSET Files :
          c = handler[h].client /\ seen = handler[h].seen
    BY <1>4, <1>c DEF Offer, At, Sound, States
  <2> DEFINE r    == Partner[c]
             new  == [handler[h] EXCEPT !.call = "respond", !.seen = {}]
             next == [new EXCEPT !.call = "accept", !.copy = downloads[r]]
  <2>2. /\ handler[h].call = "offer"
        /\ UNCHANGED <<owner, uploading, downloads, accepted, through>>
        /\ failures' \in {failures, failures + 1}
        /\ \/ handler' = [handler EXCEPT ![h] = new]
           \/ handler' = [handler EXCEPT ![h] = Idle]
           \/ /\ handler' = [handler EXCEPT ![h] = next]
              /\ r # None /\ TransferFits(r, seen, downloads[r])
    BY <1>4, <2>1 DEF Offer, At, End, ReceiverFits, uploads, Fails
  <2>3. /\ new.call = "respond" /\ next.call = "accept" /\ next.client = c
        /\ next.copy = downloads[r]
    BY <1>c, <2>1 DEF States
  <2> HIDE DEF new, next
  <2>4. ASSUME NEW state, handler' = [handler EXCEPT ![h] = state]
        PROVE  /\ \A g \in Handlers \ {h} : handler'[g] = Idle
               /\ handler'[h] = state
    BY <1>d, <2>2, <2>4
  <2>5. UNCHANGED <<owner, uploading, downloads>>
    BY <2>2
  <2>7. \A d \in Clients : (Transfers(d) <= MaxTransfers + failures)'
    BY <1>e, <2>2, <2>5
  <2>8. CASE handler' = [handler EXCEPT ![h] = new]
             \/ handler' = [handler EXCEPT ![h] = Idle]
    <3>1. /\ \A g \in Handlers \ {h} : handler'[g] = Idle
          /\ handler'[h] \in {new, Idle}
      BY <2>4, <2>8
    <3>2. Ordered(handler[h])'
      BY <2>3, <3>1, IdleSound DEF Ordered
    <3> QED  BY <2>7, <3>1, <3>2, SerialFrom
  <2>9. CASE /\ handler' = [handler EXCEPT ![h] = next]
             /\ r # None /\ TransferFits(r, seen, downloads[r])
    <3>1. r \in Clients
      BY <2>9
    <3>2. Seen(r, seen)
      BY <1>b, <2>1, <2>2, <2>9 DEF Ordered
    <3>3. Room(r)'
      <4>1. Room(r)
        BY <1>c, <2>9, <3>1, <3>2, FitsIsRoom
      <4> QED  BY <1>e, <2>2, <2>5, <3>1, <4>1
    <3>4. /\ \A g \in Handlers \ {h} : handler'[g] = Idle
          /\ handler'[h] = next
      BY <2>4, <2>9
    <3>5. Ordered(handler[h])'
      BY <2>3, <2>5, <3>3, <3>4 DEF Ordered
    <3> QED  BY <2>7, <3>4, <3>5, SerialFrom
  <2> QED  BY <2>2, <2>8, <2>9
<1>5. ASSUME NEW h \in Handlers, Accept(h) PROVE SerialInv'
  <2>1. PICK r \in Clients, f \in Files :
          /\ r = Partner[handler[h].client] /\ f = handler[h].file
          /\ Partner[owner[f]] = r
    BY <1>5, <1>c DEF Accept, At, Sound, States
  <2> DEFINE new  == [handler[h] EXCEPT !.call = "respond", !.copy = {}]
             list == downloads[r] \cup {f}
  <2>2. Room(r) /\ handler[h].copy = downloads[r]
    BY <1>5, <1>b, <2>1 DEF Accept, At, Ordered
  <2>3. /\ handler[h].call = "accept"
        /\ downloads' = [downloads EXCEPT ![r] = list]
        /\ accepted' = accepted \cup {f}
        /\ handler' = [handler EXCEPT ![h] = new]
        /\ UNCHANGED <<owner, uploading, through, failures>>
    BY <1>5, <2>1, <2>2 DEF Accept, At, Entered
  <2>4. new.call = "respond"
    BY <1>c DEF States
  <2> HIDE DEF new
  <2>5. /\ \A g \in Handlers \ {h} : handler'[g] = Idle
        /\ handler'[h] = new
    BY <1>d, <2>3
  <2>6. Ordered(handler[h])'
    BY <2>4, <2>5 DEF Ordered
  <2>8. ASSUME NEW d \in Clients
        PROVE  (Transfers(d) <= MaxTransfers + failures)'
    <3>1. Of(d, uploading)' = Of(d, uploading)
      BY <2>3 DEF Of
    <3>2. CASE d # r
      <4>1. downloads'[d] = downloads[d]
        BY <1>c, <2>3, <3>2
      <4> QED  BY <1>b, <2>3, <3>1, <4>1 DEF Transfers
    <3>3. CASE d = r
      <4>1. downloads'[r] = list
        BY <1>c, <2>3
      <4>2. IsFiniteSet(downloads[r]) /\ Cardinality(downloads[r]) \in Nat
        BY <1>c, FilesTyped
      <4>3. Cardinality(list) = IF f \in downloads[r]
                                THEN Cardinality(downloads[r])
                                ELSE Cardinality(downloads[r]) + 1
        BY <4>2, FS_AddElement
      <4> HIDE DEF list
      <4>4. /\ Cardinality(Of(r, uploading)) \in Nat
            /\ Cardinality(Of(r, uploading)) + Cardinality(downloads[r])
                 < MaxTransfers + failures
        BY <1>c, <2>2, TransfersTyped DEF Room, Transfers
      <4>5. Transfers(r)' = Cardinality(Of(r, uploading)) + Cardinality(list)
        BY <3>1, <3>3, <4>1 DEF Transfers
      <4> QED  BY <1>c, <2>3, <3>3, <4>2, <4>3, <4>4, <4>5
    <3> QED  BY <3>2, <3>3
  <2> QED  BY <2>5, <2>6, <2>8, SerialFrom
<1>6. ASSUME NEW h \in Handlers, Respond(h) PROVE SerialInv'
  <2>1. /\ handler[h].call = "respond"
        /\ handler' = [handler EXCEPT ![h] = Idle]
        /\ UNCHANGED <<owner, uploading, accepted, through, downloads, failures>>
    BY <1>6 DEF Respond, At, End
  <2>2. /\ \A g \in Handlers \ {h} : handler'[g] = Idle
        /\ handler'[h] = Idle
    BY <1>d, <2>1
  <2>3. Ordered(handler[h])'
    BY <2>2, IdleSound DEF Ordered
  <2>4. UNCHANGED <<owner, uploading, downloads>>
    BY <2>1
  <2> QED  BY <1>e, <2>1, <2>2, <2>3, <2>4, SerialFrom
<1>7. ASSUME NEW f \in Files, Finish(f) \/ Expire(f) PROVE SerialInv'
  <2>1. /\ uploading' = uploading \ {f}
        /\ UNCHANGED <<owner, accepted, through, downloads, handler, failures>>
    BY <1>7 DEF Finish, Expire
  <2>2. ASSUME NEW c \in Clients
        PROVE  /\ (Transfers(c) <= MaxTransfers + failures)'
               /\ Room(c) => Room(c)'
               /\ \A seen : Seen(c, seen) => Seen(c, seen)'
    <3>1. Of(c, uploading)' \in SUBSET Of(c, uploading)
      BY <2>1 DEF Of
    <3> QED  BY <1>b, <1>c, <2>1, <3>1, NoMore
  <2>3. ASSUME NEW h \in Handlers PROVE Ordered(handler[h])'
    <3>1. CASE handler[h].call = "none"
      BY <2>1, <3>1 DEF Ordered
    <3>2. CASE handler[h].call # "none"
      <4>1. PICK c \in Clients, seen \in SUBSET Files :
              c = handler[h].client /\ seen = handler[h].seen
        BY <1>c, <3>2 DEF Sound, States
      <4>2. Partner[c] \in Clients \cup {None}
        OBVIOUS
      <4>3. handler[h].call = "accept" => Partner[c] # None
        BY <1>c, <4>1 DEF Sound
      <4>4. c' = c /\ handler'[h] = handler[h]
        BY <2>1
      <4>5. Ordered(handler[h])
        BY <1>b
      <4> QED  BY <2>1, <2>2, <4>1, <4>2, <4>3, <4>4, <4>5 DEF Ordered
    <3> QED  BY <3>1, <3>2
  <2> QED
    BY <1>b, <2>1, <2>2, <2>3 DEF SerialInv, Alone
<1>8. ASSUME NEW h \in Handlers, NEW c \in Clients,
             (\E f \in Files : TakeOff(h, c, f)) \/ Touch(h, c)
      PROVE  SerialInv'
  <2>1. UNCHANGED <<owner, uploading, downloads, failures>>
    BY <1>8, BeginsSaving
  <2>f. PICK f \in Files \cup {None} : Begin(h, Saving(c, f))
    BY <1>8, BeginsSaving
  <2> DEFINE new == Saving(c, f)
  <2>2. /\ Begin(h, new) /\ new.call = "save" /\ new.client = c
        /\ new.copy = downloads[c]
    BY <2>f DEF Saving, Idle
  <2> HIDE DEF new
  <2>3. /\ \A g \in Handlers \ {h} : handler'[g] = Idle
        /\ handler'[h] = new
    BY <1>a, <1>d, <2>2 DEF Begin
  <2>4. Ordered(handler[h])'
    BY <2>1, <2>2, <2>3 DEF Ordered
  <2> QED  BY <1>e, <2>1, <2>3, <2>4, SerialFrom
<1>9. ASSUME NEW h \in Handlers, NEW c \in Clients, NEW files \in SUBSET downloads[c],
             handler' = [handler EXCEPT ![h] = Idle],
             (\A g \in Handlers : handler[g] = Idle) \/ handler[h].call # "none",
             downloads' = [downloads EXCEPT ![c] = files],
             UNCHANGED <<owner, uploading, failures>>
      PROVE  SerialInv'
  <2>1. /\ \A g \in Handlers \ {h} : handler'[g] = Idle
        /\ handler'[h] = Idle
    BY <1>d, <1>9
  <2>2. Ordered(handler[h])'
    BY <2>1, IdleSound DEF Ordered
  <2>3. downloads'[c] = files /\ \A d \in Clients \ {c} : downloads'[d] = downloads[d]
    BY <1>c, <1>9
  <2>5. ASSUME NEW d \in Clients
        PROVE  (Transfers(d) <= MaxTransfers + failures)'
    <3>1. Of(d, uploading)' \in SUBSET Of(d, uploading)
      BY <1>9 DEF Of
    <3>2. downloads'[d] \in SUBSET downloads[d]
      BY <2>3
    <3> QED  BY <1>b, <1>c, <1>9, <3>1, <3>2, NoMore
  <2> QED  BY <2>1, <2>2, <2>5, SerialFrom
<1>10. ASSUME NEW h \in Handlers, Save(h) PROVE SerialInv'
  <2>1. PICK c \in Clients : c = handler[h].client
    BY <1>10, <1>c DEF Save, At, Sound, States
  <2> DEFINE files == handler[h].copy \ {handler[h].file}
  <2>2. /\ handler[h].call = "save"
        /\ downloads' = [downloads EXCEPT ![c] = files]
        /\ handler' = [handler EXCEPT ![h] = Idle]
        /\ UNCHANGED <<owner, uploading, failures>>
    BY <1>10, <2>1 DEF Save, At, End, Remaining, uploads
  <2>3. files \in SUBSET downloads[c]
    BY <1>b, <2>1, <2>2 DEF Ordered
  <2> QED  BY <1>9, <2>2, <2>3
<1>11. ASSUME NEW h \in Handlers, NEW c \in Clients, Register(h, c)
       PROVE  SerialInv'
  <2>1. /\ handler' = [handler EXCEPT ![h] = Idle]
        /\ \A g \in Handlers : handler[g] = Idle
        /\ downloads' = [downloads EXCEPT ![c] = {}]
        /\ UNCHANGED <<owner, uploading, failures>>
    BY <1>11, <1>a DEF Register, Begin
  <2> QED  BY <1>9, <2>1
<1>12. ASSUME NEW h \in Handlers, Abort(h) PROVE SerialInv'
  <2>1. /\ handler' = [handler EXCEPT ![h] = Idle] /\ handler[h] # Idle
        /\ UNCHANGED <<owner, uploading, downloads, accepted, through>>
        /\ failures' = failures + 1
    BY <1>12 DEF Abort, End, uploads, Fails
  <2>2. /\ \A g \in Handlers \ {h} : handler'[g] = Idle
        /\ handler'[h] = Idle
    BY <1>b, <1>c, <2>1 DEF Alone
  <2>3. Ordered(handler[h])'
    BY <2>2, IdleSound DEF Ordered
  <2>4. UNCHANGED <<owner, uploading, downloads>>
    BY <2>1
  <2> QED  BY <1>e, <2>1, <2>2, <2>3, <2>4, SerialFrom
<1>13. CASE UNCHANGED vars
  <2>1. UNCHANGED <<owner, uploading, downloads, accepted, through, handler,
                    failures>>
    BY <1>13 DEF vars, uploads
  <2>2. \A c \in Clients : /\ Of(c, uploading)' = Of(c, uploading)
                           /\ Transfers(c)' = Transfers(c)
    BY <2>1 DEF Of, Transfers
  <2>3. UNCHANGED <<owner, uploading, downloads>>
    BY <2>1
  <2>4. \A c : Of(c, uploading)' = Of(c, uploading) /\ (Room(c)' <=> Room(c))
    BY <2>1 DEF Of, Room, Transfers
  <2>5. \A h \in Handlers : Ordered(handler[h])'
    BY <1>b, <2>1, <2>4 DEF Ordered, Seen
  <2> QED
    BY <1>b, <2>1, <2>2, <2>5 DEF SerialInv, Alone
<1> QED
  BY <1>1, <1>2, <1>3, <1>4, <1>5, <1>6, <1>7, <1>8, <1>10, <1>11, <1>12, <1>13
  DEF Next

LEMMA SerialAlways == Spec => [](Inv /\ SerialInv)
<1>1. Inv /\ SerialInv /\ [Next]_vars => (Inv /\ SerialInv)'
  BY InvStep, SerialStep
<1> QED  BY <1>1, InvInit, SerialInit, PTL DEF Spec

(* Handlers that do not overlap keep to the limit of transfers, but for one  *)
(* transfer more for each failure.                                           *)
THEOREM TransfersStayBounded == Spec => []TransfersBounded
<1>1. SerialInv => TransfersBounded
  BY DEF SerialInv, TransfersBounded, Transfers
<1> QED  BY <1>1, SerialAlways, PTL
=============================================================================
