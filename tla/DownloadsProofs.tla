-------------------------- MODULE DownloadsProofs --------------------------
(***************************************************************************)
(* A download asked for is in one place at a time: on the bus, with        *)
(* session, among the commands, being attempted, pending, negotiated, or   *)
(* streaming.  That is what keeps two writers from one partial.            *)
(***************************************************************************)
EXTENDS Downloads, TLAPS, SequenceTheorems

-----------------------------------------------------------------------------
(* Types. *)

Asks   == [kind : BusKinds, file : Files]
Orders == [kind : CmdKinds, file : Files]
Stream0 == [offset : Nat, got : Nat, inode : Nat]

TypeUI == /\ row \in [Files -> Rows] /\ starts \in [Files -> Nat] /\ removed \subseteq Files
          /\ again \in [Files -> {"no", "resume", "any"}]
          /\ forgotten \in [Files -> {"no", "underway", "recorded"}]

TypeQueues == bus \in Seq(Asks) /\ cmds \in Seq(Orders)

TypeSession ==
  /\ logged_in \in BOOLEAN /\ drops \in Nat
  /\ pending_downloads \in [Uploaders -> Seq(Files)] /\ asked \in [Uploaders -> Nat]

TypeAttempt ==
  /\ dialing \in [Files -> Nat] /\ writing \in [Files -> Nat] /\ wanted \in [Files -> Nat]
  /\ pending \subseteq Files
  /\ DOMAIN by_token \subseteq Tokens /\ by_token \in [DOMAIN by_token -> Files]
  /\ accepted \subseteq Files \X Tokens /\ used \subseteq Uploaders \X Tokens

TypeStreams ==
  /\ DOMAIN streams \subseteq Files \X Tokens /\ streams \in [DOMAIN streams -> Stream0]

TypeDisk ==
  /\ disk \in Seq(Seq(Nat)) /\ partial \in [Files -> 0 .. Len(disk)]
  /\ finished \subseteq Files \X Nat

TypeOK == TypeUI /\ TypeQueues /\ TypeSession /\ TypeAttempt /\ TypeStreams /\ TypeDisk

LEMMA WithoutTyped ==
  ASSUME NEW T, NEW f, f \in [DOMAIN f -> T], NEW S, NEW g, g = Without(f, S)
  PROVE  DOMAIN g = DOMAIN f \ S /\ g \in [DOMAIN g -> T]
BY DEF Without, Restrict

LEMMA Enqueued ==
  ASSUME NEW T, NEW s \in Seq(T), NEW x \in T
  PROVE  Append(s, x) \in Seq(T)
OBVIOUS

LEMMA Updated ==
  ASSUME NEW S, NEW T, NEW f \in [S -> T], NEW x \in S, NEW v \in T
  PROVE  [f EXCEPT ![x] = v] \in [S -> T]
OBVIOUS

LEMMA UpdatedOutside ==
  ASSUME NEW T, NEW s \in Seq(T), NEW x, x \notin DOMAIN s, NEW v
  PROVE  [s EXCEPT ![x] = v] = s
OBVIOUS

\* A stream's record with one field changed is one.
LEMMA FieldUpdated ==
  ASSUME NEW r \in Stream0, NEW v \in Nat
  PROVE  [r EXCEPT !.got = v] \in Stream0 /\ [r EXCEPT !.inode = v] \in Stream0
BY DEF Stream0

LEMMA WrittenTyped ==
  ASSUME NEW c \in Seq(Nat), NEW at \in Nat, NEW v \in Nat
  PROVE  WriteAt(c, at, v) \in Seq(Nat)
<1>1. Len(c) \in Nat /\ \A i \in 1 .. Len(c) : c[i] \in Nat
  BY LenProperties, ElementOfSeq
<1> PICK n \in Nat : n = IF Len(c) >= at THEN Len(c) ELSE at
  BY <1>1
<1>2. WriteAt(c, at, v) = [i \in 1 .. n |-> IF i = at THEN v ELSE IF i <= Len(c) THEN c[i] ELSE 0]
  BY DEF WriteAt
<1>3. \A i \in 1 .. n : (IF i = at THEN v ELSE IF i <= Len(c) THEN c[i] ELSE 0) \in Nat
  BY <1>1
<1>4. QED
  BY <1>2, <1>3

LEMMA MessagesTyped ==
  /\ \A k \in Files, kind \in BusKinds : Msg(kind, k) \in Asks
  /\ \A k \in Files, kind \in CmdKinds : Msg(kind, k) \in Orders
BY DEF Msg, Asks, Orders

LEMMA TypeInit == Init => TypeOK
<1> SUFFICES ASSUME Init
             PROVE  TypeOK
  OBVIOUS
<1>1. <<>> \in Seq(Asks) /\ <<>> \in Seq(Orders) /\ <<>> \in Seq(Files) /\ <<>> \in Seq(Seq(Nat))
  BY EmptySeq
<1>2. TypeUI /\ TypeQueues /\ TypeSession
  BY <1>1 DEF Init, TypeUI, TypeQueues, TypeSession, Rows
<1>3. TypeAttempt
  BY DEF Init, TypeAttempt
<1>4. TypeStreams /\ TypeDisk
  BY <1>1 DEF Init, TypeStreams, TypeDisk
<1>5. QED
  BY <1>2, <1>3, <1>4 DEF TypeOK

LEMMA TypeUser ==
  ASSUME TypeOK, User
  PROVE  TypeOK'
<1> PICK k \in Files : ClickDownload(k) \/ ClickCancel(k) \/ ClickPause(k)
  BY DEF User
<1> PICK kind \in BusKinds : Click(kind, k)
  BY DEF ClickDownload, ClickCancel, ClickPause, BusKinds
<1>1. bus' = Append(bus, Msg(kind, k)) /\ cmds' = cmds
  BY DEF Click
<1>2. TypeQueues'
  <2>1. Msg(kind, k) \in Asks /\ bus \in Seq(Asks) /\ cmds \in Seq(Orders)
    BY MessagesTyped DEF TypeOK, TypeQueues
  <2>2. bus' \in Seq(Asks)
    BY <1>1, <2>1
  <2>3. QED
    BY <1>1, <2>1, <2>2 DEF TypeQueues
<1>3. TypeUI'
  <2>1. /\ row' = row
        /\ starts' = [starts EXCEPT ![k] = @ + 1] \/ starts' = starts
        /\ removed' = removed \ {k} \/ removed' = removed \cup {k}
        /\ forgotten' = [forgotten EXCEPT ![k] = "no"] \/ forgotten' = forgotten
    BY DEF Click, ClickDownload, ClickCancel, ClickPause
  <2>2. again' \in [Files -> {"no", "resume", "any"}]
    BY DEF TypeOK, TypeUI, ClickDownload, ClickCancel, ClickPause
  <2>3. QED
    BY <2>1, <2>2 DEF TypeOK, TypeUI
<1>4. TypeSession' /\ TypeAttempt' /\ TypeStreams' /\ TypeDisk'
  BY DEF TypeOK, TypeSession, TypeAttempt, TypeStreams, TypeDisk, Click, session, attempt,
     registry, remote, storage
<1>5. QED
  BY <1>2, <1>3, <1>4 DEF TypeOK

LEMMA HeadOfBus ==
  ASSUME TypeOK, bus # <<>>
  PROVE  Head(bus) \in Asks /\ Head(bus).file \in Files /\ Tail(bus) \in Seq(Asks)
<1>1. Head(bus) \in Asks /\ Tail(bus) \in Seq(Asks)
  BY HeadTailProperties DEF TypeOK, TypeQueues
<1>2. QED
  BY <1>1 DEF Asks

LEMMA HeadOfCmds ==
  ASSUME TypeOK, cmds # <<>>
  PROVE  Head(cmds) \in Orders /\ Head(cmds).file \in Files /\ Tail(cmds) \in Seq(Orders)
<1>1. Head(cmds) \in Orders /\ Tail(cmds) \in Seq(Orders)
  BY HeadTailProperties DEF TypeOK, TypeQueues
<1>2. QED
  BY <1>1 DEF Orders

LEMMA TypeBus ==
  ASSUME TypeOK, BusWorker
  PROVE  TypeOK'
<1> bus # <<>>
  BY DEF BusWorker, BusStartDownload, BusCancelOrPause, BusPeerDownloadConnect, BusOutcome,
     BusDownloadQueuePosition, Handled
<1>1. PICK k \in Files : k = Head(bus).file
  BY HeadOfBus
<1>0. Tail(bus) \in Seq(Asks)
  BY HeadOfBus
<1>2. TypeAttempt' /\ TypeStreams' /\ TypeDisk'
  BY DEF TypeOK, TypeAttempt, TypeStreams, TypeDisk, attempt, registry, remote, storage,
     BusWorker, BusStartDownload, BusCancelOrPause, BusPeerDownloadConnect, BusOutcome,
     BusDownloadQueuePosition
<1>3. TypeUI'
  BY <1>1 DEF TypeOK, TypeUI, Rows, ui, SetRow, BusWorker, BusStartDownload, BusCancelOrPause,
     BusPeerDownloadConnect, BusOutcome, BusDownloadQueuePosition
<1>4. CASE BusStartDownload
  <2>1. UploaderOf[k] \in Uploaders
    BY <1>1, DownloadsAssumption
  <2>2. bus' \in Seq(Asks)
    <3>1. Msg("DownloadFailed", k) \in Asks
      BY <1>1, MessagesTyped DEF BusKinds
    <3>2. bus' = Tail(bus) \/ bus' = Append(Tail(bus), Msg("DownloadFailed", k))
      BY <1>1, <1>4 DEF BusStartDownload
    <3>3. QED
      BY <1>0, <3>1, <3>2, Enqueued
  <2>3. TypeSession'
    <3> DEFINE p == UploaderOf[k]
    <3>1. /\ \/ asked' = asked
             \/ asked' = [asked EXCEPT ![p] = @ + 1]
          /\ \/ pending_downloads' = pending_downloads
             \/ pending_downloads' = [pending_downloads EXCEPT ![p] = Append(@, k)]
          /\ logged_in' = logged_in /\ drops' = drops
      BY <1>1, <1>4 DEF BusStartDownload
    <3>2. pending_downloads[p] \in Seq(Files) /\ asked[p] \in Nat
      BY <2>1 DEF TypeOK, TypeSession
    <3>3. Append(pending_downloads[p], k) \in Seq(Files) /\ asked[p] + 1 \in Nat
      BY <3>2, Enqueued
    <3>4. asked' \in [Uploaders -> Nat]
      BY <2>1, <3>1, <3>3, Updated DEF TypeOK, TypeSession
    <3>5. pending_downloads' \in [Uploaders -> Seq(Files)]
      BY <2>1, <3>1, <3>3, Updated DEF TypeOK, TypeSession
    <3>6. QED
      BY <3>1, <3>4, <3>5 DEF TypeOK, TypeSession
  <2>4. TypeQueues'
    BY <1>4, <2>2 DEF TypeOK, TypeQueues, BusStartDownload
  <2>5. QED
    BY <1>2, <1>3, <2>3, <2>4 DEF TypeOK
<1>5. CASE ~ BusStartDownload
  <2>1. TypeSession'
    BY <1>5 DEF TypeOK, TypeSession, session, BusWorker, BusCancelOrPause,
       BusPeerDownloadConnect, BusOutcome, BusDownloadQueuePosition
  <2>2. Msg("CancelDownload", k) \in Orders /\ Msg("Download", k) \in Orders
    BY <1>1, MessagesTyped DEF CmdKinds
  <2>3. /\ bus' = Tail(bus)
        /\ \/ cmds' = cmds
           \/ cmds' = Append(cmds, Msg("CancelDownload", k))
           \/ cmds' = Append(cmds, Msg("Download", k))
    BY <1>1, <1>5 DEF BusWorker, BusCancelOrPause, BusPeerDownloadConnect, BusOutcome,
       BusDownloadQueuePosition
  <2>4. TypeQueues'
    BY <1>0, <2>2, <2>3, Enqueued DEF TypeOK, TypeQueues
  <2>5. QED
    BY <1>2, <1>3, <2>1, <2>4 DEF TypeOK
<1>6. QED
  BY <1>4, <1>5

LEMMA TypeServer ==
  ASSUME TypeOK, Server
  PROVE  TypeOK'
<1>1. TypeUI' /\ TypeAttempt' /\ TypeStreams' /\ TypeDisk'
  BY DEF TypeOK, TypeUI, TypeAttempt, TypeStreams, TypeDisk, ui, attempt, registry, remote,
     storage, Server, GetPeerAddress, NetConnClosed, LoginResponse
<1>2. CASE NetConnClosed \/ LoginResponse
  <2>1. /\ bus' = bus /\ cmds' = cmds /\ pending_downloads' = pending_downloads
        /\ drops' = drops + 1 \/ drops' = drops
        /\ asked' = [p \in Uploaders |-> 0] \/ asked' = asked
        /\ logged_in' \in BOOLEAN
    BY <1>2 DEF NetConnClosed, LoginResponse
  <2>2. TypeSession' /\ TypeQueues'
    BY <2>1 DEF TypeOK, TypeSession, TypeQueues
  <2>3. QED
    BY <1>1, <2>2 DEF TypeOK
<1>3. ASSUME NEW p \in Uploaders, NEW online \in BOOLEAN, GetPeerAddress(p, online)
      PROVE  TypeOK'
  <2> DEFINE kind == IF online THEN "PeerDownloadConnect" ELSE "DownloadFailed"
             ms == [i \in DOMAIN pending_downloads[p] |-> Msg(kind, pending_downloads[p][i])]
  <2>1. ms \in Seq(Asks)
    <3>1. pending_downloads[p] \in Seq(Files) /\ kind \in BusKinds
      BY DEF TypeOK, TypeSession, BusKinds
    <3>2. \A i \in DOMAIN pending_downloads[p] : Msg(kind, pending_downloads[p][i]) \in Asks
      BY <3>1, MessagesTyped
    <3>3. QED
      BY <3>1, <3>2
  <2>2. bus' = bus \o ms
    BY <1>3 DEF GetPeerAddress
  <2>3. TypeQueues'
    BY <1>3, <2>1, <2>2, ConcatProperties DEF TypeOK, TypeQueues, GetPeerAddress
  <2>4. TypeSession'
    BY <1>3 DEF TypeOK, TypeSession, GetPeerAddress
  <2>5. QED
    BY <1>1, <2>3, <2>4 DEF TypeOK
<1>4. QED
  BY <1>2, <1>3 DEF Server

LEMMA TypeCommands ==
  ASSUME TypeOK, CommandLoop
  PROVE  TypeOK'
<1> cmds # <<>> /\ cmds' = Tail(cmds)
  BY DEF CommandLoop, CmdDownload, CmdCancelDownload, CmdQueuePosition, NextCmd
<1>1. PICK k \in Files : k = Head(cmds).file
  BY HeadOfCmds
<1>0. cmds' \in Seq(Orders)
  BY HeadOfCmds
<1>2. TypeSession' /\ TypeStreams' /\ TypeDisk'
  BY DEF TypeOK, TypeSession, TypeStreams, TypeDisk, session, storage, CommandLoop,
     CmdDownload, CmdCancelDownload, CmdQueuePosition
<1>3. TypeQueues'
  <2>1. Msg("DownloadQueuePosition", k) \in Asks
    BY <1>1, MessagesTyped DEF BusKinds
  <2>2. bus' = bus \/ bus' = Append(bus, Msg("DownloadQueuePosition", k))
    BY <1>1 DEF CommandLoop, CmdDownload, CmdCancelDownload, CmdQueuePosition
  <2>3. QED
    BY <1>0, <2>1, <2>2, Enqueued DEF TypeOK, TypeQueues
<1>4. TypeUI'
  <2>1. /\ row' = row /\ starts' = starts /\ removed' = removed /\ again' = again
        /\ \/ forgotten' = forgotten
           \/ forgotten' = [forgotten EXCEPT ![k] = "underway"]
           \/ forgotten' = [forgotten EXCEPT ![k] = "recorded"]
    BY <1>1 DEF ui, Forget, CommandLoop, CmdDownload, CmdCancelDownload, CmdQueuePosition
  <2>2. QED
    BY <1>1, <2>1 DEF TypeOK, TypeUI
<1>5. TypeAttempt'
  <2>1. CASE CmdCancelDownload
    <3>1. by_token \in [DOMAIN by_token -> Files] /\ DOMAIN by_token \subseteq Tokens
      BY DEF TypeOK, TypeAttempt
    <3>2. PICK S : by_token' = Without(by_token, S)
      BY <2>1 DEF CmdCancelDownload
    <3>3. DOMAIN by_token' = DOMAIN by_token \ S /\ by_token' \in [DOMAIN by_token' -> Files]
      BY <3>1, <3>2, WithoutTyped
    <3>5. DOMAIN by_token' \subseteq Tokens
      BY <3>1, <3>3
    <3>4. QED
      BY <2>1, <3>3, <3>5 DEF TypeOK, TypeAttempt, attempt, remote, CmdCancelDownload
  <2>2. CASE ~ CmdCancelDownload
    <3>1. /\ dialing' = dialing \/ dialing' = [dialing EXCEPT ![k] = @ + 1]
          /\ writing' = writing /\ wanted' = wanted /\ pending' = pending
          /\ by_token' = by_token /\ accepted' = accepted /\ used' = used
      BY <1>1, <2>2 DEF attempt, registry, remote, CommandLoop, CmdDownload, CmdQueuePosition
    <3>2. dialing' \in [Files -> Nat]
      <4>1. dialing \in [Files -> Nat] /\ dialing[k] \in Nat
        BY DEF TypeOK, TypeAttempt
      <4>2. QED
        BY <3>1, <4>1
    <3>3. QED
      BY <3>1, <3>2 DEF TypeOK, TypeAttempt
  <2>3. QED
    BY <2>1, <2>2
<1>6. QED
  BY <1>2, <1>3, <1>4, <1>5 DEF TypeOK

LEMMA TypeTask ==
  ASSUME TypeOK, NEW k \in Files, Attempt(k) \/ FromUploader(k)
  PROVE  TypeOK'
<1>1. Msg("DownloadFailed", k) \in Asks /\ Msg("QueuePosition", k) \in Orders
  BY MessagesTyped DEF BusKinds, CmdKinds
<1>2. TypeUI' /\ TypeSession' /\ TypeStreams' /\ TypeDisk'
  BY DEF TypeOK, TypeUI, TypeSession, TypeStreams, TypeDisk, ui, session, storage,
     Attempt, FromUploader, DialFails, SendQueueUpload,
     QueueingFails, RecordPending, OnRefused, OnPlaceInQueueResponse
<1>3. TypeQueues'
  <2>1. /\ bus' = bus \/ bus' = Append(bus, Msg("DownloadFailed", k))
        /\ cmds' = cmds \/ cmds' = Append(cmds, Msg("QueuePosition", k))
    BY DEF Attempt, FromUploader, DialFails, SendQueueUpload,
       QueueingFails, RecordPending, OnRefused, OnPlaceInQueueResponse
  <2>2. QED
    BY <1>1, <2>1, Enqueued DEF TypeOK, TypeQueues
<1>4. TypeAttempt'
  <2>1. /\ \/ dialing' = dialing
           \/ dialing[k] > 0 /\ dialing' = [dialing EXCEPT ![k] = @ - 1]
        /\ \/ writing' = writing
           \/ writing' = [writing EXCEPT ![k] = @ + 1]
           \/ writing[k] > 0 /\ writing' = [writing EXCEPT ![k] = @ - 1]
        /\ \/ wanted' = wanted
           \/ wanted' = [wanted EXCEPT ![k] = @ + 1]
           \/ wanted[k] > 0 /\ wanted' = [wanted EXCEPT ![k] = @ - 1]
        /\ pending' \subseteq pending \cup {k}
        /\ by_token' = by_token /\ accepted' = accepted /\ used' = used
    BY DEF attempt, registry, remote, Attempt, FromUploader, DialFails, SendQueueUpload,
       QueueingFails, RecordPending, OnRefused, OnPlaceInQueueResponse
  <2>2. dialing' \in [Files -> Nat] /\ writing' \in [Files -> Nat] /\ wanted' \in [Files -> Nat]
    <3>1. /\ dialing[k] \in Nat /\ writing[k] \in Nat /\ wanted[k] \in Nat
          /\ dialing \in [Files -> Nat] /\ writing \in [Files -> Nat] /\ wanted \in [Files -> Nat]
      BY DEF TypeOK, TypeAttempt
    <3>2. dialing' \in [Files -> Nat]
      BY <2>1, <3>1
    <3>3. writing' \in [Files -> Nat]
      BY <2>1, <3>1
    <3>4. wanted' \in [Files -> Nat]
      BY <2>1, <3>1
    <3>5. QED
      BY <3>2, <3>3, <3>4
  <2>3. pending' \subseteq Files
    BY <2>1 DEF TypeOK, TypeAttempt
  <2>4. QED
    BY <2>1, <2>2, <2>3 DEF TypeOK, TypeAttempt
<1>5. QED
  BY <1>2, <1>3, <1>4 DEF TypeOK

LEMMA TypeOffer ==
  ASSUME TypeOK, NEW k \in Files, NEW tok \in Tokens, FromUploaderUnder(k, tok)
  PROVE  TypeOK'
<1>1. TypeUI' /\ TypeQueues' /\ TypeSession' /\ TypeDisk'
  BY DEF TypeOK, TypeUI, TypeQueues, TypeSession, TypeDisk, ui, session, storage,
     FromUploaderUnder, OnTransferRequestUpload, RecvFile
<1>2. by_token \in [DOMAIN by_token -> Files] /\ streams \in [DOMAIN streams -> Stream0]
  BY DEF TypeOK, TypeAttempt, TypeStreams
<1>3. CASE OnTransferRequestUpload(k, tok)
  <2>1. DOMAIN by_token' \subseteq Tokens /\ by_token' \in [DOMAIN by_token' -> Files]
    <3>1. CASE by_token' = by_token
      BY <3>1 DEF TypeOK, TypeAttempt
    <3>2. CASE by_token' = With(by_token, tok, k)
      <4>1. /\ DOMAIN by_token' = DOMAIN by_token \cup {tok}
            /\ by_token' \in [DOMAIN by_token' -> Files]
        BY <1>2, <3>2 DEF With
      <4>2. QED
        BY <4>1 DEF TypeOK, TypeAttempt
    <3>3. QED
      BY <1>3, <3>1, <3>2 DEF registry, OnTransferRequestUpload
  <2>2. UploaderOf[k] \in Uploaders
    BY DownloadsAssumption
  <2>3. TypeAttempt'
    BY <1>3, <2>1, <2>2 DEF TypeOK, TypeAttempt, attempt, registry, OnTransferRequestUpload
  <2>4. QED
    BY <1>1, <1>3, <2>3 DEF TypeOK, TypeStreams, OnTransferRequestUpload
<1>4. CASE RecvFile(k, tok)
  <2>1. CASE UNCHANGED <<by_token, streams>>
    BY <1>1, <1>4, <2>1 DEF TypeOK, TypeAttempt, TypeStreams, attempt, RecvFile
  <2>2. CASE Negotiated(UploaderOf[k], tok) /\ ~ UNCHANGED <<by_token, streams>>
    <3> DEFINE f == by_token[tok]
               o == IF OnDisk(f) < Size THEN OnDisk(f) ELSE 0
    <3>1. by_token' = Without(by_token, {tok}) /\ f \in Files
      BY <1>2, <1>4, <2>2 DEF Negotiated, RecvFile
    <3>2. DOMAIN by_token' \subseteq Tokens /\ by_token' \in [DOMAIN by_token' -> Files]
      <4>1. /\ DOMAIN by_token' = DOMAIN by_token \ {tok}
            /\ by_token' \in [DOMAIN by_token' -> Files]
        BY <1>2, <3>1, WithoutTyped
      <4>2. QED
        BY <4>1 DEF TypeOK, TypeAttempt
    <3>3. TypeAttempt'
      BY <1>4, <3>2 DEF TypeOK, TypeAttempt, attempt, RecvFile
    <3>4. PICK r : /\ streams' = With(streams, <<f, tok>>, r)
                   /\ r = [offset |-> o, got |-> o, inode |-> 0]
      BY <1>4, <2>2 DEF RecvFile
    <3>5. r \in Stream0
      <4>1. OnDisk(f) \in Nat
        <5>1. partial[f] \in 0 .. Len(disk) /\ disk \in Seq(Seq(Nat))
          BY <3>1 DEF TypeOK, TypeDisk
        <5>2. partial[f] # 0 => disk[partial[f]] \in Seq(Nat)
          BY <5>1, ElementOfSeq
        <5>3. QED
          BY <5>2, LenProperties DEF OnDisk
      <4>2. QED
        BY <3>4, <4>1, DownloadsAssumption DEF Stream0
    <3>6. DOMAIN streams' \subseteq Files \X Tokens /\ streams' \in [DOMAIN streams' -> Stream0]
      <4>1. /\ DOMAIN streams' = DOMAIN streams \cup {<<f, tok>>}
            /\ streams' \in [DOMAIN streams' -> Stream0]
        BY <1>2, <3>4, <3>5 DEF With
      <4>2. QED
        BY <3>1, <4>1 DEF TypeOK, TypeStreams
    <3>7. QED
      BY <1>1, <3>3, <3>6 DEF TypeOK, TypeStreams
  <2>3. QED
    BY <1>4, <2>1, <2>2 DEF RecvFile
<1>5. QED
  BY <1>3, <1>4 DEF FromUploaderUnder

LEMMA TypeStream ==
  ASSUME TypeOK, NEW k \in Files, NEW tok \in Tokens, Stream(k, tok)
  PROVE  TypeOK'
<1> DEFINE s == <<k, tok>>
<1>1. TypeUI' /\ TypeSession' /\ TypeAttempt'
  BY DEF TypeOK, TypeUI, TypeSession, TypeAttempt, ui, session, attempt, registry, remote,
     Stream, OpenPartial, Receive, StreamFails, StreamDone
<1>2. TypeQueues'
  <2>1. Msg("DownloadComplete", k) \in Asks /\ Msg("DownloadFailed", k) \in Asks
    BY MessagesTyped DEF BusKinds
  <2>2. /\ \/ bus' = bus \/ bus' = Append(bus, Msg("DownloadComplete", k))
           \/ bus' = Append(bus, Msg("DownloadFailed", k))
        /\ cmds' = cmds
    BY DEF Stream, OpenPartial, Receive, StreamFails, StreamDone
  <2>3. QED
    BY <2>1, <2>2, Enqueued DEF TypeOK, TypeQueues
<1>3. /\ s \in DOMAIN streams /\ streams \in [DOMAIN streams -> Stream0]
      /\ DOMAIN streams \subseteq Files \X Tokens /\ streams[s] \in Stream0
  BY DEF TypeOK, TypeStreams, Stream, OpenPartial, Receive, StreamFails, StreamDone
<1>4. /\ disk \in Seq(Seq(Nat)) /\ Len(disk) \in Nat /\ DOMAIN disk = 1 .. Len(disk)
      /\ partial \in [Files -> 0 .. Len(disk)] /\ \A i \in DOMAIN disk : disk[i] \in Seq(Nat)
      /\ partial[k] \in 0 .. Len(disk) /\ finished \subseteq Files \X Nat
  BY LenProperties, ElementOfSeq DEF TypeOK, TypeDisk
<1>5. CASE OpenPartial(k, tok)
  <2> PICK i \in Nat : i = IF partial[k] = 0 THEN Len(disk) + 1 ELSE partial[k]
    BY <1>4
  <2>1. /\ partial' = [partial EXCEPT ![k] = i] /\ finished' = finished
        /\ streams' = [streams EXCEPT ![s] = [streams[s] EXCEPT !.inode = i]]
    BY <1>5 DEF OpenPartial
  <2>2. TypeStreams'
    <3>0. PICK q \in Stream0 : streams' = [streams EXCEPT ![s] = q]
      BY <1>3, <2>1, FieldUpdated
    <3>1. DOMAIN streams' = DOMAIN streams /\ streams' \in [DOMAIN streams' -> Stream0]
      BY <1>3, <3>0
    <3>2. QED
      BY <1>3, <3>1 DEF TypeStreams
  <2>3. /\ Len(disk') \in Nat /\ Len(disk) <= Len(disk') /\ i <= Len(disk')
        /\ disk' \in Seq(Seq(Nat))
    <3>1. <<>> \in Seq(Nat)
      BY EmptySeq
    <3>2. CASE partial[k] = 0
      <4>1. disk' = Append(disk, <<>>) /\ i = Len(disk) + 1
        BY <1>5, <3>2 DEF OpenPartial
      <4>2. disk' \in Seq(Seq(Nat)) /\ Len(disk') = Len(disk) + 1
        BY <1>4, <3>1, <4>1, AppendProperties
      <4>3. QED
        BY <1>4, <4>1, <4>2
    <3>3. CASE partial[k] # 0
      <4>1. i \in 1 .. Len(disk)
        BY <1>4, <3>3
      <4>2. disk' = [disk EXCEPT ![i] = <<>>] \/ disk' = disk
        BY <1>5, <3>3 DEF OpenPartial
      <4>3. disk' \in Seq(Seq(Nat)) /\ Len(disk') = Len(disk)
        <5>1. PICK c \in Seq(Nat) : disk' = [disk EXCEPT ![i] = c] \/ disk' = disk
          BY <3>1, <4>2
        <5>2. /\ [disk EXCEPT ![i] = c] \in Seq(Seq(Nat))
              /\ Len([disk EXCEPT ![i] = c]) = Len(disk)
          BY <1>4, <4>1, ExceptSeq
        <5>3. CASE disk' = disk
          BY <1>4, <5>3
        <5>4. CASE disk' = [disk EXCEPT ![i] = c]
          BY <5>2, <5>4
        <5>5. QED
          BY <5>1, <5>3, <5>4
      <4>4. QED
        BY <1>4, <4>1, <4>3
    <3>4. QED
      BY <3>2, <3>3
  <2>4. partial' \in [Files -> 0 .. Len(disk')]
    <3> PICK n \in Nat : n = Len(disk') /\ Len(disk) <= n /\ i <= n
      BY <2>3
    <3>1. \A f \in Files : partial[f] \in 0 .. n
      BY <1>4
    <3>2. QED
      BY <1>4, <2>1, <3>1
  <2>5. QED
    BY <1>1, <1>2, <1>4, <2>1, <2>2, <2>3, <2>4 DEF TypeOK, TypeDisk
<1>6. CASE Receive(k, tok)
  <2> PICK o \in Nat, n \in Nat, i \in Nat :
        o = streams[s].offset /\ n = streams[s].got /\ i = streams[s].inode
    BY <1>3 DEF Stream0
  <2>1. /\ streams' = [streams EXCEPT ![s] = [streams[s] EXCEPT !.got = n + 1]]
        /\ disk' = [disk EXCEPT ![i] = IF o > 0 THEN Append(disk[i], n + 1)
                                       ELSE WriteAt(disk[i], n + 1, n + 1)]
        /\ partial' = partial /\ finished' = finished
    BY <1>6 DEF Receive
  <2>2. TypeStreams'
    <3>0. PICK q \in Stream0 : streams' = [streams EXCEPT ![s] = q]
      <4>1. n + 1 \in Nat
        OBVIOUS
      <4>2. QED
        BY <1>3, <2>1, <4>1, FieldUpdated
    <3>1. DOMAIN streams' = DOMAIN streams /\ streams' \in [DOMAIN streams' -> Stream0]
      BY <1>3, <3>0
    <3>2. QED
      BY <1>3, <3>1 DEF TypeStreams
  <2>3. disk' \in Seq(Seq(Nat)) /\ Len(disk') = Len(disk)
    <3>1. CASE i \in DOMAIN disk
      <4>1. disk[i] \in Seq(Nat) /\ i \in 1 .. Len(disk)
        BY <1>4, <3>1
      <4>2. Append(disk[i], n + 1) \in Seq(Nat) /\ WriteAt(disk[i], n + 1, n + 1) \in Seq(Nat)
        <5>1. PICK c \in Seq(Nat) : c = disk[i]
          BY <4>1
        <5>2. n + 1 \in Nat
          OBVIOUS
        <5>3. Append(c, n + 1) \in Seq(Nat) /\ WriteAt(c, n + 1, n + 1) \in Seq(Nat)
          BY <5>2, Enqueued, WrittenTyped
        <5>4. QED
          BY <5>1, <5>3
      <4>3. PICK d \in Seq(Nat) : disk' = [disk EXCEPT ![i] = d]
        BY <2>1, <4>2
      <4>4. QED
        BY <1>4, <4>1, <4>3, ExceptSeq
    <3>2. CASE i \notin DOMAIN disk
      BY <1>4, <2>1, <3>2, UpdatedOutside
    <3>3. QED
      BY <3>1, <3>2
  <2>4. QED
    BY <1>1, <1>2, <1>4, <2>1, <2>2, <2>3 DEF TypeOK, TypeDisk
<1>7. CASE StreamFails(k, tok) \/ StreamDone(k, tok)
  <2>1. TypeStreams'
    <3>1. streams' = Without(streams, {s})
      BY <1>7 DEF StreamFails, StreamDone
    <3>2. DOMAIN streams' = DOMAIN streams \ {s} /\ streams' \in [DOMAIN streams' -> Stream0]
      BY <1>3, <3>1, WithoutTyped
    <3>3. QED
      BY <1>3, <3>2 DEF TypeStreams
  <2>2. TypeDisk'
    <3>1. /\ disk' = disk
          /\ partial' = partial \/ partial' = [partial EXCEPT ![k] = 0]
          /\ \/ finished' = finished
             \/ finished' = finished \cup {<<k, partial[k]>>}
      BY <1>7 DEF storage, StreamFails, StreamDone
    <3>2. partial' \in [Files -> 0 .. Len(disk)]
      BY <1>4, <3>1
    <3>3. QED
      BY <1>4, <3>1, <3>2 DEF TypeDisk
  <2>3. QED
    BY <1>1, <1>2, <2>1, <2>2 DEF TypeOK
<1>8. QED
  BY <1>5, <1>6, <1>7 DEF Stream

LEMMA TypeStep == TypeOK /\ [Next]_vars => TypeOK'
<1> SUFFICES ASSUME TypeOK, [Next]_vars
             PROVE  TypeOK'
  OBVIOUS
<1>1. CASE Next
  BY <1>1, TypeUser, TypeBus, TypeServer, TypeCommands, TypeTask, TypeOffer, TypeStream DEF Next
<1>2. CASE UNCHANGED vars
  BY <1>2 DEF vars, ui, session, attempt, remote, storage, registry, TypeOK, TypeUI, TypeQueues,
     TypeSession, TypeAttempt, TypeStreams, TypeDisk
<1>3. QED
  BY <1>1, <1>2

-----------------------------------------------------------------------------
(* The places a request for a file can be in, in the order it visits them. *)

Alone(S) == \A x, y \in S : x = y

Found(s, k, kinds) == {i \in DOMAIN s : s[i].file = k /\ s[i].kind \in kinds}

Indices(s, x) == {i \in DOMAIN s : s[i] = x}

Asked(k)      == Found(bus, k, {"StartDownload"})
Waiting(k)    == Indices(pending_downloads[UploaderOf[k]], k)
Connecting(k) == Found(bus, k, {"PeerDownloadConnect"})
Ordered(k)    == Found(cmds, k, {"Download"})
Trying(k)     == 1 .. dialing[k] + writing[k]
Held(k)       == pending \cap {k}
TokensOf(k)   == {t \in DOMAIN by_token : by_token[t] = k}
Told(k)       == Found(bus, k, {"DownloadComplete", "DownloadFailed"})

Spots == {"asked", "waiting", "connecting", "ordered", "trying", "held", "token", "stream",
          "told"}

Place(k) ==
  [asked |-> Asked(k), waiting |-> Waiting(k), connecting |-> Connecting(k),
   ordered |-> Ordered(k), trying |-> Trying(k), held |-> Held(k), token |-> TokensOf(k),
   stream |-> StreamsOf(k), told |-> Told(k)]

\* A file's request is in one place, once.
Sole(P) == \A v, w \in Spots : \A x \in P[v], y \in P[w] : v = w /\ x = y

\* No place but those in W gains anything.
Fewer(A, B) == (A = {} => B = {}) /\ (Alone(A) => Alone(B))
Shrinks(P, Q, W) == \A w \in Spots \ W : Fewer(P[w], Q[w])

\* What was in place u goes to place v.
Moves(P, Q, u, v) ==
  /\ P[u] # {} /\ (Alone(P[u]) => Q[u] = {})
  /\ Alone(P[u]) /\ P[v] = {} => Alone(Q[v])
  /\ Shrinks(P, Q, {v})

Routes ==
  {<<"waiting", "connecting">>, <<"waiting", "told">>, <<"connecting", "ordered">>,
   <<"ordered", "trying">>, <<"trying", "held">>, <<"trying", "told">>, <<"held", "token">>,
   <<"held", "told">>, <<"token", "stream">>, <<"stream", "told">>}

Journey(P, Q) == Shrinks(P, Q, {}) \/ \E r \in Routes : Moves(P, Q, r[1], r[2])

\* session takes a request up.
Started(P, Q) == Moves(P, Q, "asked", "waiting") \/ Moves(P, Q, "asked", "told")

LEMMA SoleKept ==
  ASSUME NEW P, NEW Q, Sole(P), Shrinks(P, Q, {})
  PROVE  Sole(Q)
<1> SUFFICES ASSUME NEW v \in Spots, NEW w \in Spots, NEW x \in Q[v], NEW y \in Q[w]
             PROVE  v = w /\ x = y
  BY DEF Sole
<1>1. Fewer(P[v], Q[v]) /\ Fewer(P[w], Q[w])
  BY DEF Shrinks
<1>2. P[v] # {} /\ P[w] # {}
  BY <1>1 DEF Fewer
<1>3. v = w /\ Alone(P[v])
  BY <1>2 DEF Sole, Alone
<1>4. QED
  BY <1>1, <1>3 DEF Fewer, Alone

LEMMA SoleMoved ==
  ASSUME NEW P, NEW Q, NEW u \in Spots, NEW v \in Spots, u # v, Sole(P), Moves(P, Q, u, v)
  PROVE  Sole(Q)
<1>1. \A w \in Spots \ {u} : P[w] = {}
  BY DEF Moves, Sole
<1>2. \A w \in Spots \ {u, v} : Q[w] = {}
  BY <1>1 DEF Moves, Shrinks, Fewer
<1>3. Q[u] = {} /\ Alone(Q[v])
  <2>1. Alone(P[u]) /\ P[v] = {}
    BY <1>1 DEF Sole, Alone
  <2>2. QED
    BY <2>1 DEF Moves
<1>4. \A w \in Spots \ {v} : Q[w] = {}
  BY <1>2, <1>3
<1>5. QED
  BY <1>3, <1>4 DEF Sole, Alone

LEMMA SoleOnRoute ==
  ASSUME NEW P, NEW Q, Sole(P), Journey(P, Q) \/ Started(P, Q)
  PROVE  Sole(Q)
<1>1. CASE Shrinks(P, Q, {})
  BY <1>1, SoleKept
<1>2. ASSUME NEW r \in Routes, Moves(P, Q, r[1], r[2])
      PROVE  Sole(Q)
  <2>1. r[1] \in Spots /\ r[2] \in Spots /\ r[1] # r[2]
    BY DEF Routes, Spots
  <2>2. QED
    BY <1>2, <2>1, SoleMoved
<1>3. CASE Started(P, Q)
  <2>1. "asked" \in Spots /\ "waiting" \in Spots /\ "told" \in Spots
    BY DEF Spots
  <2>2. QED
    BY <1>3, <2>1, SoleMoved DEF Started
<1>4. QED
  BY <1>1, <1>2, <1>3 DEF Journey

-----------------------------------------------------------------------------
(* Messages found in a queue. *)

LEMMA FoundAppend ==
  ASSUME NEW T, NEW s \in Seq(T), NEW x, NEW k, NEW K
  PROVE  /\ x.file # k \/ x.kind \notin K => Found(Append(s, x), k, K) = Found(s, k, K)
         /\ Found(s, k, K) = {} => Alone(Found(Append(s, x), k, K))
         /\ x.file = k /\ x.kind \in K => Found(Append(s, x), k, K) # {}
<1> PICK r : r = Append(s, x)
  OBVIOUS
<1>1. /\ Len(s) \in Nat /\ DOMAIN s = 1 .. Len(s) /\ DOMAIN r = 1 .. Len(s) + 1
      /\ r[Len(s) + 1] = x /\ \A i \in 1 .. Len(s) : r[i] = s[i]
  BY AppendProperties, LenProperties
<1>2. Found(r, k, K) = Found(s, k, K) \cup
                       (IF x.file = k /\ x.kind \in K THEN {Len(s) + 1} ELSE {})
  BY <1>1 DEF Found
<1>3. QED
  BY <1>2 DEF Alone

LEMMA IndicesAppend ==
  ASSUME NEW T, NEW s \in Seq(T), NEW x, NEW y
  PROVE  /\ x # y => Indices(Append(s, y), x) = Indices(s, x)
         /\ Indices(s, y) = {} => Alone(Indices(Append(s, y), y))
         /\ Indices(Append(s, y), y) # {}
<1> PICK r : r = Append(s, y)
  OBVIOUS
<1>1. /\ Len(s) \in Nat /\ DOMAIN s = 1 .. Len(s) /\ DOMAIN r = 1 .. Len(s) + 1
      /\ r[Len(s) + 1] = y /\ \A i \in 1 .. Len(s) : r[i] = s[i]
  BY AppendProperties, LenProperties
<1>2. Indices(r, x) = Indices(s, x) \cup (IF x = y THEN {Len(s) + 1} ELSE {})
  BY <1>1 DEF Indices
<1>3. Indices(r, y) = Indices(s, y) \cup {Len(s) + 1}
  BY <1>1 DEF Indices
<1>4. QED
  BY <1>2, <1>3 DEF Alone

LEMMA FoundTail ==
  ASSUME NEW T, NEW s \in Seq(T), s # <<>>, NEW r, r = Tail(s), NEW k, NEW K
  PROVE  /\ Fewer(Found(s, k, K), Found(r, k, K))
         /\ Head(s).file = k /\ Head(s).kind \in K =>
              Found(s, k, K) # {} /\ (Alone(Found(s, k, K)) => Found(r, k, K) = {})
<1>1. /\ Len(s) \in Nat \ {0} /\ DOMAIN s = 1 .. Len(s) /\ DOMAIN r = 1 .. Len(s) - 1
      /\ Head(s) = s[1] /\ \A i \in DOMAIN r : r[i] = s[i + 1]
  BY HeadTailProperties, LenProperties, EmptySeq
<1>2. \A i \in Found(r, k, K) : i \in Nat \ {0} /\ i + 1 \in Found(s, k, K)
  BY <1>1 DEF Found
<1>3. Fewer(Found(s, k, K), Found(r, k, K))
  <2>1. Found(s, k, K) = {} => Found(r, k, K) = {}
    BY <1>2
  <2>2. ASSUME Alone(Found(s, k, K)), NEW x \in Found(r, k, K), NEW y \in Found(r, k, K)
        PROVE  x = y
    <3>1. x + 1 = y + 1 /\ x \in Nat /\ y \in Nat
      BY <1>2, <2>2 DEF Alone
    <3>2. QED
      BY <3>1
  <2>3. QED
    BY <2>1, <2>2 DEF Fewer, Alone
<1>4. ASSUME Head(s).file = k, Head(s).kind \in K
      PROVE  Found(s, k, K) # {} /\ (Alone(Found(s, k, K)) => Found(r, k, K) = {})
  <2>1. 1 \in Found(s, k, K)
    BY <1>1, <1>4 DEF Found
  <2>2. ASSUME Alone(Found(s, k, K)), NEW x \in Found(r, k, K)
        PROVE  FALSE
    <3>1. x + 1 = 1 /\ x \in Nat \ {0}
      BY <1>2, <2>1, <2>2 DEF Alone
    <3>2. QED
      BY <3>1
  <2>3. QED
    BY <2>1, <2>2
<1>5. QED
  BY <1>3, <1>4

LEMMA FoundJoined ==
  ASSUME NEW T, NEW s \in Seq(T), NEW t \in Seq(T), NEW k, NEW K
  PROVE  /\ Found(t, k, K) = {} => Found(s \o t, k, K) = Found(s, k, K)
         /\ Found(s, k, K) = {} /\ Alone(Found(t, k, K)) => Alone(Found(s \o t, k, K))
<1> PICK r : r = s \o t
  OBVIOUS
<1>1. /\ Len(s) \in Nat /\ Len(t) \in Nat /\ DOMAIN s = 1 .. Len(s) /\ DOMAIN t = 1 .. Len(t)
      /\ DOMAIN r = 1 .. Len(s) + Len(t) /\ \A i \in 1 .. Len(s) : r[i] = s[i]
      /\ \A i \in 1 .. Len(t) : r[Len(s) + i] = t[i]
  BY ConcatProperties, LenProperties
<1>2. ASSUME NEW i \in DOMAIN r, i \notin DOMAIN s
      PROVE  i - Len(s) \in DOMAIN t /\ r[i] = t[i - Len(s)]
  <2>1. i - Len(s) \in 1 .. Len(t) /\ Len(s) + (i - Len(s)) = i
    BY <1>1, <1>2
  <2>2. QED
    BY <1>1, <2>1
<1>3. \A i \in Found(r, k, K) : i \in Found(s, k, K) \/ i - Len(s) \in Found(t, k, K)
  BY <1>1, <1>2 DEF Found
<1>4. Found(s, k, K) \subseteq Found(r, k, K)
  BY <1>1 DEF Found
<1>5. ASSUME Found(s, k, K) = {}, Alone(Found(t, k, K))
      PROVE  Alone(Found(r, k, K))
  <2> SUFFICES ASSUME NEW x \in Found(r, k, K), NEW y \in Found(r, k, K)
               PROVE  x = y
    BY DEF Alone
  <2>1. x - Len(s) = y - Len(s)
    BY <1>3, <1>5 DEF Alone
  <2>2. x \in Int /\ y \in Int /\ Len(s) \in Int
    BY <1>1 DEF Found
  <2>3. QED
    BY <2>1, <2>2
<1>6. QED
  BY <1>3, <1>4, <1>5

LEMMA MessageFields ==
  \A kind, k : Msg(kind, k).kind = kind /\ Msg(kind, k).file = k
BY DEF Msg

LEMMA RangeFound ==
  ASSUME NEW s, NEW i \in DOMAIN s
  PROVE  s[i] \in Range(s)
BY DEF Range

LEMMA AsksAndOrders ==
  \A m : m \in Asks \/ m \in Orders => m = Msg(m.kind, m.file)
BY DEF Asks, Orders, Msg

-----------------------------------------------------------------------------
(* Where each action takes the request of every file. *)

\* What session waits to ask of an uploader is that uploader's.
Filed ==
  \A p \in Uploaders : \A i \in DOMAIN pending_downloads[p] :
    UploaderOf[pending_downloads[p][i]] = p

LEMMA StaysPut ==
  ASSUME NEW j \in Files
  PROVE  /\ bus' = bus => /\ Asked(j)' = Asked(j) /\ Connecting(j)' = Connecting(j)
                          /\ Told(j)' = Told(j)
         /\ pending_downloads' = pending_downloads => Waiting(j)' = Waiting(j)
         /\ cmds' = cmds => Ordered(j)' = Ordered(j)
         /\ dialing' = dialing /\ writing' = writing => Trying(j)' = Trying(j)
         /\ pending' = pending => Held(j)' = Held(j)
         /\ by_token' = by_token => TokensOf(j)' = TokensOf(j)
         /\ streams' = streams => StreamsOf(j)' = StreamsOf(j)
<1>1. bus' = bus => /\ Asked(j)' = Asked(j) /\ Connecting(j)' = Connecting(j)
                    /\ Told(j)' = Told(j)
  BY DEF Asked, Connecting, Told
<1>2. /\ pending_downloads' = pending_downloads => Waiting(j)' = Waiting(j)
      /\ cmds' = cmds => Ordered(j)' = Ordered(j)
      /\ dialing' = dialing /\ writing' = writing => Trying(j)' = Trying(j)
      /\ pending' = pending => Held(j)' = Held(j)
  BY DEF Waiting, Ordered, Trying, Held
<1>3. /\ by_token' = by_token => TokensOf(j)' = TokensOf(j)
      /\ streams' = streams => StreamsOf(j)' = StreamsOf(j)
  BY DEF TokensOf, StreamsOf
<1>4. QED
  BY <1>1, <1>2, <1>3

\* A message at the end of the bus.
LEMMA BusBecomes ==
  ASSUME NEW b \in Seq(Asks), NEW j \in Files, NEW m, bus' = Append(b, m)
  PROVE  /\ m.file # j \/ m.kind # "StartDownload" =>
              Asked(j)' = Found(b, j, {"StartDownload"})
         /\ m.file # j \/ m.kind # "PeerDownloadConnect" =>
              Connecting(j)' = Found(b, j, {"PeerDownloadConnect"})
         /\ m.file # j \/ m.kind \notin {"DownloadComplete", "DownloadFailed"} =>
              Told(j)' = Found(b, j, {"DownloadComplete", "DownloadFailed"})
         /\ Found(b, j, {"StartDownload"}) = {} => Alone(Asked(j)')
         /\ Found(b, j, {"DownloadComplete", "DownloadFailed"}) = {} => Alone(Told(j)')
<1>2. /\ m.file # j \/ m.kind # "StartDownload" => Asked(j)' = Found(b, j, {"StartDownload"})
      /\ Found(b, j, {"StartDownload"}) = {} => Alone(Asked(j)')
  BY FoundAppend DEF Asked
<1>3. m.file # j \/ m.kind # "PeerDownloadConnect" =>
        Connecting(j)' = Found(b, j, {"PeerDownloadConnect"})
  BY FoundAppend DEF Connecting
<1>4. /\ m.file # j \/ m.kind \notin {"DownloadComplete", "DownloadFailed"} =>
           Told(j)' = Found(b, j, {"DownloadComplete", "DownloadFailed"})
      /\ Found(b, j, {"DownloadComplete", "DownloadFailed"}) = {} => Alone(Told(j)')
  BY FoundAppend DEF Told
<1>5. QED
  BY <1>2, <1>3, <1>4

LEMMA BusGains ==
  ASSUME TypeOK, NEW j \in Files, NEW m, bus' = Append(bus, m)
  PROVE  /\ m.file # j \/ m.kind # "StartDownload" => Asked(j)' = Asked(j)
         /\ m.file # j \/ m.kind # "PeerDownloadConnect" => Connecting(j)' = Connecting(j)
         /\ m.file # j \/ m.kind \notin {"DownloadComplete", "DownloadFailed"} =>
              Told(j)' = Told(j)
         /\ Asked(j) = {} => Alone(Asked(j)')
         /\ Told(j) = {} => Alone(Told(j)')
<1>1. bus \in Seq(Asks)
  BY DEF TypeOK, TypeQueues
<1>2. PICK b \in Seq(Asks) : b = bus /\ bus' = Append(b, m)
  BY <1>1
<1>3. /\ Asked(j) = Found(b, j, {"StartDownload"})
      /\ Connecting(j) = Found(b, j, {"PeerDownloadConnect"})
      /\ Told(j) = Found(b, j, {"DownloadComplete", "DownloadFailed"})
  BY <1>2 DEF Asked, Connecting, Told
<1>4. QED
  BY <1>2, <1>3, BusBecomes

\* The head of the bus is handled.
LEMMA BusLoses ==
  ASSUME TypeOK, NEW j \in Files, bus # <<>>, bus' = Tail(bus)
  PROVE  /\ Fewer(Asked(j), Asked(j)') /\ Fewer(Connecting(j), Connecting(j)')
         /\ Fewer(Told(j), Told(j)')
<1>1. bus \in Seq(Asks)
  BY DEF TypeOK, TypeQueues
<1>2. \A K : Fewer(Found(bus, j, K), Found(bus', j, K))
  BY <1>1, FoundTail
<1>3. QED
  BY <1>2 DEF Asked, Connecting, Told

LEMMA SameIsFewer == \A A : Fewer(A, A)
BY DEF Fewer

LEMMA UserJourney ==
  ASSUME TypeOK, User, NEW j \in Files
  PROVE  \/ Shrinks(Place(j), Place(j)', {})
         \/ /\ ClickDownload(j) /\ Shrinks(Place(j), Place(j)', {"asked"})
            /\ Quiet(j) => Place(j).asked = {} /\ Alone(Place(j)'.asked)
<1> PICK k \in Files : ClickDownload(k) \/ ClickCancel(k) \/ ClickPause(k)
  BY DEF User
<1>1. PICK kind \in {"StartDownload", "CancelDownload", "PauseDownload"} :
        Click(kind, k) /\ (kind = "StartDownload" <=> ClickDownload(k))
  <2>1. CASE ClickDownload(k)
    BY <2>1 DEF ClickDownload
  <2>2. CASE ~ ClickDownload(k)
    BY <2>2 DEF ClickCancel, ClickPause
  <2>3. QED
    BY <2>1, <2>2
<1>2. /\ bus' = Append(bus, Msg(kind, k))
      /\ pending_downloads' = pending_downloads /\ cmds' = cmds /\ dialing' = dialing
      /\ writing' = writing /\ pending' = pending /\ by_token' = by_token /\ streams' = streams
  BY <1>1 DEF Click, session, attempt, registry
<1>3. /\ Waiting(j)' = Waiting(j) /\ Ordered(j)' = Ordered(j) /\ Trying(j)' = Trying(j)
      /\ Held(j)' = Held(j) /\ TokensOf(j)' = TokensOf(j) /\ StreamsOf(j)' = StreamsOf(j)
  BY <1>2, StaysPut
<1>4. /\ Connecting(j)' = Connecting(j) /\ Told(j)' = Told(j)
      /\ Asked(j) = {} => Alone(Asked(j)')
      /\ k # j \/ kind # "StartDownload" => Asked(j)' = Asked(j)
  BY <1>1, <1>2, BusGains, MessageFields
<1>5. Shrinks(Place(j), Place(j)', {"asked"})
  BY <1>3, <1>4, SameIsFewer DEF Shrinks, Spots, Place
<1>6. CASE k # j \/ kind # "StartDownload"
  BY <1>3, <1>4, <1>6, SameIsFewer DEF Shrinks, Spots, Place
<1>7. CASE k = j /\ kind = "StartDownload"
  <2>1. Quiet(j) => Asked(j) = {}
    <3> SUFFICES ASSUME Quiet(j), NEW i \in Asked(j)
                 PROVE  FALSE
      OBVIOUS
    <3>1. i \in DOMAIN bus /\ bus[i].file = j /\ bus[i].kind = "StartDownload"
      BY DEF Asked, Found
    <3>2. bus[i] \in Asks
      BY <3>1, ElementOfSeq, LenProperties DEF TypeOK, TypeQueues
    <3>3. Msg("StartDownload", j) \in Range(bus)
      BY <3>1, <3>2, AsksAndOrders, RangeFound
    <3>4. QED
      BY <3>3 DEF Quiet, Clicks
  <2>2. QED
    BY <1>1, <1>4, <1>5, <1>7, <2>1 DEF Place
<1>8. QED
  BY <1>6, <1>7

LEMMA BusStartJourney ==
  ASSUME TypeOK, BusStartDownload, NEW j \in Files
  PROVE  \/ Journey(Place(j), Place(j)')
         \/ Head(bus).file = j /\ Started(Place(j), Place(j)')
<1> PICK k \in Files : k = Head(bus).file
  BY HeadOfBus DEF BusStartDownload, Handled
<1> DEFINE p == UploaderOf[k]
<1>1. /\ bus # <<>> /\ Head(bus).kind = "StartDownload"
      /\ cmds' = cmds /\ dialing' = dialing /\ writing' = writing /\ pending' = pending
      /\ by_token' = by_token /\ streams' = streams
  BY DEF BusStartDownload, Handled, attempt, registry
<1>2. /\ Ordered(j)' = Ordered(j) /\ Trying(j)' = Trying(j) /\ Held(j)' = Held(j)
      /\ TokensOf(j)' = TokensOf(j) /\ StreamsOf(j)' = StreamsOf(j)
  BY <1>1, StaysPut
<1>3. bus \in Seq(Asks) /\ Tail(bus) \in Seq(Asks) /\ UploaderOf[k] \in Uploaders
  BY <1>1, HeadOfBus, DownloadsAssumption DEF TypeOK, TypeQueues
<1> PICK b \in Seq(Asks) : b = Tail(bus)
  BY <1>3
<1>4. /\ Fewer(Asked(j), Found(b, j, {"StartDownload"}))
      /\ k = j => /\ Asked(j) # {}
                  /\ Alone(Asked(j)) => Found(b, j, {"StartDownload"}) = {}
      /\ Fewer(Connecting(j), Found(b, j, {"PeerDownloadConnect"}))
      /\ Fewer(Told(j), Found(b, j, {"DownloadComplete", "DownloadFailed"}))
  <2>1. /\ Fewer(Asked(j), Found(b, j, {"StartDownload"}))
        /\ k = j => /\ Asked(j) # {}
                    /\ Alone(Asked(j)) => Found(b, j, {"StartDownload"}) = {}
    BY <1>1, <1>3, FoundTail DEF Asked
  <2>2. Fewer(Connecting(j), Found(b, j, {"PeerDownloadConnect"}))
    BY <1>1, <1>3, FoundTail DEF Connecting
  <2>3. Fewer(Told(j), Found(b, j, {"DownloadComplete", "DownloadFailed"}))
    BY <1>1, <1>3, FoundTail DEF Told
  <2>4. QED
    BY <2>1, <2>2, <2>3
<1>5. CASE /\ bus' = Tail(bus)
           /\ pending_downloads' = [pending_downloads EXCEPT ![p] = Append(@, k)]
  <2>1. /\ Fewer(Asked(j), Asked(j)') /\ Fewer(Connecting(j), Connecting(j)')
        /\ Fewer(Told(j), Told(j)')
        /\ k = j => Asked(j) # {} /\ (Alone(Asked(j)) => Asked(j)' = {})
    BY <1>4, <1>5 DEF Asked, Connecting, Told
  <2>2. PICK q \in Seq(Files) : q = pending_downloads[p]
    BY <1>3 DEF TypeOK, TypeSession
  <2>3. /\ k # j => Indices(Append(q, k), j) = Indices(q, j)
        /\ k = j /\ Indices(q, j) = {} => Alone(Indices(Append(q, k), j))
    BY IndicesAppend
  <2>4. /\ UploaderOf[j] = p => pending_downloads'[UploaderOf[j]] = Append(q, k)
        /\ UploaderOf[j] # p => pending_downloads'[UploaderOf[j]] = pending_downloads[UploaderOf[j]]
    BY <1>3, <1>5, <2>2, DownloadsAssumption DEF TypeOK, TypeSession
  <2>5. CASE k # j
    <3>1. Waiting(j)' = Waiting(j)
      BY <2>2, <2>3, <2>4, <2>5 DEF Waiting
    <3>2. QED
      BY <1>2, <2>1, <2>5, <3>1, SameIsFewer DEF Journey, Shrinks, Spots, Place
  <2>6. CASE k = j
    <3>2. Waiting(j) = {} => Alone(Waiting(j)')
      BY <2>2, <2>3, <2>4, <2>6 DEF Waiting
    <3>3. Shrinks(Place(j), Place(j)', {"waiting"})
      BY <1>2, <2>1, SameIsFewer DEF Shrinks, Spots, Place
    <3>4. Moves(Place(j), Place(j)', "asked", "waiting")
      BY <2>1, <2>6, <3>2, <3>3 DEF Moves, Place
    <3>5. QED
      BY <2>6, <3>4 DEF Started
  <2>7. QED
    BY <2>5, <2>6
<1>6. CASE /\ bus' = Append(Tail(bus), Msg("DownloadFailed", k))
           /\ pending_downloads' = pending_downloads
  <2>1. Waiting(j)' = Waiting(j)
    BY <1>6, StaysPut
  <2>2. /\ Asked(j)' = Found(b, j, {"StartDownload"})
        /\ Connecting(j)' = Found(b, j, {"PeerDownloadConnect"})
        /\ k # j => Told(j)' = Found(b, j, {"DownloadComplete", "DownloadFailed"})
        /\ Found(b, j, {"DownloadComplete", "DownloadFailed"}) = {} => Alone(Told(j)')
    <3>1. PICK m : bus' = Append(b, m) /\ m.file = k /\ m.kind = "DownloadFailed"
      BY <1>6, MessageFields
    <3>2. QED
      BY <3>1, BusBecomes
  <2>3. /\ Fewer(Asked(j), Asked(j)') /\ Fewer(Connecting(j), Connecting(j)')
        /\ k # j => Fewer(Told(j), Told(j)')
        /\ k = j => Asked(j) # {} /\ (Alone(Asked(j)) => Asked(j)' = {})
    BY <1>4, <2>2
  <2>4. Told(j) = {} => Alone(Told(j)')
    BY <1>4, <2>2 DEF Fewer
  <2>5. CASE k # j
    BY <1>2, <2>1, <2>3, <2>5, SameIsFewer DEF Journey, Shrinks, Spots, Place
  <2>6. CASE k = j
    <3>1. Shrinks(Place(j), Place(j)', {"told"})
      BY <1>2, <2>1, <2>3, SameIsFewer DEF Shrinks, Spots, Place
    <3>2. Moves(Place(j), Place(j)', "asked", "told")
      BY <2>3, <2>4, <2>6, <3>1 DEF Moves, Place
    <3>3. QED
      BY <2>6, <3>2 DEF Started
  <2>7. QED
    BY <2>5, <2>6
<1>7. QED
  BY <1>5, <1>6 DEF BusStartDownload

LEMMA BusWorkerJourney ==
  ASSUME TypeOK, BusWorker, NEW j \in Files
  PROVE  \/ Journey(Place(j), Place(j)')
         \/ BusStartDownload /\ Head(bus).file = j /\ Started(Place(j), Place(j)')
<1>1. CASE BusStartDownload
  BY <1>1, BusStartJourney
<1>2. CASE ~ BusStartDownload
  <2>1. /\ bus # <<>> /\ bus' = Tail(bus) /\ dialing' = dialing /\ writing' = writing
        /\ pending_downloads' = pending_downloads /\ pending' = pending
        /\ by_token' = by_token /\ streams' = streams
    BY <1>2 DEF BusWorker, BusCancelOrPause, BusPeerDownloadConnect, BusOutcome,
       BusDownloadQueuePosition, Handled, session, attempt, registry
  <2>2. /\ Waiting(j)' = Waiting(j) /\ Trying(j)' = Trying(j) /\ Held(j)' = Held(j)
        /\ TokensOf(j)' = TokensOf(j) /\ StreamsOf(j)' = StreamsOf(j)
    BY <2>1, StaysPut
  <2>3. /\ Fewer(Asked(j), Asked(j)') /\ Fewer(Connecting(j), Connecting(j)')
        /\ Fewer(Told(j), Told(j)')
    BY <2>1, BusLoses
  <2> PICK k \in Files : k = Head(bus).file
    BY <2>1, HeadOfBus
  <2>4. cmds \in Seq(Orders)
    BY DEF TypeOK, TypeQueues
  <2>5. CASE BusPeerDownloadConnect /\ k = j
    <3>1. cmds' = Append(cmds, Msg("Download", j)) /\ Head(bus).kind = "PeerDownloadConnect"
      BY <2>5 DEF BusPeerDownloadConnect, Handled
    <3>2. Ordered(j) = {} => Alone(Ordered(j)')
      BY <2>4, <3>1, FoundAppend DEF Ordered
    <3>3. Connecting(j) # {} /\ (Alone(Connecting(j)) => Connecting(j)' = {})
      <4>1. bus \in Seq(Asks) /\ Head(bus).file = j
        BY <2>5 DEF TypeOK, TypeQueues
      <4>2. QED
        BY <2>1, <3>1, <4>1, FoundTail DEF Connecting
    <3>4. Shrinks(Place(j), Place(j)', {"ordered"})
      BY <2>2, <2>3, SameIsFewer DEF Shrinks, Spots, Place
    <3>5. Moves(Place(j), Place(j)', "connecting", "ordered")
      BY <3>2, <3>3, <3>4 DEF Moves, Place
    <3>6. QED
      BY <3>5 DEF Journey, Routes
  <2>6. CASE ~ (BusPeerDownloadConnect /\ k = j)
    <3>1. \/ cmds' = cmds
          \/ cmds' = Append(cmds, Msg("CancelDownload", k))
          \/ cmds' = Append(cmds, Msg("Download", k)) /\ k # j
      BY <1>2, <2>6 DEF BusWorker, BusCancelOrPause, BusPeerDownloadConnect, BusOutcome,
         BusDownloadQueuePosition
    <3>2. Ordered(j)' = Ordered(j)
      <4>1. PICK m : /\ cmds' = cmds \/ cmds' = Append(cmds, m)
                     /\ m.file # j \/ m.kind # "Download"
        <5>1. /\ Msg("CancelDownload", k).kind # "Download"
              /\ Msg("Download", k).file = k
          BY MessageFields
        <5>2. QED
          BY <3>1, <5>1
      <4>2. QED
        <5>1. CASE cmds' = cmds
          BY <5>1 DEF Ordered
        <5>2. CASE cmds' = Append(cmds, m)
          BY <2>4, <4>1, <5>2, FoundAppend DEF Ordered
        <5>3. QED
          BY <4>1, <5>1, <5>2
    <3>3. QED
      BY <2>2, <2>3, <3>2, SameIsFewer DEF Journey, Shrinks, Spots, Place
  <2>7. QED
    BY <2>5, <2>6
<1>3. QED
  BY <1>1, <1>2

LEMMA SubsetIsFewer == \A A, B : B \subseteq A => Fewer(A, B)
BY DEF Fewer, Alone

LEMMA ServerJourney ==
  ASSUME TypeOK, Filed, Server, NEW j \in Files
  PROVE  Journey(Place(j), Place(j)')
<1>1. /\ cmds' = cmds /\ dialing' = dialing /\ writing' = writing /\ pending' = pending
      /\ by_token' = by_token /\ streams' = streams
  BY DEF Server, GetPeerAddress, NetConnClosed, LoginResponse, attempt, registry
<1>2. /\ Ordered(j)' = Ordered(j) /\ Trying(j)' = Trying(j) /\ Held(j)' = Held(j)
      /\ TokensOf(j)' = TokensOf(j) /\ StreamsOf(j)' = StreamsOf(j)
  BY <1>1, StaysPut
<1>3. CASE bus' = bus /\ pending_downloads' = pending_downloads
  <2>1. /\ Asked(j)' = Asked(j) /\ Connecting(j)' = Connecting(j) /\ Told(j)' = Told(j)
        /\ Waiting(j)' = Waiting(j)
    BY <1>3, StaysPut
  <2>2. QED
    BY <1>2, <2>1, SameIsFewer DEF Journey, Shrinks, Spots, Place
<1>4. ASSUME NEW p \in Uploaders, NEW online \in BOOLEAN, GetPeerAddress(p, online)
      PROVE  Journey(Place(j), Place(j)')
  <2> PICK q \in Seq(Files) : q = pending_downloads[p]
    BY DEF TypeOK, TypeSession
  <2> PICK kind \in {"PeerDownloadConnect", "DownloadFailed"} :
        kind = IF online THEN "PeerDownloadConnect" ELSE "DownloadFailed"
    OBVIOUS
  <2> PICK ms : ms = [i \in DOMAIN q |-> Msg(kind, q[i])]
    OBVIOUS
  <2>1. /\ bus' = bus \o ms /\ pending_downloads' = [pending_downloads EXCEPT ![p] = <<>>]
    BY <1>4 DEF GetPeerAddress
  <2>2. bus \in Seq(Asks) /\ ms \in Seq(Asks)
    <3>1. \A i \in DOMAIN q : Msg(kind, q[i]) \in Asks
      BY MessagesTyped, ElementOfSeq, LenProperties DEF BusKinds
    <3>2. QED
      BY <3>1 DEF TypeOK, TypeQueues
  <2>3. \A K : IF kind \in K THEN Found(ms, j, K) = Indices(q, j) ELSE Found(ms, j, K) = {}
    <3>1. DOMAIN ms = DOMAIN q /\ \A i \in DOMAIN q : ms[i].file = q[i] /\ ms[i].kind = kind
      BY MessageFields
    <3>2. QED
      BY <3>1 DEF Found, Indices
  <2>4. Asked(j)' = Asked(j)
    <3>1. Found(ms, j, {"StartDownload"}) = {}
      BY <2>3
    <3>2. QED
      BY <2>1, <2>2, <3>1, FoundJoined DEF Asked
  <2>5. CASE Indices(q, j) = {}
    <3>1. Found(ms, j, {"PeerDownloadConnect"}) = {}
      BY <2>3, <2>5
    <3>2. Found(ms, j, {"DownloadComplete", "DownloadFailed"}) = {}
      BY <2>3, <2>5
    <3>3. Connecting(j)' = Connecting(j)
      BY <2>1, <2>2, <3>1, FoundJoined DEF Connecting
    <3>4. Told(j)' = Told(j)
      BY <2>1, <2>2, <3>2, FoundJoined DEF Told
    <3>5. Fewer(Waiting(j), Waiting(j)')
      <4>1. CASE UploaderOf[j] = p
        <5>1. pending_downloads'[UploaderOf[j]] = <<>>
          BY <2>1, <4>1, DownloadsAssumption DEF TypeOK, TypeSession
        <5>2. Waiting(j)' = {}
          BY <5>1 DEF Waiting, Indices
        <5>3. QED
          BY <5>2 DEF Fewer, Alone
      <4>2. CASE UploaderOf[j] # p
        <5>1. pending_downloads'[UploaderOf[j]] = pending_downloads[UploaderOf[j]]
          BY <2>1, <4>2, DownloadsAssumption DEF TypeOK, TypeSession
        <5>2. QED
          BY <5>1, SameIsFewer DEF Waiting
      <4>3. QED
        BY <4>1, <4>2
    <3>6. QED
      BY <1>2, <2>4, <3>3, <3>4, <3>5, SameIsFewer DEF Journey, Shrinks, Spots, Place
  <2>6. CASE Indices(q, j) # {}
    <3>1. UploaderOf[j] = p
      BY <2>6 DEF Filed, Indices
    <3>2. Waiting(j) = Indices(q, j)
      BY <3>1 DEF Waiting
    <3>3. Waiting(j)' = {}
      <4>1. pending_downloads'[UploaderOf[j]] = <<>>
        BY <2>1, <3>1, DownloadsAssumption DEF TypeOK, TypeSession
      <4>2. QED
        BY <4>1 DEF Waiting, Indices
    <3>4. CASE kind = "PeerDownloadConnect"
      <4>1. /\ Found(ms, j, {"PeerDownloadConnect"}) = Waiting(j)
            /\ Found(ms, j, {"DownloadComplete", "DownloadFailed"}) = {}
        BY <2>3, <3>2, <3>4
      <4>2. Told(j)' = Told(j)
        BY <2>1, <2>2, <4>1, FoundJoined DEF Told
      <4>3. Alone(Waiting(j)) /\ Connecting(j) = {} => Alone(Connecting(j)')
        BY <2>1, <2>2, <4>1, FoundJoined DEF Connecting
      <4>4. Shrinks(Place(j), Place(j)', {"connecting"})
        BY <1>2, <2>4, <3>3, <4>2, SameIsFewer DEF Shrinks, Spots, Place, Fewer, Alone
      <4>5. Moves(Place(j), Place(j)', "waiting", "connecting")
        BY <2>6, <3>2, <3>3, <4>3, <4>4 DEF Moves, Place
      <4>6. QED
        BY <4>5 DEF Journey, Routes
    <3>5. CASE kind = "DownloadFailed"
      <4>1. /\ Found(ms, j, {"PeerDownloadConnect"}) = {}
            /\ Found(ms, j, {"DownloadComplete", "DownloadFailed"}) = Waiting(j)
        BY <2>3, <3>2, <3>5
      <4>2. Connecting(j)' = Connecting(j)
        BY <2>1, <2>2, <4>1, FoundJoined DEF Connecting
      <4>3. Alone(Waiting(j)) /\ Told(j) = {} => Alone(Told(j)')
        BY <2>1, <2>2, <4>1, FoundJoined DEF Told
      <4>4. Shrinks(Place(j), Place(j)', {"told"})
        BY <1>2, <2>4, <3>3, <4>2, SameIsFewer DEF Shrinks, Spots, Place, Fewer, Alone
      <4>5. Moves(Place(j), Place(j)', "waiting", "told")
        BY <2>6, <3>2, <3>3, <4>3, <4>4 DEF Moves, Place
      <4>6. QED
        BY <4>5 DEF Journey, Routes
    <3>6. QED
      BY <3>4, <3>5
  <2>7. QED
    BY <2>5, <2>6
<1>5. QED
  BY <1>3, <1>4 DEF Server, NetConnClosed, LoginResponse

LEMMA TryingCounts ==
  ASSUME NEW d \in Nat, NEW w \in Nat
  PROVE  /\ 1 .. d + w = {} <=> d + w = 0
         /\ Alone(1 .. d + w) <=> d + w <= 1
<1>1. ASSUME d + w > 1
      PROVE  ~ Alone(1 .. d + w)
  <2>1. 1 \in 1 .. d + w /\ 2 \in 1 .. d + w
    BY <1>1
  <2>2. QED
    BY <2>1 DEF Alone
<1>2. QED
  BY <1>1 DEF Alone

LEMMA CommandJourney ==
  ASSUME TypeOK, CommandLoop, NEW j \in Files
  PROVE  Journey(Place(j), Place(j)')
<1>1. /\ cmds # <<>> /\ cmds' = Tail(cmds) /\ pending_downloads' = pending_downloads
      /\ streams' = streams /\ writing' = writing
  BY DEF CommandLoop, CmdDownload, CmdCancelDownload, CmdQueuePosition, NextCmd, session, attempt
<1> PICK k \in Files : k = Head(cmds).file
  BY <1>1, HeadOfCmds
<1>2. Waiting(j)' = Waiting(j) /\ StreamsOf(j)' = StreamsOf(j)
  BY <1>1, StaysPut
<1>3. cmds \in Seq(Orders)
  BY DEF TypeOK, TypeQueues
<1>4. Fewer(Ordered(j), Ordered(j)')
  BY <1>1, <1>3, FoundTail DEF Ordered
<1>5. CASE CmdDownload
  <2>1. /\ Head(cmds).kind = "Download" /\ dialing' = [dialing EXCEPT ![k] = @ + 1]
        /\ bus' = bus /\ pending' = pending /\ by_token' = by_token
    BY <1>5 DEF CmdDownload, NextCmd, registry
  <2>2. /\ Asked(j)' = Asked(j) /\ Connecting(j)' = Connecting(j) /\ Told(j)' = Told(j)
        /\ Held(j)' = Held(j) /\ TokensOf(j)' = TokensOf(j)
    BY <2>1, StaysPut
  <2>3. CASE k # j
    <3>1. Trying(j)' = Trying(j)
      BY <1>1, <2>1, <2>3 DEF Trying, TypeOK, TypeAttempt
    <3>2. QED
      BY <1>2, <1>4, <2>2, <3>1, SameIsFewer DEF Journey, Shrinks, Spots, Place
  <2>4. CASE k = j
    <3>1. PICK d \in Nat, w \in Nat : d = dialing[j] /\ w = writing[j]
      BY DEF TypeOK, TypeAttempt
    <3>2. dialing'[j] = d + 1 /\ writing'[j] = w
      BY <1>1, <2>1, <2>4, <3>1 DEF TypeOK, TypeAttempt
    <3>3. Trying(j) = 1 .. d + w /\ Trying(j)' = 1 .. (d + 1) + w
      BY <3>1, <3>2 DEF Trying
    <3>4. Trying(j) = {} => Alone(Trying(j)')
      <4>1. 1 .. d + w = {} => d + w = 0
        BY TryingCounts
      <4>2. PICK e \in Nat : e = d + 1
        OBVIOUS
      <4>3. e + w <= 1 => Alone(1 .. e + w)
        BY TryingCounts
      <4>4. d + w = 0 => e + w <= 1
        BY <4>2
      <4>5. Trying(j)' = 1 .. e + w
        BY <3>3, <4>2
      <4>6. QED
        BY <3>3, <4>1, <4>3, <4>4, <4>5
    <3>5. Ordered(j) # {} /\ (Alone(Ordered(j)) => Ordered(j)' = {})
      <4>1. Head(cmds).file = j /\ Head(cmds).kind = "Download"
        BY <2>1, <2>4
      <4>2. QED
        BY <1>1, <1>3, <4>1, FoundTail DEF Ordered
    <3>6. Shrinks(Place(j), Place(j)', {"trying"})
      BY <1>2, <1>4, <2>2, SameIsFewer DEF Shrinks, Spots, Place
    <3>7. Moves(Place(j), Place(j)', "ordered", "trying")
      BY <3>4, <3>5, <3>6 DEF Moves, Place
    <3>8. QED
      BY <3>7 DEF Journey, Routes
  <2>5. QED
    BY <2>3, <2>4
<1>6. CASE CmdCancelDownload
  <2>1. /\ bus' = bus /\ dialing' = dialing /\ pending' = pending \ {k}
        /\ by_token' = Without(by_token, {t \in DOMAIN by_token : by_token[t] = k})
    BY <1>6 DEF CmdCancelDownload, NextCmd, attempt
  <2>2. /\ Asked(j)' = Asked(j) /\ Connecting(j)' = Connecting(j) /\ Told(j)' = Told(j)
        /\ Trying(j)' = Trying(j)
    BY <1>1, <2>1, StaysPut
  <2>3. Held(j)' \subseteq Held(j)
    BY <2>1 DEF Held
  <2>4. TokensOf(j)' \subseteq TokensOf(j)
    <3>1. /\ DOMAIN by_token' \subseteq DOMAIN by_token
          /\ \A t \in DOMAIN by_token' : by_token'[t] = by_token[t]
      BY <2>1 DEF Without, Restrict
    <3>2. QED
      BY <3>1 DEF TokensOf
  <2>5. QED
    BY <1>2, <1>4, <2>2, <2>3, <2>4, SameIsFewer, SubsetIsFewer
    DEF Journey, Shrinks, Spots, Place
<1>7. CASE CmdQueuePosition
  <2>1. /\ bus' = Append(bus, Msg("DownloadQueuePosition", k)) /\ dialing' = dialing
        /\ pending' = pending /\ by_token' = by_token
    BY <1>7 DEF CmdQueuePosition, NextCmd, attempt, registry
  <2>2. Trying(j)' = Trying(j) /\ Held(j)' = Held(j) /\ TokensOf(j)' = TokensOf(j)
    BY <1>1, <2>1, StaysPut
  <2>3. Asked(j)' = Asked(j) /\ Connecting(j)' = Connecting(j) /\ Told(j)' = Told(j)
    BY <2>1, BusGains, MessageFields
  <2>4. QED
    BY <1>2, <1>4, <2>2, <2>3, SameIsFewer DEF Journey, Shrinks, Spots, Place
<1>8. QED
  BY <1>5, <1>6, <1>7 DEF CommandLoop

LEMMA TaskJourney ==
  ASSUME TypeOK, NEW k \in Files, Attempt(k) \/ FromUploader(k), NEW j \in Files
  PROVE  Journey(Place(j), Place(j)')
<1>1. pending_downloads' = pending_downloads /\ by_token' = by_token /\ streams' = streams
  BY DEF Attempt, FromUploader, DialFails, SendQueueUpload, QueueingFails, RecordPending,
     OnRefused, OnPlaceInQueueResponse, session, registry
<1>2. Waiting(j)' = Waiting(j) /\ TokensOf(j)' = TokensOf(j) /\ StreamsOf(j)' = StreamsOf(j)
  BY <1>1, StaysPut
<1>3. PICK d \in Nat, w \in Nat : d = dialing[k] /\ w = writing[k]
  BY DEF TypeOK, TypeAttempt
<1>4. 1 .. d + w # {} => d + w # 0
  BY TryingCounts
<1>5. Alone(1 .. d + w) => d + w <= 1
  BY TryingCounts
<1>6. CASE DialFails(k) \/ QueueingFails(k)
  <2>1. /\ bus' = Append(bus, Msg("DownloadFailed", k)) /\ cmds' = cmds /\ pending' = pending
        /\ d + w > 0
    BY <1>3, <1>6 DEF DialFails, QueueingFails, registry
  <2>2. /\ Ordered(j)' = Ordered(j) /\ Held(j)' = Held(j) /\ Asked(j)' = Asked(j)
        /\ Connecting(j)' = Connecting(j) /\ (k # j => Told(j)' = Told(j))
        /\ Told(j) = {} => Alone(Told(j)')
    BY <2>1, StaysPut, BusGains, MessageFields
  <2>3. CASE k # j
    <3>1. Trying(j)' = Trying(j)
      BY <1>6, <2>3 DEF Trying, TypeOK, TypeAttempt, DialFails, QueueingFails
    <3>2. QED
      BY <1>2, <2>2, <2>3, <3>1, SameIsFewer DEF Journey, Shrinks, Spots, Place
  <2>4. CASE k = j
    <3>1. dialing'[k] + writing'[k] = (d + w) - 1
      BY <1>3, <1>6 DEF TypeOK, TypeAttempt, DialFails, QueueingFails
    <3>2. Trying(j) = 1 .. d + w /\ Trying(j)' = 1 .. (d + w) - 1
      BY <1>3, <2>4, <3>1 DEF Trying
    <3>3. Trying(j) # {} /\ (Alone(Trying(j)) => Trying(j)' = {})
      <4>1. 1 \in 1 .. d + w /\ (d + w <= 1 => 1 .. (d + w) - 1 = {})
        BY <2>1
      <4>2. QED
        BY <1>5, <3>2, <4>1
    <3>4. Shrinks(Place(j), Place(j)', {"told"})
      <4>1. Fewer(Trying(j), Trying(j)')
        BY <3>2, SubsetIsFewer
      <4>2. QED
        BY <1>2, <2>2, <4>1, SameIsFewer DEF Shrinks, Spots, Place
    <3>5. Moves(Place(j), Place(j)', "trying", "told")
      BY <2>2, <3>3, <3>4 DEF Moves, Place
    <3>6. QED
      BY <3>5 DEF Journey, Routes
  <2>5. QED
    BY <2>3, <2>4
<1>7. CASE RecordPending(k)
  <2>1. /\ bus' = bus /\ cmds' = cmds /\ pending' = pending \cup {k} /\ dialing' = dialing
        /\ writing' = [writing EXCEPT ![k] = @ - 1] /\ w > 0
    BY <1>3, <1>7 DEF RecordPending
  <2>2. /\ Ordered(j)' = Ordered(j) /\ Asked(j)' = Asked(j) /\ Connecting(j)' = Connecting(j)
        /\ Told(j)' = Told(j)
    BY <2>1, StaysPut
  <2>3. CASE k # j
    <3>1. Trying(j)' = Trying(j) /\ Held(j)' = Held(j)
      BY <2>1, <2>3 DEF Trying, Held, TypeOK, TypeAttempt
    <3>2. QED
      BY <1>2, <2>2, <3>1, SameIsFewer DEF Journey, Shrinks, Spots, Place
  <2>4. CASE k = j
    <3>1. dialing'[k] + writing'[k] = (d + w) - 1
      BY <1>3, <2>1 DEF TypeOK, TypeAttempt
    <3>2. Trying(j) = 1 .. d + w /\ Trying(j)' = 1 .. (d + w) - 1
      BY <1>3, <2>4, <3>1 DEF Trying
    <3>3. Trying(j) # {} /\ (Alone(Trying(j)) => Trying(j)' = {})
      <4>1. 1 \in 1 .. d + w /\ (d + w <= 1 => 1 .. (d + w) - 1 = {})
        BY <2>1
      <4>2. QED
        BY <1>5, <3>2, <4>1
    <3>4. Fewer(Trying(j), Trying(j)') /\ Alone(Held(j)')
      BY <3>2, SubsetIsFewer DEF Held, Alone
    <3>5. Shrinks(Place(j), Place(j)', {"held"})
      BY <1>2, <2>2, <3>4, SameIsFewer DEF Shrinks, Spots, Place
    <3>6. Moves(Place(j), Place(j)', "trying", "held")
      BY <3>3, <3>4, <3>5 DEF Moves, Place
    <3>7. QED
      BY <3>6 DEF Journey, Routes
  <2>5. QED
    BY <2>3, <2>4
<1>8. CASE SendQueueUpload(k)
  <2>1. /\ bus' = bus /\ cmds' = cmds /\ pending' = pending /\ d > 0
        /\ dialing' = [dialing EXCEPT ![k] = @ - 1] /\ writing' = [writing EXCEPT ![k] = @ + 1]
    BY <1>3, <1>8 DEF SendQueueUpload, registry
  <2>2. /\ Ordered(j)' = Ordered(j) /\ Asked(j)' = Asked(j) /\ Connecting(j)' = Connecting(j)
        /\ Told(j)' = Told(j) /\ Held(j)' = Held(j)
    BY <2>1, StaysPut
  <2>3. Trying(j)' = Trying(j)
    <3>1. dialing'[j] + writing'[j] = dialing[j] + writing[j]
      BY <1>3, <2>1 DEF TypeOK, TypeAttempt
    <3>2. QED
      BY <3>1 DEF Trying
  <2>4. QED
    BY <1>2, <2>2, <2>3, SameIsFewer DEF Journey, Shrinks, Spots, Place
<1>9. CASE OnRefused(k)
  <2>1. /\ cmds' = cmds /\ pending' = pending \ {k} /\ dialing' = dialing /\ writing' = writing
        /\ bus' = IF k \in pending THEN Append(bus, Msg("DownloadFailed", k)) ELSE bus
    BY <1>9 DEF OnRefused, attempt
  <2>2. Ordered(j)' = Ordered(j) /\ Trying(j)' = Trying(j)
    BY <2>1, StaysPut
  <2>3. Fewer(Held(j), Held(j)')
    BY <2>1, SubsetIsFewer DEF Held
  <2>4. CASE k \notin pending
    <3>1. Asked(j)' = Asked(j) /\ Connecting(j)' = Connecting(j) /\ Told(j)' = Told(j)
      BY <2>1, <2>4, StaysPut
    <3>2. QED
      BY <1>2, <2>2, <2>3, <3>1, SameIsFewer DEF Journey, Shrinks, Spots, Place
  <2>5. CASE k \in pending
    <3>1. /\ Asked(j)' = Asked(j) /\ Connecting(j)' = Connecting(j)
          /\ k # j => Told(j)' = Told(j)
          /\ Told(j) = {} => Alone(Told(j)')
      BY <2>1, <2>5, BusGains, MessageFields
    <3>2. CASE k # j
      BY <1>2, <2>2, <2>3, <3>1, <3>2, SameIsFewer DEF Journey, Shrinks, Spots, Place
    <3>3. CASE k = j
      <4>1. Held(j) # {} /\ Held(j)' = {}
        BY <2>1, <2>5, <3>3 DEF Held
      <4>2. Shrinks(Place(j), Place(j)', {"told"})
        BY <1>2, <2>2, <2>3, <3>1, SameIsFewer DEF Shrinks, Spots, Place
      <4>3. Moves(Place(j), Place(j)', "held", "told")
        BY <3>1, <4>1, <4>2 DEF Moves, Place
      <4>4. QED
        BY <4>3 DEF Journey, Routes
    <3>4. QED
      BY <3>2, <3>3
  <2>6. QED
    BY <2>4, <2>5
<1>10. CASE OnPlaceInQueueResponse(k)
  <2>1. /\ cmds' = Append(cmds, Msg("QueuePosition", k)) /\ bus' = bus /\ pending' = pending
        /\ dialing' = dialing /\ writing' = writing
    BY <1>10 DEF OnPlaceInQueueResponse, attempt, registry
  <2>2. /\ Asked(j)' = Asked(j) /\ Connecting(j)' = Connecting(j) /\ Told(j)' = Told(j)
        /\ Trying(j)' = Trying(j) /\ Held(j)' = Held(j)
    BY <2>1, StaysPut
  <2>3. Ordered(j)' = Ordered(j)
    <3>1. PICK m : cmds' = Append(cmds, m) /\ m.kind # "Download"
      BY <2>1, MessageFields
    <3>2. cmds \in Seq(Orders)
      BY DEF TypeOK, TypeQueues
    <3>3. QED
      BY <3>1, <3>2, FoundAppend DEF Ordered
  <2>4. QED
    BY <1>2, <2>2, <2>3, SameIsFewer DEF Journey, Shrinks, Spots, Place
<1>11. QED
  BY <1>6, <1>7, <1>8, <1>9, <1>10 DEF Attempt, FromUploader

LEMMA OfferJourney ==
  ASSUME TypeOK, NEW k \in Files, NEW tok \in Tokens, FromUploaderUnder(k, tok), NEW j \in Files
  PROVE  Journey(Place(j), Place(j)')
<1>1. /\ pending_downloads' = pending_downloads /\ bus' = bus /\ cmds' = cmds
      /\ dialing' = dialing /\ writing' = writing
  BY DEF FromUploaderUnder, OnTransferRequestUpload, RecvFile, session, attempt
<1>2. /\ Waiting(j)' = Waiting(j) /\ Asked(j)' = Asked(j) /\ Connecting(j)' = Connecting(j)
      /\ Told(j)' = Told(j) /\ Ordered(j)' = Ordered(j) /\ Trying(j)' = Trying(j)
  BY <1>1, StaysPut
<1>3. CASE pending' = pending /\ by_token' = by_token /\ streams' = streams
  <2>1. Held(j)' = Held(j) /\ TokensOf(j)' = TokensOf(j) /\ StreamsOf(j)' = StreamsOf(j)
    BY <1>3, StaysPut
  <2>2. QED
    BY <1>2, <2>1, SameIsFewer DEF Journey, Shrinks, Spots, Place
<1>4. CASE /\ streams' = streams /\ k \in pending /\ pending' = pending \ {k}
           /\ by_token' = With(by_token, tok, k)
  <2>1. StreamsOf(j)' = StreamsOf(j)
    BY <1>4, StaysPut
  <2>2. /\ DOMAIN by_token' = DOMAIN by_token \cup {tok} /\ by_token'[tok] = k
        /\ \A y \in DOMAIN by_token \ {tok} : by_token'[y] = by_token[y]
    BY <1>4 DEF With
  <2>3. CASE k # j
    <3>1. Held(j)' = Held(j) /\ TokensOf(j)' \subseteq TokensOf(j)
      BY <1>4, <2>2, <2>3 DEF Held, TokensOf
    <3>2. QED
      BY <1>2, <2>1, <3>1, SameIsFewer, SubsetIsFewer DEF Journey, Shrinks, Spots, Place
  <2>4. CASE k = j
    <3>1. Held(j) # {} /\ Held(j)' = {} /\ TokensOf(j)' = TokensOf(j) \cup {tok}
      BY <1>4, <2>2, <2>4 DEF Held, TokensOf
    <3>2. TokensOf(j) = {} => Alone(TokensOf(j)')
      BY <3>1 DEF Alone
    <3>3. Fewer(Held(j), Held(j)')
      BY <3>1 DEF Fewer, Alone
    <3>4. Shrinks(Place(j), Place(j)', {"token"})
      BY <1>2, <2>1, <3>3, SameIsFewer DEF Shrinks, Spots, Place
    <3>5. Moves(Place(j), Place(j)', "held", "token")
      BY <3>1, <3>2, <3>4 DEF Moves, Place
    <3>6. QED
      BY <3>5 DEF Journey, Routes
  <2>5. QED
    BY <2>3, <2>4
<1>5. ASSUME pending' = pending, tok \in DOMAIN by_token, by_token' = Without(by_token, {tok}),
             NEW r, streams' = With(streams, <<by_token[tok], tok>>, r)
      PROVE  Journey(Place(j), Place(j)')
  <2> PICK f \in Files : f = by_token[tok]
    BY <1>5 DEF TypeOK, TypeAttempt
  <2>1. Held(j)' = Held(j)
    BY <1>5, StaysPut
  <2>2. /\ DOMAIN by_token' = DOMAIN by_token \ {tok}
        /\ \A y \in DOMAIN by_token' : by_token'[y] = by_token[y]
    BY <1>5 DEF Without, Restrict
  <2>3. DOMAIN streams' = DOMAIN streams \cup {<<f, tok>>}
    BY <1>5 DEF With
  <2>4. TokensOf(j)' \subseteq TokensOf(j)
    BY <2>2 DEF TokensOf
  <2>5. CASE f # j
    <3>1. StreamsOf(j)' = StreamsOf(j)
      BY <2>3, <2>5 DEF StreamsOf
    <3>2. QED
      BY <1>2, <2>1, <2>4, <3>1, SameIsFewer, SubsetIsFewer DEF Journey, Shrinks, Spots, Place
  <2>6. CASE f = j
    <3>1. tok \in TokensOf(j) /\ tok \notin TokensOf(j)'
      BY <1>5, <2>2, <2>6 DEF TokensOf
    <3>2. Alone(TokensOf(j)) => TokensOf(j)' = {}
      BY <2>4, <3>1 DEF Alone
    <3>3. StreamsOf(j) = {} => Alone(StreamsOf(j)')
      BY <2>3, <2>6 DEF StreamsOf, Alone
    <3>4. Shrinks(Place(j), Place(j)', {"stream"})
      BY <1>2, <2>1, <2>4, SameIsFewer, SubsetIsFewer DEF Shrinks, Spots, Place
    <3>5. Moves(Place(j), Place(j)', "token", "stream")
      BY <3>1, <3>2, <3>3, <3>4 DEF Moves, Place
    <3>6. QED
      BY <3>5 DEF Journey, Routes
  <2>7. QED
    BY <2>5, <2>6
<1>6. QED
  BY <1>3, <1>4, <1>5 DEF FromUploaderUnder, OnTransferRequestUpload, RecvFile, registry,
     Negotiated

LEMMA StreamJourney ==
  ASSUME TypeOK, NEW k \in Files, NEW tok \in Tokens, Stream(k, tok), NEW j \in Files
  PROVE  Journey(Place(j), Place(j)')
<1> DEFINE s == <<k, tok>>
<1>1. /\ pending_downloads' = pending_downloads /\ cmds' = cmds /\ dialing' = dialing
      /\ writing' = writing /\ pending' = pending /\ by_token' = by_token
      /\ s \in DOMAIN streams
  BY DEF Stream, OpenPartial, Receive, StreamFails, StreamDone, session, attempt, registry
<1>2. /\ Waiting(j)' = Waiting(j) /\ Ordered(j)' = Ordered(j) /\ Trying(j)' = Trying(j)
      /\ Held(j)' = Held(j) /\ TokensOf(j)' = TokensOf(j)
  BY <1>1, StaysPut
<1>3. CASE OpenPartial(k, tok) \/ Receive(k, tok)
  <2>1. bus' = bus /\ DOMAIN streams' = DOMAIN streams
    BY <1>3 DEF OpenPartial, Receive
  <2>2. Asked(j)' = Asked(j) /\ Connecting(j)' = Connecting(j) /\ Told(j)' = Told(j)
    BY <2>1, StaysPut
  <2>3. StreamsOf(j)' = StreamsOf(j)
    BY <2>1 DEF StreamsOf
  <2>4. QED
    BY <1>2, <2>2, <2>3, SameIsFewer DEF Journey, Shrinks, Spots, Place
<1>4. CASE StreamFails(k, tok) \/ StreamDone(k, tok)
  <2>1. PICK m : /\ bus' = Append(bus, m) /\ m.file = k
                 /\ m.kind \in {"DownloadComplete", "DownloadFailed"}
    BY <1>4, MessageFields DEF StreamFails, StreamDone
  <2>2. /\ Asked(j)' = Asked(j) /\ Connecting(j)' = Connecting(j)
        /\ k # j => Told(j)' = Told(j)
        /\ Told(j) = {} => Alone(Told(j)')
    BY <2>1, BusGains
  <2>3. DOMAIN streams' = DOMAIN streams \ {s}
    BY <1>4 DEF StreamFails, StreamDone, Without, Restrict
  <2>4. StreamsOf(j)' = StreamsOf(j) \ {s}
    BY <2>3 DEF StreamsOf
  <2>5. Fewer(StreamsOf(j), StreamsOf(j)')
    BY <2>4, SubsetIsFewer
  <2>6. CASE k # j
    BY <1>2, <2>2, <2>5, <2>6, SameIsFewer DEF Journey, Shrinks, Spots, Place
  <2>7. CASE k = j
    <3>1. s \in StreamsOf(j)
      BY <1>1, <2>7 DEF StreamsOf
    <3>2. Alone(StreamsOf(j)) => StreamsOf(j)' = {}
      BY <2>4, <3>1 DEF Alone
    <3>3. Shrinks(Place(j), Place(j)', {"told"})
      BY <1>2, <2>2, <2>5, SameIsFewer DEF Shrinks, Spots, Place
    <3>4. Moves(Place(j), Place(j)', "stream", "told")
      BY <2>2, <3>1, <3>2, <3>3 DEF Moves, Place
    <3>5. QED
      BY <3>4 DEF Journey, Routes
  <2>8. QED
    BY <2>6, <2>7
<1>5. QED
  BY <1>3, <1>4 DEF Stream

LEMMA EveryJourney ==
  ASSUME TypeOK, Filed, [Next]_vars, NEW j \in Files
  PROVE  \/ Journey(Place(j), Place(j)')
         \/ BusStartDownload /\ Head(bus).file = j /\ Started(Place(j), Place(j)')
         \/ /\ ClickDownload(j) /\ Shrinks(Place(j), Place(j)', {"asked"})
            /\ Quiet(j) => Place(j).asked = {} /\ Alone(Place(j)'.asked)
<1>1. CASE User
  BY <1>1, UserJourney DEF Journey
<1>2. CASE UNCHANGED vars
  <2>1. /\ Asked(j)' = Asked(j) /\ Waiting(j)' = Waiting(j) /\ Connecting(j)' = Connecting(j)
        /\ Ordered(j)' = Ordered(j) /\ Trying(j)' = Trying(j) /\ Held(j)' = Held(j)
        /\ TokensOf(j)' = TokensOf(j) /\ StreamsOf(j)' = StreamsOf(j) /\ Told(j)' = Told(j)
    BY <1>2, StaysPut DEF vars, session, attempt, registry
  <2>2. QED
    BY <2>1, SameIsFewer DEF Journey, Shrinks, Spots, Place
<1>3. QED
  BY <1>1, <1>2, BusWorkerJourney, ServerJourney, CommandJourney, TaskJourney, OfferJourney,
     StreamJourney DEF Next

LEMMA FiledStep ==
  ASSUME TypeOK, Filed, [Next]_vars
  PROVE  Filed'
<1>1. CASE pending_downloads' = pending_downloads
  BY <1>1 DEF Filed
<1>2. CASE BusStartDownload /\ pending_downloads' # pending_downloads
  <2> PICK k \in Files : k = Head(bus).file
    BY <1>2, HeadOfBus DEF BusStartDownload, Handled
  <2> PICK p \in Uploaders : p = UploaderOf[k]
    BY DownloadsAssumption
  <2> PICK q \in Seq(Files) : q = pending_downloads[p]
    BY DEF TypeOK, TypeSession
  <2>1. pending_downloads' = [pending_downloads EXCEPT ![p] = Append(q, k)]
    BY <1>2 DEF BusStartDownload
  <2>2. /\ DOMAIN q = 1 .. Len(q) /\ Len(q) \in Nat /\ DOMAIN Append(q, k) = 1 .. Len(q) + 1
        /\ Append(q, k)[Len(q) + 1] = k /\ \A i \in 1 .. Len(q) : Append(q, k)[i] = q[i]
    BY AppendProperties, LenProperties
  <2>3. \A i \in DOMAIN Append(q, k) : UploaderOf[Append(q, k)[i]] = p
    <3> SUFFICES ASSUME NEW i \in DOMAIN Append(q, k)
                 PROVE  UploaderOf[Append(q, k)[i]] = p
      OBVIOUS
    <3>1. CASE i = Len(q) + 1
      BY <2>2, <3>1
    <3>2. CASE i \in 1 .. Len(q)
      BY <2>2, <3>2 DEF Filed
    <3>3. QED
      BY <2>2, <3>1, <3>2, SMTT(30)
  <2>4. QED
    BY <2>1, <2>3 DEF Filed, TypeOK, TypeSession
<1>3. ASSUME NEW p \in Uploaders, NEW online \in BOOLEAN, GetPeerAddress(p, online)
      PROVE  Filed'
  BY <1>3 DEF Filed, GetPeerAddress, TypeOK, TypeSession
<1>4. QED
  <2>1. User => pending_downloads' = pending_downloads
    BY DEF User, ClickDownload, ClickCancel, ClickPause, Click, session
  <2>2. BusWorker /\ ~ BusStartDownload => pending_downloads' = pending_downloads
    BY DEF BusWorker, BusCancelOrPause, BusPeerDownloadConnect, BusOutcome,
       BusDownloadQueuePosition, session
  <2>3. CommandLoop => pending_downloads' = pending_downloads
    BY DEF CommandLoop, CmdDownload, CmdCancelDownload, CmdQueuePosition, session
  <2>4. \A k \in Files : Attempt(k) \/ FromUploader(k) => pending_downloads' = pending_downloads
    BY DEF Attempt, FromUploader, DialFails, SendQueueUpload, QueueingFails, RecordPending,
       OnRefused, OnPlaceInQueueResponse, session
  <2>5. \A k \in Files, tok \in Tokens :
          FromUploaderUnder(k, tok) \/ Stream(k, tok) => pending_downloads' = pending_downloads
    BY DEF FromUploaderUnder, OnTransferRequestUpload, RecvFile, Stream, OpenPartial, Receive,
       StreamFails, StreamDone, session
  <2>6. UNCHANGED vars \/ NetConnClosed \/ LoginResponse => pending_downloads' = pending_downloads
    BY DEF vars, session, NetConnClosed, LoginResponse
  <2>7. QED
    BY <1>1, <1>2, <1>3, <2>1, <2>2, <2>3, <2>4, <2>5, <2>6 DEF Next, Server

-----------------------------------------------------------------------------
(* A cancel of a recorded request sticks. *)

LEMMA OnItsWayMeans ==
  ASSUME TypeOK, NEW k \in Files, ~ OnItsWay(k)
  PROVE  /\ Asked(k) = {} /\ Waiting(k) = {} /\ Connecting(k) = {} /\ Ordered(k) = {}
         /\ Trying(k) = {}
<1>1. bus \in Seq(Asks) /\ cmds \in Seq(Orders)
  BY DEF TypeOK, TypeQueues
<1>2. \A i \in DOMAIN bus : bus[i] \in Asks /\ bus[i] = Msg(bus[i].kind, bus[i].file)
  BY <1>1, ElementOfSeq, LenProperties, AsksAndOrders
<1>3. \A i \in DOMAIN cmds : cmds[i] \in Orders /\ cmds[i] = Msg(cmds[i].kind, cmds[i].file)
  BY <1>1, ElementOfSeq, LenProperties, AsksAndOrders
<1>4. /\ Msg("StartDownload", k) \notin Range(bus)
      /\ Msg("PeerDownloadConnect", k) \notin Range(bus)
      /\ k \notin Range(pending_downloads[UploaderOf[k]]) /\ Msg("Download", k) \notin Range(cmds)
      /\ ~ (dialing[k] + writing[k] > 0)
  BY DEF OnItsWay
<1>5. Asked(k) = {} /\ Connecting(k) = {}
  BY <1>2, <1>4, RangeFound DEF Asked, Connecting, Found
<1>6. Ordered(k) = {}
  BY <1>3, <1>4, RangeFound DEF Ordered, Found
<1>7. Waiting(k) = {}
  BY <1>4, RangeFound DEF Waiting, Indices
<1>8. Trying(k) = {}
  <2>1. PICK d \in Nat, w \in Nat : d = dialing[k] /\ w = writing[k]
    BY DEF TypeOK, TypeAttempt
  <2>2. d + w = 0
    BY <1>4, <2>1
  <2>3. 1 .. d + w = {}
    BY <2>2
  <2>4. QED
    BY <2>1, <2>3 DEF Trying
<1>9. QED
  BY <1>5, <1>6, <1>7, <1>8

Clear(P) == \A w \in Spots \ {"stream", "told"} : P[w] = {}

Gone == \A k \in Files : forgotten[k] = "recorded" => Clear(Place(k))

LEMMA ClearStays ==
  ASSUME NEW P, NEW Q, Clear(P), Journey(P, Q) \/ Started(P, Q)
  PROVE  Clear(Q)
<1>1. CASE Shrinks(P, Q, {})
  BY <1>1 DEF Clear, Shrinks, Fewer
<1>2. ASSUME NEW r \in Routes, Moves(P, Q, r[1], r[2])
      PROVE  Clear(Q)
  <2>1. r[1] \in Spots /\ (r[1] = "stream" => r[2] = "told") /\ r[1] # "told"
    BY DEF Routes, Spots
  <2>2. r[1] = "stream" /\ r[2] = "told"
    BY <1>2, <2>1 DEF Moves, Clear
  <2>3. Shrinks(P, Q, {"told"})
    BY <1>2, <2>2 DEF Moves
  <2>4. QED
    BY <2>3 DEF Clear, Shrinks, Fewer
<1>3. ~ Started(P, Q)
  BY DEF Started, Moves, Clear, Spots
<1>4. QED
  BY <1>1, <1>2, <1>3 DEF Journey

\* When the latest cancel of a file is noted.
LEMMA NotedWhen ==
  ASSUME TypeOK, [Next]_vars, NEW k \in Files, forgotten'[k] = "recorded"
  PROVE  ~ ClickDownload(k) /\
         \/ forgotten[k] = "recorded"
         \/ CmdCancelDownload /\ k = Head(cmds).file /\ ~ OnItsWay(k)
<1>1. ~ ClickDownload(k)
  BY DEF ClickDownload, TypeOK, TypeUI
<1>2. User => forgotten'[k] = forgotten[k] \/ forgotten'[k] = "no"
  BY DEF User, ClickDownload, ClickCancel, ClickPause, TypeOK, TypeUI
<1>3. CASE CmdCancelDownload
  <2> PICK j \in Files : j = Head(cmds).file
    BY <1>3, HeadOfCmds DEF CmdCancelDownload, NextCmd
  <2>1. Forget(j)
    BY <1>3 DEF CmdCancelDownload
  <2>2. CASE j # k
    BY <1>1, <2>1, <2>2 DEF Forget, TypeOK, TypeUI
  <2>3. CASE j = k
    <3>1. forgotten'[k] = IF OnItsWay(k) THEN "underway" ELSE "recorded"
      BY <2>1, <2>3 DEF Forget, TypeOK, TypeUI
    <3>2. QED
      BY <1>1, <1>3, <2>3, <3>1
  <2>4. QED
    BY <2>2, <2>3
<1>4. BusWorker => forgotten' = forgotten
  BY DEF BusWorker, BusStartDownload, BusCancelOrPause, BusPeerDownloadConnect, BusOutcome,
     BusDownloadQueuePosition
<1>5. Server => forgotten' = forgotten
  BY DEF Server, GetPeerAddress, NetConnClosed, LoginResponse
<1>6. CommandLoop /\ ~ CmdCancelDownload => forgotten' = forgotten
  BY DEF CommandLoop, CmdDownload, CmdQueuePosition
<1>7. \A j \in Files : Attempt(j) \/ FromUploader(j) => forgotten' = forgotten
  BY DEF Attempt, FromUploader, DialFails, SendQueueUpload, QueueingFails, RecordPending,
     OnRefused, OnPlaceInQueueResponse
<1>8. \A j \in Files, tok \in Tokens :
        FromUploaderUnder(j, tok) \/ Stream(j, tok) => forgotten' = forgotten
  BY DEF FromUploaderUnder, OnTransferRequestUpload, RecvFile, Stream, OpenPartial, Receive,
     StreamFails, StreamDone
<1>9. QED
  BY <1>1, <1>2, <1>3, <1>4, <1>5, <1>6, <1>7, <1>8 DEF Next, vars

LEMMA GoneStep ==
  ASSUME TypeOK, Filed, Gone, [Next]_vars
  PROVE  Gone'
<1> SUFFICES ASSUME NEW k \in Files, forgotten'[k] = "recorded"
             PROVE  Clear(Place(k)')
  BY DEF Gone
<1>1. ~ ClickDownload(k)
  BY NotedWhen
<1>2. Journey(Place(k), Place(k)') \/ Started(Place(k), Place(k)')
  BY <1>1, EveryJourney
<1>3. CASE forgotten[k] = "recorded"
  BY <1>2, <1>3, ClearStays DEF Gone
<1>4. CASE CmdCancelDownload /\ k = Head(cmds).file /\ ~ OnItsWay(k)
  <2>1. /\ bus' = bus /\ pending_downloads' = pending_downloads /\ dialing' = dialing
        /\ writing' = writing /\ cmds # <<>> /\ cmds' = Tail(cmds) /\ pending' = pending \ {k}
        /\ by_token' = Without(by_token, {t \in DOMAIN by_token : by_token[t] = k})
    BY <1>4 DEF CmdCancelDownload, NextCmd, session, attempt
  <2>2. /\ Asked(k)' = {} /\ Waiting(k)' = {} /\ Connecting(k)' = {} /\ Trying(k)' = {}
    BY <1>4, <2>1, OnItsWayMeans, StaysPut
  <2>3. Ordered(k)' = {}
    <3>1. cmds \in Seq(Orders) /\ Ordered(k) = {}
      BY <1>4, OnItsWayMeans DEF TypeOK, TypeQueues
    <3>2. Fewer(Ordered(k), Ordered(k)')
      BY <2>1, <3>1, FoundTail DEF Ordered
    <3>3. QED
      BY <3>1, <3>2 DEF Fewer
  <2>4. Held(k)' = {}
    BY <2>1 DEF Held
  <2>5. TokensOf(k)' = {}
    <3>1. \A t \in DOMAIN by_token' :
            t \in DOMAIN by_token /\ by_token[t] # k /\ by_token'[t] = by_token[t]
      BY <2>1 DEF Without, Restrict
    <3>2. QED
      BY <3>1 DEF TokensOf
  <2>6. QED
    BY <2>2, <2>3, <2>4, <2>5 DEF Clear, Spots, Place
<1>5. QED
  BY <1>3, <1>4, NotedWhen

\* A stream starts only for a negotiated download.
LEMMA StreamsStart ==
  ASSUME TypeOK, [Next]_vars, NEW k \in Files, TokensOf(k) = {}
  PROVE  StreamsOf(k)' \subseteq StreamsOf(k)
<1>1. CASE streams' = streams
  BY <1>1 DEF StreamsOf
<1>2. ASSUME NEW j \in Files, NEW tok \in Tokens, RecvFile(j, tok), streams' # streams
      PROVE  StreamsOf(k)' \subseteq StreamsOf(k)
  <2>1. PICK r : /\ tok \in DOMAIN by_token
                 /\ streams' = With(streams, <<by_token[tok], tok>>, r)
    BY <1>2 DEF RecvFile, Negotiated
  <2>2. by_token[tok] # k
    BY <2>1 DEF TokensOf
  <2>3. DOMAIN streams' = DOMAIN streams \cup {<<by_token[tok], tok>>}
    BY <2>1 DEF With
  <2>4. QED
    BY <2>2, <2>3 DEF StreamsOf
<1>3. ASSUME NEW j \in Files, NEW tok \in Tokens, Stream(j, tok)
      PROVE  StreamsOf(k)' \subseteq StreamsOf(k)
  <2>1. DOMAIN streams' \subseteq DOMAIN streams
    BY <1>3 DEF Stream, OpenPartial, Receive, StreamFails, StreamDone, Without, Restrict
  <2>2. QED
    BY <2>1 DEF StreamsOf
<1>4. QED
  <2>1. User => streams' = streams
    BY DEF User, ClickDownload, ClickCancel, ClickPause, Click
  <2>2. BusWorker => streams' = streams
    BY DEF BusWorker, BusStartDownload, BusCancelOrPause, BusPeerDownloadConnect, BusOutcome,
       BusDownloadQueuePosition
  <2>3. Server => streams' = streams
    BY DEF Server, GetPeerAddress, NetConnClosed, LoginResponse
  <2>4. CommandLoop => streams' = streams
    BY DEF CommandLoop, CmdDownload, CmdCancelDownload, CmdQueuePosition
  <2>5. \A j \in Files : Attempt(j) \/ FromUploader(j) => streams' = streams
    BY DEF Attempt, FromUploader, DialFails, SendQueueUpload, QueueingFails, RecordPending,
       OnRefused, OnPlaceInQueueResponse
  <2>6. \A j \in Files, tok \in Tokens : OnTransferRequestUpload(j, tok) => streams' = streams
    BY DEF OnTransferRequestUpload
  <2>7. UNCHANGED vars => streams' = streams
    BY DEF vars
  <2>8. QED
    BY <1>1, <1>2, <1>3, <2>1, <2>2, <2>3, <2>4, <2>5, <2>6, <2>7 DEF Next, FromUploaderUnder

LEMMA StartsClear == Init => TypeOK /\ Filed /\ Gone
<1>1. Init => Filed
  BY DownloadsAssumption DEF Init, Filed
<1>2. Init => Gone
  BY DEF Init, Gone
<1>3. QED
  BY <1>1, <1>2, TypeInit

\* A cancel or a pause that found the attempt recorded is never undone by what
\* was already under way: once the command loop has handled it, nothing of the
\* file is left anywhere a new stream could come from, until the user asks again.
\* Nothing is assumed of the uploaders' tokens or of the user.
THEOREM RecordedCancelsStick == Spec => CancelOfRecordedSticks
<1>1. TypeOK /\ Filed /\ Gone /\ [Next]_vars => (TypeOK /\ Filed /\ Gone)'
  BY TypeStep, FiledStep, GoneStep
<1>2. TypeOK /\ Filed /\ Gone /\ [Next]_vars =>
        [\A k \in Files : forgotten[k] = "recorded" => StreamsOf(k)' \subseteq StreamsOf(k)]_vars
  <2> SUFFICES ASSUME TypeOK, Gone, [Next]_vars, NEW k \in Files, forgotten[k] = "recorded"
               PROVE  StreamsOf(k)' \subseteq StreamsOf(k)
    OBVIOUS
  <2>1. TokensOf(k) = {}
    <3>1. Place(k)["token"] = {}
      BY DEF Gone, Clear, Spots
    <3>2. QED
      BY <3>1 DEF Place
  <2>2. QED
    BY <2>1, StreamsStart
<1>3. QED
  BY <1>1, <1>2, StartsClear, PTL DEF Spec, CancelOfRecordedSticks

-----------------------------------------------------------------------------
(* One request, one place. *)

\* Asked for only while the row showed nothing under way.
Orderly(k) == again[k] = "no"

OnePlace == \A k \in Files : Orderly(k) => Sole(Place(k))

Stopping(k) == Found(bus, k, {"CancelDownload", "PauseDownload"})

\* A cancel or a pause on the bus is the user's.
Withdrawn == \A k \in Files : Orderly(k) /\ Stopping(k) # {} => k \in removed

\* An idle row has nothing under way but the click itself.
Unstarted ==
  \A k \in Files : Orderly(k) /\ Idle(k) => \A w \in Spots \ {"asked"} : Place(k)[w] = {}

\* What a step does to the bus, but for the user's clicks.
LEMMA BusChanges ==
  ASSUME TypeOK, [Next]_vars
  PROVE  \/ User
         \/ bus' = bus
         \/ bus # <<>> /\ bus' = Tail(bus)
         \/ \E k \in Files : bus # <<>> /\ bus' = Append(Tail(bus), Msg("DownloadFailed", k))
         \/ \E k \in Files, kind \in {"DownloadComplete", "DownloadFailed",
                                      "DownloadQueuePosition"} :
              bus' = Append(bus, Msg(kind, k))
         \/ \E p \in Uploaders, kind \in {"PeerDownloadConnect", "DownloadFailed"} :
              bus' = bus \o [i \in DOMAIN pending_downloads[p] |->
                               Msg(kind, pending_downloads[p][i])]
<1>1. CASE BusStartDownload
  <2> PICK k \in Files : k = Head(bus).file
    BY <1>1, HeadOfBus DEF BusStartDownload, Handled
  <2>1. bus # <<>> /\ (bus' = Tail(bus) \/ bus' = Append(Tail(bus), Msg("DownloadFailed", k)))
    BY <1>1 DEF BusStartDownload, Handled
  <2>2. QED
    BY <2>1
<1>2. BusWorker /\ ~ BusStartDownload => bus # <<>> /\ bus' = Tail(bus)
  BY DEF BusWorker, BusCancelOrPause, BusPeerDownloadConnect, BusOutcome,
     BusDownloadQueuePosition, Handled
<1>3. ASSUME NEW p \in Uploaders, NEW online \in BOOLEAN, GetPeerAddress(p, online)
      PROVE  \E kind \in {"PeerDownloadConnect", "DownloadFailed"} :
               bus' = bus \o [i \in DOMAIN pending_downloads[p] |->
                                Msg(kind, pending_downloads[p][i])]
  BY <1>3 DEF GetPeerAddress
<1>4. NetConnClosed \/ LoginResponse => bus' = bus
  BY DEF NetConnClosed, LoginResponse
<1>5. CASE CommandLoop
  <2> PICK k \in Files : k = Head(cmds).file
    BY <1>5, HeadOfCmds DEF CommandLoop, CmdDownload, CmdCancelDownload, CmdQueuePosition, NextCmd
  <2>1. bus' = bus \/ bus' = Append(bus, Msg("DownloadQueuePosition", k))
    BY <1>5 DEF CommandLoop, CmdDownload, CmdCancelDownload, CmdQueuePosition
  <2>2. QED
    BY <2>1
<1>6. \A k \in Files : Attempt(k) \/ FromUploader(k) =>
        bus' = bus \/ bus' = Append(bus, Msg("DownloadFailed", k))
  BY DEF Attempt, FromUploader, DialFails, SendQueueUpload, QueueingFails, RecordPending,
     OnRefused, OnPlaceInQueueResponse
<1>7. \A k \in Files, tok \in Tokens : FromUploaderUnder(k, tok) => bus' = bus
  BY DEF FromUploaderUnder, OnTransferRequestUpload, RecvFile
<1>8. \A k \in Files, tok \in Tokens : Stream(k, tok) =>
        \/ bus' = bus \/ bus' = Append(bus, Msg("DownloadFailed", k))
        \/ bus' = Append(bus, Msg("DownloadComplete", k))
  BY DEF Stream, OpenPartial, Receive, StreamFails, StreamDone
<1>9. UNCHANGED vars => bus' = bus
  BY DEF vars
<1>10. QED
  BY <1>1, <1>2, <1>3, <1>4, <1>5, <1>6, <1>7, <1>8, <1>9 DEF Next, Server

\* Only clicks put messages of the user's kinds on the bus.
LEMMA OnlyClicksAdd ==
  ASSUME TypeOK, [Next]_vars, ~ User, NEW k \in Files, NEW K,
         K \cap {"DownloadComplete", "DownloadFailed", "DownloadQueuePosition",
                 "PeerDownloadConnect"} = {},
         Found(bus, k, K) = {}
  PROVE  Found(bus', k, K) = {}
<1>1. bus \in Seq(Asks) /\ (bus # <<>> => Tail(bus) \in Seq(Asks))
  BY HeadOfBus DEF TypeOK, TypeQueues
<1>2. ASSUME bus # <<>>
      PROVE  Found(Tail(bus), k, K) = {}
  <2>1. PICK b : b = Tail(bus)
    OBVIOUS
  <2>2. Found(b, k, K) = {}
    <3>1. Fewer(Found(bus, k, K), Found(b, k, K))
      BY <1>1, <1>2, <2>1, FoundTail
    <3>2. QED
      BY <3>1 DEF Fewer
  <2>3. QED
    BY <2>1, <2>2
<1>9. ASSUME NEW b \in Seq(Asks), NEW m, m.kind \notin K
      PROVE  Found(Append(b, m), k, K) = Found(b, k, K)
  BY <1>9, FoundAppend
<1>3. CASE bus' = bus
  BY <1>3
<1>4. CASE bus # <<>> /\ bus' = Tail(bus)
  BY <1>2, <1>4
<1>5. ASSUME NEW j \in Files, bus # <<>>, bus' = Append(Tail(bus), Msg("DownloadFailed", j))
      PROVE  Found(bus', k, K) = {}
  <2>1. PICK m : bus' = Append(Tail(bus), m) /\ m.kind \notin K
    BY <1>5, MessageFields
  <2>2. QED
    BY <1>1, <1>2, <1>5, <1>9, <2>1
<1>6. ASSUME NEW j \in Files, NEW kind \in {"DownloadComplete", "DownloadFailed",
                                            "DownloadQueuePosition"},
             bus' = Append(bus, Msg(kind, j))
      PROVE  Found(bus', k, K) = {}
  <2>1. PICK m : bus' = Append(bus, m) /\ m.kind \notin K
    BY <1>6, MessageFields
  <2>2. QED
    BY <1>1, <1>9, <2>1
<1>7. ASSUME NEW p \in Uploaders, NEW kind \in {"PeerDownloadConnect", "DownloadFailed"},
             bus' = bus \o [i \in DOMAIN pending_downloads[p] |->
                              Msg(kind, pending_downloads[p][i])]
      PROVE  Found(bus', k, K) = {}
  <2> PICK q \in Seq(Files) : q = pending_downloads[p]
    BY DEF TypeOK, TypeSession
  <2> PICK ms : ms = [i \in DOMAIN q |-> Msg(kind, q[i])]
    OBVIOUS
  <2>1. ms \in Seq(Asks)
    <3>1. \A i \in DOMAIN q : Msg(kind, q[i]) \in Asks
      BY MessagesTyped, ElementOfSeq, LenProperties DEF BusKinds
    <3>2. QED
      BY <3>1
  <2>2. Found(ms, k, K) = {}
    <3>1. DOMAIN ms = DOMAIN q /\ \A i \in DOMAIN q : ms[i].kind = kind
      BY MessageFields
    <3>2. QED
      BY <3>1 DEF Found
  <2>3. Found(bus \o ms, k, K) = Found(bus, k, K)
    BY <1>1, <2>1, <2>2, FoundJoined
  <2>4. QED
    BY <1>7, <2>3
<1>8. QED
  BY <1>3, <1>4, <1>5, <1>6, <1>7, BusChanges

LEMMA RemovedByClicks ==
  ASSUME [Next]_vars, ~ User
  PROVE  removed' = removed /\ again' = again
<1>1. BusWorker => removed' = removed /\ again' = again
  BY DEF BusWorker, BusStartDownload, BusCancelOrPause, BusPeerDownloadConnect, BusOutcome,
     BusDownloadQueuePosition, ui
<1>2. Server => removed' = removed /\ again' = again
  BY DEF Server, GetPeerAddress, NetConnClosed, LoginResponse, ui
<1>3. CommandLoop => removed' = removed /\ again' = again
  BY DEF CommandLoop, CmdDownload, CmdCancelDownload, CmdQueuePosition, ui
<1>4. \A k \in Files : Attempt(k) \/ FromUploader(k) => removed' = removed /\ again' = again
  BY DEF Attempt, FromUploader, DialFails, SendQueueUpload, QueueingFails, RecordPending,
     OnRefused, OnPlaceInQueueResponse, ui
<1>5. \A k \in Files, tok \in Tokens :
        FromUploaderUnder(k, tok) \/ Stream(k, tok) => removed' = removed /\ again' = again
  BY DEF FromUploaderUnder, OnTransferRequestUpload, RecvFile, Stream, OpenPartial, Receive,
     StreamFails, StreamDone, ui
<1>6. UNCHANGED vars => removed' = removed /\ again' = again
  BY DEF vars, ui
<1>7. QED
  BY <1>1, <1>2, <1>3, <1>4, <1>5, <1>6 DEF Next

\* What was asked for out of turn stays so, and only an idle row gets a click that
\* is in turn.
LEMMA OrderlyBefore ==
  ASSUME TypeOK, [Next]_vars, NEW k \in Files, Orderly(k)'
  PROVE  Orderly(k) /\ (ClickDownload(k) => Quiet(k) /\ Idle(k))
<1>1. again \in [Files -> {"no", "resume", "any"}]
  BY DEF TypeOK, TypeUI
<1>2. CASE User
  <2> PICK j \in Files : ClickDownload(j) \/ ClickCancel(j) \/ ClickPause(j)
    BY <1>2 DEF User
  <2>1. CASE ClickDownload(k)
    <3>1. again'[k] = IF Quiet(k) /\ Idle(k) THEN again[k]
                      ELSE IF Quiet(k) /\ row[k] = "paused" /\ again[k] # "any" THEN "resume"
                      ELSE "any"
      BY <1>1, <2>1 DEF ClickDownload
    <3>2. QED
      BY <3>1 DEF Orderly
  <2>2. CASE ~ ClickDownload(k)
    <3>1. again'[k] = again[k]
      BY <1>1, <2>2 DEF ClickDownload, ClickCancel, ClickPause
    <3>2. QED
      BY <2>2, <3>1 DEF Orderly
  <2>3. QED
    BY <2>1, <2>2
<1>3. CASE ~ User
  BY <1>3, RemovedByClicks DEF Orderly, User
<1>4. QED
  BY <1>2, <1>3

LEMMA WithdrawnStep ==
  ASSUME TypeOK, Withdrawn, [Next]_vars
  PROVE  Withdrawn'
<1> SUFFICES ASSUME NEW k \in Files, Orderly(k)', Stopping(k)' # {}
             PROVE  k \in removed'
  BY DEF Withdrawn
<1>0. Orderly(k) /\ (ClickDownload(k) => Quiet(k))
  BY OrderlyBefore
<1>1. CASE User
  <2> PICK j \in Files : ClickDownload(j) \/ ClickCancel(j) \/ ClickPause(j)
    BY <1>1 DEF User
  <2>1. bus \in Seq(Asks)
    BY DEF TypeOK, TypeQueues
  <2>2. CASE ClickDownload(j)
    <3>1. bus' = Append(bus, Msg("StartDownload", j)) /\ removed' = removed \ {j}
      BY <2>2 DEF ClickDownload, Click
    <3>2. Stopping(k)' = Stopping(k)
      <4>1. PICK m : bus' = Append(bus, m) /\ m.kind = "StartDownload"
        BY <3>1, MessageFields
      <4>2. QED
        BY <2>1, <4>1, FoundAppend DEF Stopping
    <3>3. k \in removed
      BY <1>0, <3>2 DEF Withdrawn
    <3>4. k # j
      <4> PICK i \in DOMAIN bus :
            bus[i].file = k /\ bus[i].kind \in {"CancelDownload", "PauseDownload"}
        BY <3>2 DEF Stopping, Found
      <4>1. bus[i] = Msg(bus[i].kind, k)
        BY <2>1, AsksAndOrders, ElementOfSeq, LenProperties
      <4>2. ~ Quiet(k)
        BY <4>1, RangeFound DEF Quiet, Clicks
      <4>3. QED
        BY <1>0, <2>2, <4>2
    <3>5. QED
      BY <3>1, <3>3, <3>4
  <2>3. CASE ClickCancel(j) \/ ClickPause(j)
    <3>1. PICK m : bus' = Append(bus, m) /\ m.file = j /\ removed' = removed \cup {j}
      BY <2>3, MessageFields DEF ClickCancel, ClickPause, Click
    <3>2. k # j => Stopping(k)' = Stopping(k)
      BY <2>1, <3>1, FoundAppend DEF Stopping
    <3>3. QED
      BY <1>0, <3>1, <3>2 DEF Withdrawn
  <2>4. QED
    BY <2>2, <2>3
<1>2. CASE ~ User
  <2>1. Stopping(k) # {}
    <3>1. Found(bus, k, {"CancelDownload", "PauseDownload"}) = {} =>
            Found(bus', k, {"CancelDownload", "PauseDownload"}) = {}
      BY <1>2, OnlyClicksAdd
    <3>2. QED
      BY <3>1 DEF Stopping
  <2>2. removed' = removed
    BY <1>2, RemovedByClicks
  <2>3. QED
    BY <1>0, <2>1, <2>2 DEF Withdrawn
<1>3. QED
  BY <1>1, <1>2

LEMMA RowsByBus ==
  ASSUME [Next]_vars, ~ BusWorker
  PROVE  row' = row
<1>1. User => row' = row
  BY DEF User, ClickDownload, ClickCancel, ClickPause, Click
<1>2. Server => row' = row
  BY DEF Server, GetPeerAddress, NetConnClosed, LoginResponse, ui
<1>3. CommandLoop => row' = row
  BY DEF CommandLoop, CmdDownload, CmdCancelDownload, CmdQueuePosition, ui
<1>4. \A k \in Files : Attempt(k) \/ FromUploader(k) => row' = row
  BY DEF Attempt, FromUploader, DialFails, SendQueueUpload, QueueingFails, RecordPending,
     OnRefused, OnPlaceInQueueResponse, ui
<1>5. \A k \in Files, tok \in Tokens : FromUploaderUnder(k, tok) \/ Stream(k, tok) => row' = row
  BY DEF FromUploaderUnder, OnTransferRequestUpload, RecvFile, Stream, OpenPartial, Receive,
     StreamFails, StreamDone, ui
<1>6. UNCHANGED vars => row' = row
  BY DEF vars, ui
<1>7. QED
  BY <1>1, <1>2, <1>3, <1>4, <1>5, <1>6 DEF Next

\* A click leaves the head of the bus where it is.
LEMMA ClicksAppend ==
  ASSUME TypeOK, bus # <<>>, bus' = Tail(bus)
  PROVE  ~ User
<1>1. bus \in Seq(Asks)
  BY DEF TypeOK, TypeQueues
<1>2. User => \E m : bus' = Append(bus, m)
  BY DEF User, ClickDownload, ClickCancel, ClickPause, Click
<1>3. \A m : Len(Append(bus, m)) = Len(bus) + 1
  BY <1>1, AppendProperties
<1>4. Len(bus) \in Nat /\ Len(Tail(bus)) = Len(bus) - 1
  BY <1>1, HeadTailProperties, LenProperties
<1>5. PICK n \in Nat : n = Len(bus) /\ Len(bus') = n - 1
  BY <1>4
<1>6. User => Len(bus') = n + 1
  BY <1>2, <1>3, <1>5
<1>7. n - 1 # n + 1
  OBVIOUS
<1>8. QED
  BY <1>5, <1>6, <1>7

\* How a row comes to be idle.
LEMMA IdleWhen ==
  ASSUME TypeOK, Withdrawn, [Next]_vars, NEW k \in Files, Orderly(k)', Idle(k)'
  PROVE  /\ ~ (BusStartDownload /\ Head(bus).file = k)
         /\ \/ Idle(k)
            \/ bus # <<>> /\ bus' = Tail(bus) /\ Head(bus).file = k /\
               Head(bus).kind \in {"DownloadComplete", "DownloadFailed"}
<1>0. Orderly(k) /\ (ClickDownload(k) => Idle(k))
  BY OrderlyBefore
<1>1. row \in [Files -> Rows]
  BY DEF TypeOK, TypeUI
<1>2. BusStartDownload /\ Head(bus).file = k => row'[k] = "active"
  BY <1>1 DEF BusStartDownload, SetRow
<1>3. CASE User
  <2> PICK j \in Files : ClickDownload(j) \/ ClickCancel(j) \/ ClickPause(j)
    BY <1>3 DEF User
  <2>1. /\ row' = row
        /\ ClickDownload(j) => removed' = removed \ {j}
        /\ ~ ClickDownload(j) => removed' = removed \cup {j}
    BY DEF ClickDownload, ClickCancel, ClickPause, Click
  <2>2. Idle(k)
    BY <1>0, <2>1 DEF Idle
  <2>3. QED
    BY <1>2, <2>1, <2>2 DEF Idle
<1>4. CASE BusWorker
  <2>1. removed' = removed
    BY <1>4 DEF BusWorker, BusStartDownload, BusCancelOrPause, BusPeerDownloadConnect, BusOutcome,
       BusDownloadQueuePosition, ui
  <2>2. CASE BusStartDownload
    <3>1. Head(bus).file # k
      BY <1>2, <2>2 DEF Idle
    <3>2. row'[k] = row[k]
      BY <1>1, <2>2, <3>1 DEF BusStartDownload, SetRow
    <3>3. QED
      BY <2>1, <3>1, <3>2 DEF Idle
  <2>3. CASE BusCancelOrPause
    <3>1. /\ bus # <<>> /\ Head(bus).kind \in {"CancelDownload", "PauseDownload"}
          /\ row' = [row EXCEPT ![Head(bus).file] =
                       IF Head(bus).kind = "PauseDownload" THEN "paused" ELSE "none"]
      BY <2>3 DEF BusCancelOrPause, SetRow
    <3>2. Head(bus).file # k
      <4> SUFFICES ASSUME Head(bus).file = k
                   PROVE  FALSE
        OBVIOUS
      <4>1. k \notin removed
        BY <1>1, <2>1, <3>1 DEF Idle
      <4>2. Stopping(k) # {}
        <5>1. bus \in Seq(Asks)
          BY DEF TypeOK, TypeQueues
        <5>2. QED
          BY <3>1, <5>1, FoundTail DEF Stopping
      <4>3. QED
        BY <1>0, <4>1, <4>2 DEF Withdrawn
    <3>3. row'[k] = row[k]
      BY <1>1, <3>1, <3>2
    <3>4. QED
      BY <2>1, <3>2, <3>3 DEF Idle
  <2>4. CASE BusPeerDownloadConnect
    BY <1>2, <2>1, <2>4 DEF BusPeerDownloadConnect, ui, Idle
  <2>5. CASE BusOutcome
    <3>1. /\ bus # <<>> /\ bus' = Tail(bus)
          /\ Head(bus).kind \in {"DownloadComplete", "DownloadFailed"}
      BY <2>5 DEF BusOutcome
    <3>2. CASE Head(bus).file = k
      BY <1>2, <3>1, <3>2 DEF Idle
    <3>3. CASE Head(bus).file # k
      <4>1. row'[k] = row[k]
        BY <1>1, <2>5, <3>3 DEF BusOutcome, SetRow
      <4>2. QED
        BY <2>1, <3>3, <4>1 DEF Idle
    <3>4. QED
      BY <3>2, <3>3
  <2>6. CASE BusDownloadQueuePosition
    <3>1. row'[k] = row[k] \/ row'[k] = "active"
      BY <1>1, <2>6 DEF BusDownloadQueuePosition
    <3>2. QED
      BY <1>2, <2>1, <3>1 DEF Idle
  <2>7. QED
    BY <1>4, <2>2, <2>3, <2>4, <2>5, <2>6 DEF BusWorker
<1>5. CASE ~ User /\ ~ BusWorker
  <2>1. row' = row
    BY <1>5, RowsByBus
  <2>2. removed' = removed
    BY <1>5, RemovedByClicks
  <2>3. QED
    BY <1>2, <1>5, <2>1, <2>2 DEF Idle, BusWorker
<1>6. QED
  BY <1>3, <1>4, <1>5

LEMMA UnstartedStep ==
  ASSUME TypeOK, Filed, OnePlace, Withdrawn, Unstarted, [Next]_vars
  PROVE  Unstarted'
<1> SUFFICES ASSUME NEW k \in Files, Orderly(k)', Idle(k)', NEW w \in Spots \ {"asked"}
             PROVE  Place(k)'[w] = {}
  BY DEF Unstarted
<1>0. Orderly(k)
  BY OrderlyBefore
<1>1. ~ (BusStartDownload /\ Head(bus).file = k)
  BY IdleWhen
<1> PICK P, Q : P = Place(k) /\ Q = Place(k)'
  OBVIOUS
<1>2. Sole(P)
  BY <1>0 DEF OnePlace
<1>3. CASE Idle(k)
  <2>1. \A v \in Spots \ {"asked"} : P[v] = {}
    BY <1>0, <1>3 DEF Unstarted
  <2>2. Shrinks(P, Q, {"asked"})
    <3>1. CASE Journey(P, Q)
      <4>1. \A r \in Routes : r[1] \in Spots /\ r[1] # "asked"
        BY DEF Routes, Spots
      <4>2. \A r \in Routes : ~ Moves(P, Q, r[1], r[2])
        BY <2>1, <4>1 DEF Moves
      <4>3. QED
        BY <3>1, <4>2 DEF Journey, Shrinks
    <3>2. QED
      BY <1>1, <3>1, EveryJourney
  <2>3. QED
    BY <2>1, <2>2 DEF Shrinks, Fewer
<1>4. CASE /\ bus # <<>> /\ bus' = Tail(bus) /\ Head(bus).file = k
           /\ Head(bus).kind \in {"DownloadComplete", "DownloadFailed"}
  <2>1. Told(k) # {} /\ (Alone(Told(k)) => Told(k)' = {})
    <3>1. bus \in Seq(Asks)
      BY DEF TypeOK, TypeQueues
    <3>2. QED
      BY <1>4, <3>1, FoundTail DEF Told
  <2>2. P["told"] = Told(k) /\ Q["told"] = Told(k)'
    BY DEF Place
  <2>3. \A v \in Spots \ {"told"} : P[v] = {}
    BY <1>2, <2>1, <2>2 DEF Sole, Spots
  <2>4. Q["told"] = {}
    BY <1>2, <2>1, <2>2 DEF Sole, Spots, Alone
  <2>5. Shrinks(P, Q, {"told"})
    <3>1. ~ User
      BY <1>4, ClicksAppend
    <3>2. CASE Journey(P, Q)
      <4>1. \A r \in Routes : r[1] \in Spots \ {"told"}
        BY DEF Routes, Spots
      <4>2. \A r \in Routes : ~ Moves(P, Q, r[1], r[2])
        BY <2>3, <4>1 DEF Moves
      <4>3. QED
        BY <3>2, <4>2 DEF Journey, Shrinks
    <3>3. QED
      BY <1>1, <3>1, <3>2, EveryJourney DEF User
  <2>6. QED
    BY <2>3, <2>4, <2>5 DEF Shrinks, Fewer
<1>5. QED
  BY <1>3, <1>4, IdleWhen

LEMMA OnePlaceStep ==
  ASSUME TypeOK, Filed, OnePlace, Unstarted, [Next]_vars
  PROVE  OnePlace'
<1> SUFFICES ASSUME NEW k \in Files, Orderly(k)'
             PROVE  Sole(Place(k))'
  BY DEF OnePlace
<1>0. Orderly(k) /\ (ClickDownload(k) => Quiet(k) /\ Idle(k))
  BY OrderlyBefore
<1> PICK P, Q : P = Place(k) /\ Q = Place(k)'
  OBVIOUS
<1>1. Sole(P)
  BY <1>0 DEF OnePlace
<1>2. CASE Journey(P, Q) \/ Started(P, Q)
  <2>1. Sole(Q)
    BY <1>1, <1>2, SoleOnRoute
  <2>2. QED
    BY <2>1 DEF Sole
<1>3. CASE /\ ClickDownload(k) /\ Shrinks(P, Q, {"asked"})
           /\ Quiet(k) => Place(k).asked = {} /\ Alone(Place(k)'.asked)
  <2>1. Quiet(k) /\ Idle(k)
    BY <1>0, <1>3
  <2>2. \A w \in Spots \ {"asked"} : P[w] = {}
    BY <1>0, <2>1 DEF Unstarted
  <2>3. \A w \in Spots \ {"asked"} : Q[w] = {}
    BY <1>3, <2>2 DEF Shrinks, Fewer
  <2>4. Alone(Q["asked"])
    BY <1>3, <2>1 DEF Place
  <2>5. Sole(Q)
    BY <2>3, <2>4 DEF Sole, Alone
  <2>6. QED
    BY <2>5 DEF Sole
<1>4. QED
  BY <1>2, <1>3, EveryJourney

Route == TypeOK /\ Filed /\ OnePlace /\ Withdrawn /\ Unstarted

LEMMA NothingAsked == Init => \A k \in Files, w \in Spots : Place(k)[w] = {}
<1> SUFFICES ASSUME Init, NEW k \in Files
             PROVE  \A w \in Spots : Place(k)[w] = {}
  OBVIOUS
<1>1. bus = <<>> /\ cmds = <<>> /\ pending_downloads[UploaderOf[k]] = <<>>
  BY DownloadsAssumption DEF Init
<1>2. Asked(k) = {} /\ Connecting(k) = {} /\ Told(k) = {} /\ Ordered(k) = {} /\ Waiting(k) = {}
  BY <1>1 DEF Asked, Connecting, Told, Ordered, Waiting, Found, Indices
<1>3. Trying(k) = {}
  <2>1. dialing[k] + writing[k] = 0
    BY DEF Init
  <2>2. QED
    BY <2>1 DEF Trying
<1>4. Held(k) = {} /\ TokensOf(k) = {} /\ StreamsOf(k) = {}
  BY DEF Init, Held, TokensOf, StreamsOf
<1>5. QED
  BY <1>2, <1>3, <1>4 DEF Place, Spots

LEMMA RouteInit == Init => Route
<1> SUFFICES ASSUME Init
             PROVE  Route
  OBVIOUS
<1>1. TypeOK /\ Filed
  BY StartsClear
<1>2. \A k \in Files, w \in Spots : Place(k)[w] = {}
  BY NothingAsked
<1>3. OnePlace /\ Unstarted
  BY <1>2 DEF OnePlace, Sole, Unstarted
<1>4. Withdrawn
  BY DEF Init, Withdrawn, Stopping, Found
<1>5. QED
  BY <1>1, <1>3, <1>4 DEF Route

LEMMA RouteStep == Route /\ [Next]_vars => Route'
BY TypeStep, FiledStep, OnePlaceStep, WithdrawnStep, UnstartedStep DEF Route

LEMMA SoleWriter == Route => OneWriter
<1> SUFFICES ASSUME Route, NEW s \in DOMAIN streams, NEW t \in DOMAIN streams, s[1] = t[1],
                    again[s[1]] = "no"
             PROVE  s = t
  BY DEF OneWriter
<1>1. PICK k \in Files : k = s[1]
  BY DEF Route, TypeOK, TypeStreams
<1>2. Place(k)["stream"] = StreamsOf(k) /\ "stream" \in Spots
  BY DEF Place, Spots
<1>3. s \in StreamsOf(k) /\ t \in StreamsOf(k)
  BY <1>1 DEF StreamsOf
<1>4. QED
  BY <1>1, <1>2, <1>3 DEF Route, OnePlace, Sole, Orderly

\* As long as a file is asked for only while its row shows nothing under way, its
\* request is in one place of the client at a time, so two streams never write its
\* partial: not across failed dials, refusals, broken streams and retries, not
\* across address answers that drain more than they were asked for, and whatever
\* the user does to other files.
THEOREM PartialsHaveOneWriter == Spec => []OneWriter
<1>1. Route /\ [Next]_vars => Route'
  BY RouteStep
<1>2. QED
  BY <1>1, RouteInit, SoleWriter, PTL DEF Spec

-----------------------------------------------------------------------------
(* What is on the disk. *)

\* The first n chunks of a file.
Prefix(n) == [i \in 1 .. n |-> i]

\* No two files share an inode: not as partials, not as finished files, and not
\* through a stream that still writes an inode its file has left behind.
Inodes ==
  /\ \A j, k \in Files : partial[j] = partial[k] /\ partial[k] # 0 => j = k
  /\ \A f \in finished : f[2] \in 1 .. Len(disk) /\ \A k \in Files : partial[k] # f[2]
  /\ \A s \in DOMAIN streams :
       /\ streams[s].inode <= Len(disk)
       /\ streams[s].inode # 0 =>
            /\ \A k \in Files \ {s[1]} : partial[k] # streams[s].inode
            /\ \A f \in finished : f[2] = streams[s].inode => f[1] = s[1]

\* Every partial is a beginning of its file.
Beginnings ==
  \A k \in Files : Orderly(k) /\ partial[k] # 0 =>
    \E n \in 0 .. Size : disk[partial[k]] = Prefix(n)

\* What was moved into place is whole.
Moved == \A f \in finished : Orderly(f[1]) => disk[f[2]] = Prefix(Size)

\* A stream that has not opened the partial yet still finds it as it was when the
\* resume point was read; one that has is exactly as far as the partial.
Aligned ==
  \A s \in DOMAIN streams : Orderly(s[1]) =>
    /\ streams[s].got <= Size /\ streams[s].offset <= streams[s].got
    /\ streams[s].inode = 0 =>
         /\ streams[s].got = streams[s].offset
         /\ streams[s].offset > 0 =>
              partial[s[1]] # 0 /\ disk[partial[s[1]]] = Prefix(streams[s].offset)
    /\ streams[s].inode # 0 =>
         streams[s].inode = partial[s[1]] /\ disk[partial[s[1]]] = Prefix(streams[s].got)

Contents == Beginnings /\ Moved /\ Aligned

Whole == Inodes /\ Contents

LEMMA PrefixFacts ==
  ASSUME NEW n \in Nat
  PROVE  Prefix(n) \in Seq(Nat) /\ Len(Prefix(n)) = n /\ \A i \in 1 .. n : Prefix(n)[i] = i
BY DEF Prefix

LEMMA PrefixGrows ==
  ASSUME NEW n \in Nat
  PROVE  /\ Append(Prefix(n), n + 1) = Prefix(n + 1)
         /\ WriteAt(Prefix(n), n + 1, n + 1) = Prefix(n + 1)
         /\ <<>> = Prefix(0)
<1> PICK m \in Nat : m = n + 1
  OBVIOUS
<1>1. /\ Prefix(n) \in Seq(Nat) /\ Len(Prefix(n)) = n /\ \A i \in 1 .. n : Prefix(n)[i] = i
      /\ Prefix(m) \in Seq(Nat) /\ Len(Prefix(m)) = m /\ \A i \in 1 .. m : Prefix(m)[i] = i
  BY PrefixFacts
<1>2. Append(Prefix(n), m) = Prefix(m)
  <2> PICK c : c = Append(Prefix(n), m)
    OBVIOUS
  <2>1. /\ c \in Seq(Nat) /\ Len(c) = m /\ c[m] = m /\ \A i \in 1 .. n : c[i] = i
    BY <1>1, AppendProperties
  <2>2. \A i \in 1 .. m : c[i] = i
    BY <2>1
  <2>3. QED
    BY <1>1, <2>1, <2>2, SeqEqual
<1>3. WriteAt(Prefix(n), m, m) = Prefix(m)
  <2>1. WriteAt(Prefix(n), m, m) =
          [i \in 1 .. m |-> IF i = m THEN m ELSE IF i <= n THEN Prefix(n)[i] ELSE 0]
    BY <1>1 DEF WriteAt
  <2>2. \A i \in 1 .. m :
          (IF i = m THEN m ELSE IF i <= n THEN Prefix(n)[i] ELSE 0) = i
    BY <1>1
  <2>3. QED
    BY <2>1, <2>2 DEF Prefix
<1>4. <<>> = Prefix(0)
  <2>1. Prefix(0) \in Seq(Nat) /\ Len(Prefix(0)) = 0
    BY PrefixFacts
  <2>2. QED
    BY <2>1, EmptySeq
<1>5. QED
  BY <1>2, <1>3, <1>4

\* What a step that opens or writes inode i for stream s keeps: files asked for in
\* turn have their contents, whatever s does to the others.
LEMMA Rewritten ==
  ASSUME TypeOK, OneWriter, Whole, again' = again, finished' = finished,
         NEW s \in DOMAIN streams, NEW k \in Files, k = s[1],
         NEW i \in Nat \ {0}, \A j \in Files \ {k} : partial[j] # i,
         \A f \in finished : f[2] = i => f[1] = k,
         \A x \in 1 .. Len(disk) : x # i => disk'[x] = disk[x],
         NEW p, partial' = [partial EXCEPT ![k] = p],
         NEW r \in Stream0, streams' = [streams EXCEPT ![s] = r],
         Orderly(k) =>
           /\ p = i /\ \A f \in finished : f[2] # i
           /\ \E n \in 0 .. Size :
                disk'[i] = Prefix(n) /\ r.inode = i /\ r.got = n /\ r.offset <= n
  PROVE  Contents'
<1>1. /\ Len(disk) \in Nat /\ partial \in [Files -> 0 .. Len(disk)] /\ Size \in Nat
      /\ DOMAIN streams \subseteq Files \X Tokens /\ finished \subseteq Files \X Nat
  BY LenProperties, DownloadsAssumption DEF TypeOK, TypeDisk, TypeStreams
<1>2. /\ partial'[k] = p /\ \A j \in Files \ {k} : partial'[j] = partial[j]
      /\ \A j \in Files : partial[j] \in 0 .. Len(disk)
      /\ \A j : Orderly(j)' <=> Orderly(j)
  BY <1>1 DEF Orderly
<1>3. \A j \in Files \ {k} : partial[j] # 0 => disk'[partial[j]] = disk[partial[j]]
  <2> SUFFICES ASSUME NEW j \in Files \ {k}, partial[j] # 0
               PROVE  disk'[partial[j]] = disk[partial[j]]
    OBVIOUS
  <2>1. partial[j] \in 1 .. Len(disk) /\ partial[j] # i
    BY <1>1, <1>2
  <2>2. QED
    BY <2>1
<1>4. Beginnings'
  <2> SUFFICES ASSUME NEW j \in Files, Orderly(j), partial'[j] # 0
               PROVE  \E n \in 0 .. Size : disk'[partial'[j]] = Prefix(n)
    BY <1>2 DEF Beginnings
  <2>1. CASE j = k
    BY <1>2, <2>1
  <2>2. CASE j # k
    BY <1>2, <1>3, <2>2 DEF Whole, Contents, Beginnings
  <2>3. QED
    BY <2>1, <2>2
<1>5. Moved'
  <2> SUFFICES ASSUME NEW f \in finished, Orderly(f[1])
               PROVE  disk'[f[2]] = Prefix(Size)
    BY <1>2 DEF Moved
  <2>1. f[2] \in 1 .. Len(disk) /\ disk[f[2]] = Prefix(Size)
    BY DEF Whole, Inodes, Contents, Moved
  <2>2. f[2] # i
    OBVIOUS
  <2>3. QED
    BY <2>1, <2>2
<1>6. Aligned'
  <2>1. DOMAIN streams' = DOMAIN streams /\ streams'[s] = r
    OBVIOUS
  <2>2. ASSUME NEW t \in DOMAIN streams, t # s, Orderly(t[1])
        PROVE  streams'[t] = streams[t] /\ t[1] \in Files \ {k}
    BY <1>1, <2>2 DEF OneWriter, Orderly
  <2>3. ASSUME NEW t \in DOMAIN streams, t # s, Orderly(t[1])
        PROVE  /\ streams'[t].got <= Size /\ streams'[t].offset <= streams'[t].got
               /\ streams'[t].inode = 0 =>
                    /\ streams'[t].got = streams'[t].offset
                    /\ streams'[t].offset > 0 =>
                         /\ partial'[t[1]] # 0
                         /\ disk'[partial'[t[1]]] = Prefix(streams'[t].offset)
               /\ streams'[t].inode # 0 =>
                    /\ streams'[t].inode = partial'[t[1]]
                    /\ disk'[partial'[t[1]]] = Prefix(streams'[t].got)
    <3>1. /\ streams'[t] = streams[t] /\ partial'[t[1]] = partial[t[1]]
          /\ partial[t[1]] # 0 => disk'[partial[t[1]]] = disk[partial[t[1]]]
      BY <1>2, <1>3, <2>2, <2>3
    <3>2. QED
      BY <2>3, <3>1 DEF Whole, Contents, Aligned
  <2>4. Orderly(k) =>
          /\ r.got <= Size /\ r.offset <= r.got /\ r.inode # 0
          /\ r.inode = partial'[s[1]] /\ disk'[partial'[s[1]]] = Prefix(r.got)
    BY <1>1, <1>2
  <2>5. QED
    BY <1>2, <2>1, <2>3, <2>4 DEF Aligned
<1>7. QED
  BY <1>4, <1>5, <1>6 DEF Contents

\* An uploader connects for a negotiated download: the resume point is how far the
\* partial is.
LEMMA WholeOnConnect ==
  ASSUME TypeOK, Whole, NEW h \in Files, NEW tok \in Tokens, RecvFile(h, tok)
  PROVE  Whole'
<1>1. disk' = disk /\ partial' = partial /\ finished' = finished /\ again' = again
  BY DEF RecvFile, storage, ui
<1>2. /\ Beginnings' /\ Moved'
      /\ \A j : Orderly(j)' <=> Orderly(j)
  BY <1>1 DEF Whole, Contents, Beginnings, Moved, Orderly
<1>3. CASE streams' = streams
  <2>1. Inodes' /\ Aligned'
    BY <1>1, <1>3 DEF Whole, Contents, Inodes, Aligned, Orderly
  <2>2. QED
    BY <1>2, <2>1 DEF Whole, Contents
<1>4. CASE streams' # streams
  <2>0. Negotiated(UploaderOf[h], tok)
    BY <1>4 DEF RecvFile
  <2>1. PICK f \in Files : f = by_token[tok]
    BY <2>0 DEF Negotiated, TypeOK, TypeAttempt
  <2>2. PICK n : n = IF OnDisk(f) < Size THEN OnDisk(f) ELSE 0
    OBVIOUS
  <2>3. PICK r : r = [offset |-> n, got |-> n, inode |-> 0]
    OBVIOUS
  <2>4. streams' = With(streams, <<f, tok>>, r)
    BY <1>4, <2>1, <2>2, <2>3 DEF RecvFile
  <2>5. ASSUME Orderly(f)
        PROVE  n \in 0 .. Size /\ (n > 0 => partial[f] # 0 /\ disk[partial[f]] = Prefix(n))
    <3>1. Size \in Nat
      BY DownloadsAssumption
    <3>2. CASE partial[f] = 0
      BY <2>2, <3>1, <3>2 DEF OnDisk
    <3>3. CASE partial[f] # 0
      <4>1. PICK m \in 0 .. Size : disk[partial[f]] = Prefix(m)
        BY <2>5, <3>3 DEF Whole, Contents, Beginnings
      <4>2. OnDisk(f) = m
        BY <3>1, <3>3, <4>1, PrefixFacts DEF OnDisk
      <4>3. QED
        BY <2>2, <3>1, <3>3, <4>1, <4>2
    <3>4. QED
      BY <3>2, <3>3
  <2>6. /\ DOMAIN streams' = DOMAIN streams \cup {<<f, tok>>}
        /\ \A s \in DOMAIN streams' :
             streams'[s] = IF s = <<f, tok>> THEN r ELSE streams[s]
    BY <2>4 DEF With
  <2>7. Aligned'
    <3> SUFFICES ASSUME NEW s \in DOMAIN streams', Orderly(s[1])
                 PROVE  /\ streams'[s].got <= Size /\ streams'[s].offset <= streams'[s].got
                        /\ streams'[s].inode = 0 =>
                             /\ streams'[s].got = streams'[s].offset
                             /\ streams'[s].offset > 0 =>
                                  /\ partial[s[1]] # 0
                                  /\ disk[partial[s[1]]] = Prefix(streams'[s].offset)
                        /\ streams'[s].inode # 0 =>
                             /\ streams'[s].inode = partial[s[1]]
                             /\ disk[partial[s[1]]] = Prefix(streams'[s].got)
      BY <1>1, <1>2 DEF Aligned
    <3>1. CASE s = <<f, tok>>
      <4>1. s[1] = f /\ streams'[s] = r /\ r.offset = n /\ r.got = n /\ r.inode = 0
        BY <2>3, <2>6, <3>1
      <4>2. Size \in Nat /\ Orderly(f)
        BY <4>1, DownloadsAssumption
      <4>3. QED
        BY <2>5, <4>1, <4>2
    <3>2. CASE s # <<f, tok>>
      <4>1. s \in DOMAIN streams /\ streams'[s] = streams[s]
        BY <2>6, <3>2
      <4>2. QED
        BY <4>1 DEF Whole, Contents, Aligned
    <3>3. QED
      BY <3>1, <3>2
  <2>8. Inodes'
    <3>1. Len(disk) \in Nat /\ r.inode = 0
      BY <2>3, LenProperties DEF TypeOK, TypeDisk
    <3>2. \A s \in DOMAIN streams' :
            streams'[s] = r \/ (s \in DOMAIN streams /\ streams'[s] = streams[s])
      BY <2>6
    <3>3. QED
      BY <1>1, <3>1, <3>2 DEF Whole, Inodes
  <2>9. QED
    BY <1>2, <2>7, <2>8 DEF Whole, Contents
<1>5. QED
  BY <1>3, <1>4

LEMMA WholeOnOpen ==
  ASSUME TypeOK, OneWriter, Whole, NEW k \in Files, NEW tok \in Tokens, OpenPartial(k, tok)
  PROVE  Whole'
<1> PICK s \in DOMAIN streams : s = <<k, tok>> /\ streams[s].inode = 0 /\ k = s[1]
  BY DEF OpenPartial
<1>1. /\ disk \in Seq(Seq(Nat)) /\ Len(disk) \in Nat /\ DOMAIN disk = 1 .. Len(disk)
      /\ \A j \in Files : partial[j] \in 0 .. Len(disk)
      /\ partial \in [Files -> 0 .. Len(disk)] /\ streams[s] \in Stream0 /\ Size \in Nat
      /\ DOMAIN streams \subseteq Files \X Tokens /\ finished \subseteq Files \X Nat
  BY LenProperties, DownloadsAssumption DEF TypeOK, TypeDisk, TypeStreams
<1>2. PICK o \in Nat : streams[s].offset = o
  BY <1>1 DEF Stream0
<1>3. Orderly(k) => /\ o \in 0 .. Size /\ streams[s].got = o
                    /\ o > 0 => partial[k] # 0 /\ disk[partial[k]] = Prefix(o)
  <2> SUFFICES ASSUME Orderly(k)
               PROVE  /\ o \in 0 .. Size /\ streams[s].got = o
                      /\ o > 0 => partial[k] # 0 /\ disk[partial[k]] = Prefix(o)
    OBVIOUS
  <2>1. /\ streams[s].got <= Size /\ streams[s].got = streams[s].offset
        /\ streams[s].offset > 0 =>
             partial[k] # 0 /\ disk[partial[k]] = Prefix(streams[s].offset)
    BY DEF Whole, Contents, Aligned
  <2>2. QED
    BY <1>1, <1>2, <2>1
<1>4. PICK i \in Nat \ {0} : i = IF partial[k] = 0 THEN Len(disk) + 1 ELSE partial[k]
  BY <1>1
<1>5. PICK r \in Stream0 : r = [streams[s] EXCEPT !.inode = i]
  BY <1>1, FieldUpdated
<1>6. r.inode = i /\ r.got = streams[s].got /\ r.offset = o
  BY <1>1, <1>2, <1>5 DEF Stream0
<1>7. /\ streams' = [streams EXCEPT ![s] = r] /\ partial' = [partial EXCEPT ![k] = i]
      /\ finished' = finished /\ again' = again
  BY <1>4, <1>5 DEF OpenPartial, ui
<1>8. /\ \A j \in Files \ {k} : partial[j] # i
      /\ \A f \in finished : f[2] # i
  <2>1. CASE partial[k] = 0
    <3>1. i = Len(disk) + 1
      BY <1>4, <2>1
    <3>2. (\A j \in Files : partial[j] # i) /\ \A f \in finished : f[2] # i
      BY <1>1, <3>1 DEF Whole, Inodes
    <3>3. QED
      BY <3>2
  <2>2. CASE partial[k] # 0
    BY <1>4, <2>2 DEF Whole, Inodes
  <2>3. QED
    BY <2>1, <2>2
<1>9. /\ Len(disk') \in Nat /\ Len(disk) <= Len(disk') /\ i <= Len(disk')
      /\ Orderly(k) => disk'[i] = Prefix(o)
      /\ \A x \in 1 .. Len(disk) : x # i => disk'[x] = disk[x]
  <2>1. <<>> = Prefix(0) /\ <<>> \in Seq(Nat)
    BY PrefixGrows, EmptySeq
  <2>2. CASE partial[k] = 0
    <3>1. disk' = Append(disk, <<>>) /\ (Orderly(k) => o = 0) /\ i = Len(disk) + 1
      BY <1>2, <1>3, <1>4, <2>2 DEF OpenPartial
    <3>2. /\ Len(disk') = Len(disk) + 1 /\ disk'[Len(disk) + 1] = <<>>
          /\ \A x \in 1 .. Len(disk) : disk'[x] = disk[x]
      BY <1>1, <2>1, <3>1, AppendProperties
    <3>3. QED
      BY <1>1, <2>1, <3>1, <3>2
  <2>3. CASE partial[k] # 0 /\ o = 0
    <3>1. disk' = [disk EXCEPT ![i] = <<>>] /\ i \in 1 .. Len(disk)
      BY <1>1, <1>2, <1>4, <2>3 DEF OpenPartial
    <3>2. /\ disk' \in Seq(Seq(Nat)) /\ Len(disk') = Len(disk) /\ disk'[i] = <<>>
          /\ \A x \in 1 .. Len(disk) : x # i => disk'[x] = disk[x]
      BY <1>1, <2>1, <3>1, ExceptSeq
    <3>3. QED
      BY <1>1, <2>1, <2>3, <3>1, <3>2
  <2>4. CASE partial[k] # 0 /\ o # 0
    <3>1. disk' = disk /\ i = partial[k]
      BY <1>2, <1>4, <2>4 DEF OpenPartial
    <3>2. QED
      BY <1>1, <1>2, <1>3, <2>4, <3>1
  <2>5. QED
    BY <2>2, <2>3, <2>4
<1>10. Orderly(k) => \E n \in 0 .. Size :
                       disk'[i] = Prefix(n) /\ r.inode = i /\ r.got = n /\ r.offset <= n
  BY <1>2, <1>3, <1>6, <1>9
<1>11. Contents'
  <2>1. \A f \in finished : f[2] = i => f[1] = k
    BY <1>8
  <2>2. Orderly(k) =>
          /\ i = i /\ \A f \in finished : f[2] # i
          /\ \E n \in 0 .. Size :
               disk'[i] = Prefix(n) /\ r.inode = i /\ r.got = n /\ r.offset <= n
    BY <1>8, <1>10
  <2>3. /\ again' = again /\ finished' = finished /\ \A j \in Files \ {k} : partial[j] # i
        /\ \A x \in 1 .. Len(disk) : x # i => disk'[x] = disk[x]
        /\ partial' = [partial EXCEPT ![k] = i] /\ streams' = [streams EXCEPT ![s] = r]
    BY <1>7, <1>8, <1>9
  <2>4. QED
    BY <2>1, <2>2, <2>3, Rewritten, ZenonT(30)
<1>12. Inodes'
  <2>1. /\ partial'[k] = i /\ \A j \in Files \ {k} : partial'[j] = partial[j]
        /\ DOMAIN streams' = DOMAIN streams /\ streams'[s] = r
        /\ \A t \in DOMAIN streams \ {s} : streams'[t] = streams[t]
    BY <1>1, <1>7
  <2>2. \A t \in DOMAIN streams :
          /\ streams[t].inode \in 0 .. Len(disk)
          /\ streams[t].inode # 0 => \A j \in Files \ {t[1]} : partial'[j] # streams[t].inode
    <3> SUFFICES ASSUME NEW t \in DOMAIN streams
                 PROVE  /\ streams[t].inode \in 0 .. Len(disk)
                        /\ streams[t].inode # 0 =>
                             \A j \in Files \ {t[1]} : partial'[j] # streams[t].inode
      OBVIOUS
    <3>1. streams[t].inode \in 0 .. Len(disk)
      BY <1>1 DEF Whole, Inodes, TypeOK, TypeStreams, Stream0
    <3>2. streams[t].inode # 0 => \A j \in Files \ {t[1]} : partial[j] # streams[t].inode
      BY DEF Whole, Inodes
    <3>3. partial[k] = 0 => i # streams[t].inode
      BY <1>1, <1>4, <3>1
    <3>4. partial[k] # 0 => i = partial[k]
      BY <1>4
    <3>5. QED
      BY <2>1, <3>1, <3>2, <3>3, <3>4
  <2>3. \A j, h \in Files : partial'[j] = partial'[h] /\ partial'[h] # 0 => j = h
    BY <1>8, <2>1 DEF Whole, Inodes
  <2>4. \A f \in finished : f[2] \in 1 .. Len(disk') /\ \A j \in Files : partial'[j] # f[2]
    BY <1>1, <1>8, <1>9, <2>1 DEF Whole, Inodes
  <2>5. \A t \in DOMAIN streams' :
          /\ streams'[t].inode <= Len(disk')
          /\ streams'[t].inode # 0 =>
               /\ \A j \in Files \ {t[1]} : partial'[j] # streams'[t].inode
               /\ \A f \in finished : f[2] = streams'[t].inode => f[1] = t[1]
    <3> SUFFICES ASSUME NEW t \in DOMAIN streams
                 PROVE  /\ streams'[t].inode <= Len(disk')
                        /\ streams'[t].inode # 0 =>
                             /\ \A j \in Files \ {t[1]} : partial'[j] # streams'[t].inode
                             /\ \A f \in finished : f[2] = streams'[t].inode => f[1] = t[1]
      BY <2>1
    <3>1. CASE t = s
      BY <1>6, <1>8, <1>9, <2>1, <3>1
    <3>2. CASE t # s
      <4>1. /\ streams'[t] = streams[t]
            /\ \A f \in finished : streams[t].inode # 0 /\ f[2] = streams[t].inode => f[1] = t[1]
        BY <2>1, <3>2 DEF Whole, Inodes
      <4>2. streams[t].inode <= Len(disk')
        BY <1>1, <1>9, <2>2
      <4>3. QED
        BY <2>2, <4>1, <4>2
    <3>3. QED
      BY <3>1, <3>2
  <2>6. QED
    BY <1>7, <2>3, <2>4, <2>5 DEF Inodes
<1>13. QED
  BY <1>11, <1>12 DEF Whole

LEMMA WholeOnReceive ==
  ASSUME TypeOK, OneWriter, Whole, NEW k \in Files, NEW tok \in Tokens, Receive(k, tok)
  PROVE  Whole'
<1> PICK s \in DOMAIN streams :
      s = <<k, tok>> /\ streams[s].inode # 0 /\ streams[s].got < Size /\ k = s[1]
  BY DEF Receive
<1>1. /\ disk \in Seq(Seq(Nat)) /\ Len(disk) \in Nat /\ DOMAIN disk = 1 .. Len(disk)
      /\ partial[k] \in 0 .. Len(disk) /\ streams[s] \in Stream0 /\ Size \in Nat
      /\ partial \in [Files -> 0 .. Len(disk)] /\ \A x \in 1 .. Len(disk) : disk[x] \in Seq(Nat)
  BY LenProperties, ElementOfSeq, DownloadsAssumption DEF TypeOK, TypeDisk, TypeStreams
<1>2. PICK o \in Nat, g \in Nat, i \in Nat :
        o = streams[s].offset /\ g = streams[s].got /\ i = streams[s].inode
  BY <1>1 DEF Stream0
<1>3. /\ i \in 1 .. Len(disk) /\ i \in Nat \ {0} /\ \A j \in Files \ {k} : partial[j] # i
      /\ \A f \in finished : f[2] = i => f[1] = k
  <2>1. /\ i <= Len(disk) /\ i # 0
        /\ \A j \in Files \ {k} : partial[j] # i
        /\ \A f \in finished : f[2] = i => f[1] = k
    BY <1>2 DEF Whole, Inodes
  <2>2. QED
    BY <1>1, <2>1
<1>4. Orderly(k) => i = partial[k] /\ disk[i] = Prefix(g) /\ o <= g
  BY <1>2 DEF Whole, Contents, Aligned
<1>5. PICK n \in 0 .. Size : n = g + 1
  <2>1. g + 1 \in 0 .. Size
    BY <1>1, <1>2
  <2>2. QED
    BY <2>1
<1>6. PICK r \in Stream0 : r = [streams[s] EXCEPT !.got = n]
  <2>1. n \in Nat
    BY <1>1, <1>5
  <2>2. QED
    BY <1>1, <2>1, FieldUpdated
<1>7. r.inode = i /\ r.got = n /\ r.offset = o
  BY <1>1, <1>2, <1>5, <1>6 DEF Stream0
<1>8. /\ streams' = [streams EXCEPT ![s] = r] /\ finished' = finished /\ partial' = partial
      /\ disk' = [disk EXCEPT ![i] = IF o > 0 THEN Append(disk[i], n) ELSE WriteAt(disk[i], n, n)]
      /\ again' = again
  BY <1>2, <1>5, <1>6 DEF Receive, ui
<1>9. PICK c \in Seq(Nat) : disk' = [disk EXCEPT ![i] = c] /\ (Orderly(k) => c = Prefix(n))
  <2>1. PICK b \in Seq(Nat) : b = disk[i] /\ (Orderly(k) => b = Prefix(g))
    BY <1>1, <1>3, <1>4
  <2>2. n \in Nat /\ n >= 1
    BY <1>1, <1>5
  <2>3. Append(b, n) \in Seq(Nat) /\ WriteAt(b, n, n) \in Seq(Nat)
    BY <2>2, Enqueued, WrittenTyped
  <2>4. Append(Prefix(g), n) = Prefix(n) /\ WriteAt(Prefix(g), n, n) = Prefix(n)
    BY <1>5, PrefixGrows
  <2>5. PICK c \in Seq(Nat) : c = IF o > 0 THEN Append(b, n) ELSE WriteAt(b, n, n)
    BY <2>3
  <2>6. disk' = [disk EXCEPT ![i] = c]
    BY <1>8, <2>1, <2>5
  <2>7. Orderly(k) => c = Prefix(n)
    BY <2>1, <2>4, <2>5
  <2>8. QED
    BY <2>6, <2>7
<1>10. /\ Len(disk') = Len(disk) /\ disk'[i] = c
       /\ \A x \in 1 .. Len(disk) : x # i => disk'[x] = disk[x]
  BY <1>1, <1>3, <1>9, ExceptSeq
<1>11. partial' = [partial EXCEPT ![k] = partial[k]]
  BY <1>1, <1>8
<1>12. Orderly(k) =>
         /\ partial[k] = i /\ \A f \in finished : f[2] # i
         /\ disk'[i] = Prefix(n) /\ r.offset <= n
  <2> SUFFICES ASSUME Orderly(k)
               PROVE  /\ partial[k] = i /\ \A f \in finished : f[2] # i
                      /\ disk'[i] = Prefix(n) /\ r.offset <= n
    OBVIOUS
  <2>1. i = partial[k] /\ o <= g
    BY <1>4
  <2>2. \A f \in finished : f[2] # i
    BY <2>1 DEF Whole, Inodes
  <2>3. disk'[i] = Prefix(n)
    BY <1>9, <1>10
  <2>4. r.offset <= n
    BY <1>5, <1>7, <2>1
  <2>5. QED
    BY <2>1, <2>2, <2>3, <2>4
<1>13. Orderly(k) =>
         /\ partial[k] = i /\ \A f \in finished : f[2] # i
         /\ \E m \in 0 .. Size :
              disk'[i] = Prefix(m) /\ r.inode = i /\ r.got = m /\ r.offset <= m
  BY <1>7, <1>12
<1>14. Contents'
  <2>1. PICK p : p = partial[k]
    OBVIOUS
  <2>2. Orderly(k) =>
          /\ p = i /\ \A f \in finished : f[2] # i
          /\ \E m \in 0 .. Size :
               disk'[i] = Prefix(m) /\ r.inode = i /\ r.got = m /\ r.offset <= m
    BY <1>13, <2>1
  <2>3. /\ again' = again /\ finished' = finished
        /\ \A x \in 1 .. Len(disk) : x # i => disk'[x] = disk[x]
        /\ partial' = [partial EXCEPT ![k] = p] /\ streams' = [streams EXCEPT ![s] = r]
    BY <1>8, <1>10, <1>11, <2>1
  <2>4. QED
    BY <1>3, <2>2, <2>3, Rewritten
<1>15. Inodes'
  <2>1. /\ DOMAIN streams' = DOMAIN streams
        /\ \A t \in DOMAIN streams : streams'[t].inode = streams[t].inode
    BY <1>2, <1>7, <1>8
  <2>2. QED
    BY <1>8, <1>10, <2>1 DEF Whole, Inodes
<1>16. QED
  BY <1>14, <1>15 DEF Whole

LEMMA WholeOnEnd ==
  ASSUME TypeOK, OneWriter, Whole, NEW k \in Files, NEW tok \in Tokens,
         StreamFails(k, tok) \/ StreamDone(k, tok)
  PROVE  Whole'
<1> PICK s \in DOMAIN streams : s = <<k, tok>> /\ k = s[1]
  BY DEF StreamFails, StreamDone
<1>1. /\ DOMAIN streams' = DOMAIN streams \ {s}
      /\ \A t \in DOMAIN streams' : streams'[t] = streams[t]
      /\ disk' = disk /\ DOMAIN streams \subseteq Files \X Tokens /\ again' = again
      /\ finished \subseteq Files \X Nat
  BY DEF StreamFails, StreamDone, Without, Restrict, storage, ui, TypeOK, TypeStreams, TypeDisk
<1>2. CASE partial' = partial /\ finished' = finished
  BY <1>1, <1>2 DEF Whole, Contents, Inodes, Beginnings, Moved, Aligned, Orderly
<1>3. CASE ~ (partial' = partial /\ finished' = finished)
  <2>1. /\ partial[k] # 0 /\ finished' = finished \cup {<<k, partial[k]>>}
        /\ partial' = [partial EXCEPT ![k] = 0]
        /\ streams[s].inode # 0 /\ streams[s].got = Size
    BY <1>3 DEF StreamFails, StreamDone, storage
  <2>2. /\ Len(disk) \in Nat /\ \A j \in Files : partial[j] \in 0 .. Len(disk)
        /\ partial'[k] = 0 /\ \A j \in Files \ {k} : partial'[j] = partial[j]
        /\ \A j : Orderly(j)' <=> Orderly(j)
    BY <1>1, <2>1, LenProperties DEF TypeOK, TypeDisk, Orderly
  <2>3. Orderly(k) => disk[partial[k]] = Prefix(Size)
    BY <2>1 DEF Whole, Contents, Aligned
  <2>4. Beginnings'
    BY <1>1, <2>2 DEF Whole, Contents, Beginnings
  <2>5. Moved'
    BY <1>1, <2>1, <2>2, <2>3 DEF Whole, Contents, Moved
  <2>6. Aligned'
    <3>1. ASSUME NEW t \in DOMAIN streams', Orderly(t[1])
          PROVE  t \in DOMAIN streams /\ streams'[t] = streams[t] /\ partial'[t[1]] = partial[t[1]]
      <4>1. t \in DOMAIN streams /\ t # s /\ t[1] \in Files
        BY <1>1
      <4>2. t[1] # k
        BY <3>1, <4>1 DEF OneWriter, Orderly
      <4>3. QED
        BY <1>1, <2>2, <4>1, <4>2
    <3>2. QED
      BY <1>1, <2>2, <3>1 DEF Whole, Contents, Aligned
  <2>7. Inodes'
    <3>1. \A j, h \in Files : partial'[j] = partial'[h] /\ partial'[h] # 0 => j = h
      BY <2>2 DEF Whole, Inodes
    <3>2. \A f \in finished' : f[2] \in 1 .. Len(disk) /\ \A j \in Files : partial'[j] # f[2]
      <4> SUFFICES ASSUME NEW f \in finished'
                   PROVE  f[2] \in 1 .. Len(disk) /\ \A j \in Files : partial'[j] # f[2]
        OBVIOUS
      <4>1. CASE f \in finished
        <5>1. f[2] \in 1 .. Len(disk) /\ \A j \in Files : partial[j] # f[2]
          BY <4>1 DEF Whole, Inodes
        <5>2. f[2] # 0
          BY <2>2, <5>1
        <5>3. QED
          BY <2>2, <5>1, <5>2
      <4>2. CASE f = <<k, partial[k]>>
        <5>1. f[2] = partial[k] /\ partial[k] \in 1 .. Len(disk)
          BY <2>1, <2>2, <4>2
        <5>2. \A j \in Files \ {k} : partial[j] # partial[k]
          BY <2>1 DEF Whole, Inodes
        <5>3. QED
          BY <2>1, <2>2, <5>1, <5>2
      <4>3. QED
        BY <2>1, <4>1, <4>2
    <3>3. \A t \in DOMAIN streams' :
            /\ streams[t].inode <= Len(disk)
            /\ streams[t].inode # 0 =>
                 /\ \A j \in Files \ {t[1]} : partial'[j] # streams[t].inode
                 /\ \A f \in finished' : f[2] = streams[t].inode => f[1] = t[1]
      BY <1>1, <2>1, <2>2 DEF Whole, Inodes
    <3>4. QED
      BY <1>1, <3>1, <3>2, <3>3 DEF Inodes
  <2>8. QED
    BY <2>4, <2>5, <2>6, <2>7 DEF Whole, Contents
<1>4. QED
  BY <1>2, <1>3

LEMMA WholeStep == TypeOK /\ OneWriter /\ Whole /\ [Next]_vars => Whole'
<1> SUFFICES ASSUME TypeOK, OneWriter, Whole, [Next]_vars
             PROVE  Whole'
  OBVIOUS
<1>1. ASSUME UNCHANGED <<streams, storage>>
      PROVE  Whole'
  <2>1. /\ \A k \in Files : Orderly(k)' => Orderly(k)
        /\ DOMAIN streams \subseteq Files \X Tokens /\ finished \subseteq Files \X Nat
    BY OrderlyBefore DEF TypeOK, TypeStreams, TypeDisk
  <2>2. Inodes'
    BY <1>1 DEF storage, Whole, Inodes
  <2>3. Beginnings' /\ Moved'
    BY <1>1, <2>1 DEF storage, Whole, Contents, Beginnings, Moved
  <2>4. Aligned'
    BY <1>1, <2>1 DEF storage, Whole, Contents, Aligned
  <2>5. QED
    BY <2>2, <2>3, <2>4 DEF Whole, Contents
<1>2. CASE User \/ BusWorker \/ Server \/ CommandLoop
  <2>1. UNCHANGED <<streams, storage>>
    BY <1>2 DEF User, Click, ClickDownload, ClickCancel, ClickPause, BusWorker,
       BusStartDownload, BusCancelOrPause, BusPeerDownloadConnect, BusOutcome,
       BusDownloadQueuePosition, Server, GetPeerAddress, NetConnClosed, LoginResponse,
       CommandLoop, CmdDownload, CmdCancelDownload, CmdQueuePosition
  <2>2. QED
    BY <1>1, <2>1
<1>3. CASE \E k \in Files : Attempt(k) \/ FromUploader(k)
  <2>1. UNCHANGED <<streams, storage>>
    BY <1>3 DEF Attempt, DialFails, SendQueueUpload, QueueingFails, RecordPending,
       FromUploader, OnRefused, OnPlaceInQueueResponse
  <2>2. QED
    BY <1>1, <2>1
<1>4. ASSUME NEW k \in Files, NEW tok \in Tokens, FromUploaderUnder(k, tok)
      PROVE  Whole'
  <2>1. CASE OnTransferRequestUpload(k, tok)
    BY <1>1, <2>1 DEF OnTransferRequestUpload
  <2>2. CASE RecvFile(k, tok)
    BY <2>2, WholeOnConnect
  <2>3. QED
    BY <1>4, <2>1, <2>2 DEF FromUploaderUnder
<1>5. ASSUME NEW k \in Files, NEW tok \in Tokens, Stream(k, tok)
      PROVE  Whole'
  BY <1>5, WholeOnOpen, WholeOnReceive, WholeOnEnd DEF Stream
<1>6. CASE UNCHANGED vars
  BY <1>1, <1>6 DEF vars
<1>7. QED
  BY <1>2, <1>3, <1>4, <1>5, <1>6 DEF Next

\* Every file that was asked for only while its row showed nothing under way and is
\* moved into place is the uploader's file, whole and in order, whatever was cut off
\* or failed before and whatever happens to other files: a stream that appends starts
\* exactly where the partial ends, and nothing writes a partial behind its back.
THEOREM FinishedFilesAreWhole == Spec => []FinishedIsWhole
<1>1. Init => Route /\ Whole
  <2>1. Init => Whole
    BY DEF Init, Whole, Contents, Inodes, Beginnings, Moved, Aligned
  <2>2. QED
    BY <2>1, RouteInit
<1>2. Route /\ Whole /\ [Next]_vars => (Route /\ Whole)'
  BY RouteStep, SoleWriter, WholeStep DEF Route
<1>3. Whole => FinishedIsWhole
  BY DEF Whole, Contents, Moved, Orderly, Prefix, FinishedIsWhole, IsWhole
<1>4. QED
  BY <1>1, <1>2, <1>3, PTL DEF Spec

-----------------------------------------------------------------------------
(* A row that is active has something behind it. *)

\* The tokens of two uploaders never collide.  The registry is keyed by the token
\* alone: on a collision the newer download takes the older one's place in it.
DistinctTokens ==
  \A p, q \in Uploaders : p # q => UploaderTokens[p] \cap UploaderTokens[q] = {}

Somewhere(P) == \E w \in Spots : P[w] # {}

Tracked == \A k \in Files : row[k] = "active" /\ k \notin removed => Somewhere(Place(k))

\* As long as the link has not dropped, what session waits for was asked for.
AskedFor ==
  drops = 0 => logged_in /\ \A p \in Uploaders : pending_downloads[p] # <<>> => asked[p] > 0

Positions(k) == Found(cmds, k, {"QueuePosition"}) \cup Found(bus, k, {"DownloadQueuePosition"})

\* A request that no command has been given for yet, or whose outcome is due.
Early(k) == Asked(k) # {} \/ Waiting(k) # {} \/ Connecting(k) # {} \/ Told(k) # {}

\* A click that came after a cancel or a pause is still behind it on the bus.
Renewed == \A k \in Files \ removed : \A i \in Stopping(k) : \E j \in Asked(k) : j > i

\* A file never asked for is nowhere and has no place in any queue.
Unplaced ==
  \A k \in Files : row[k] = "none" /\ k \notin removed /\ Asked(k) = {} =>
    (\A w \in Spots : Place(k)[w] = {}) /\ wanted[k] = 0 /\ Positions(k) = {}

Cancels(k) == Found(cmds, k, {"CancelDownload"})

\* A cancel the user has overruled by a new click leaves the new request alone.
Overruled ==
  \A k \in Files \ removed : row[k] = "active" =>
    \A i \in Cancels(k) : Early(k) \/ \E j \in Ordered(k) : j > i

\* Negotiated tokens are used up, and every uploader uses its own.
Spent ==
  /\ \A t \in DOMAIN by_token : <<UploaderOf[by_token[t]], t>> \in used
  /\ \A u \in used : u[2] \in UploaderTokens[u[1]]

LEMMA FoundStays ==
  ASSUME NEW T, NEW s \in Seq(T), NEW x, NEW k, NEW K
  PROVE  Found(s, k, K) \subseteq Found(Append(s, x), k, K)
<1>1. /\ Len(s) \in Nat /\ DOMAIN s = 1 .. Len(s) /\ DOMAIN Append(s, x) = 1 .. Len(s) + 1
      /\ \A i \in 1 .. Len(s) : Append(s, x)[i] = s[i]
  BY AppendProperties, LenProperties
<1>2. QED
  BY <1>1 DEF Found

LEMMA FoundAdded ==
  ASSUME NEW T, NEW s \in Seq(T), NEW x, NEW k, NEW K, x.file = k, x.kind \in K
  PROVE  Found(Append(s, x), k, K) # {}
BY FoundAppend

LEMMA FoundShifts ==
  ASSUME NEW T, NEW s \in Seq(T), s # <<>>, NEW r, r = Tail(s), NEW k, NEW K
  PROVE  /\ Found(s, k, K) \subseteq Nat \ {0} /\ Found(r, k, K) \subseteq Nat \ {0}
         /\ \A i \in Nat \ {0} : i \in Found(r, k, K) <=> i + 1 \in Found(s, k, K)
         /\ 1 \in Found(s, k, K) <=> Head(s).file = k /\ Head(s).kind \in K
<1>1. /\ Len(s) \in Nat \ {0} /\ DOMAIN s = 1 .. Len(s) /\ DOMAIN r = 1 .. Len(s) - 1
      /\ Head(s) = s[1] /\ \A i \in DOMAIN r : r[i] = s[i + 1]
  BY HeadTailProperties, LenProperties, EmptySeq
<1>2. ASSUME NEW i \in Nat \ {0}
      PROVE  i \in Found(r, k, K) <=> i + 1 \in Found(s, k, K)
  <2>1. i \in DOMAIN r <=> i + 1 \in DOMAIN s
    BY <1>1
  <2>2. QED
    BY <1>1, <2>1 DEF Found
<1>3. QED
  BY <1>1, <1>2 DEF Found

LEMMA CmdsSlide ==
  ASSUME TypeOK, cmds # <<>>, cmds' = Tail(cmds), NEW k, NEW K
  PROVE  \A v \in Nat \ {0} : v \in Found(cmds', k, K) <=> v + 1 \in Found(cmds, k, K)
<1> PICK s \in Seq(Orders), r \in {Tail(cmds)} : s = cmds /\ s # <<>> /\ r = Tail(s)
  BY DEF TypeOK, TypeQueues
<1>1. \A v \in Nat \ {0} : v \in Found(r, k, K) <=> v + 1 \in Found(s, k, K)
  BY FoundShifts
<1>2. QED
  BY <1>1

LEMMA FoundBehind ==
  ASSUME NEW T, NEW s \in Seq(T), s # <<>>, NEW r, r = Tail(s), NEW k, NEW K,
         Found(s, k, K) # {}, ~ (Head(s).file = k /\ Head(s).kind \in K)
  PROVE  Found(r, k, K) # {}
<1> PICK i \in Found(s, k, K) : TRUE
  OBVIOUS
<1>1. i \in Nat \ {0} /\ i # 1
  BY FoundShifts
<1>2. PICK n \in Nat \ {0} : i = n + 1
  <2>1. i - 1 \in Nat \ {0} /\ i = (i - 1) + 1
    BY <1>1
  <2>2. QED
    BY <2>1
<1>3. QED
  BY <1>2, FoundShifts

LEMMA FoundEither ==
  ASSUME NEW T, NEW s \in Seq(T), NEW t \in Seq(T), NEW k, NEW K
  PROVE  /\ Found(s, k, K) # {} => Found(s \o t, k, K) # {}
         /\ Found(t, k, K) # {} => Found(s \o t, k, K) # {}
<1> PICK r : r = s \o t
  OBVIOUS
<1>1. /\ Len(s) \in Nat /\ Len(t) \in Nat /\ DOMAIN s = 1 .. Len(s) /\ DOMAIN t = 1 .. Len(t)
      /\ DOMAIN r = 1 .. Len(s) + Len(t) /\ \A i \in 1 .. Len(s) : r[i] = s[i]
      /\ \A i \in 1 .. Len(t) : r[Len(s) + i] = t[i]
  BY ConcatProperties, LenProperties
<1>2. Found(s, k, K) \subseteq Found(r, k, K)
  BY <1>1 DEF Found
<1>3. ASSUME NEW i \in Found(t, k, K)
      PROVE  Len(s) + i \in Found(r, k, K)
  <2>1. i \in 1 .. Len(t) /\ Len(s) + i \in 1 .. Len(s) + Len(t)
    BY <1>1 DEF Found
  <2>2. QED
    BY <1>1, <2>1 DEF Found
<1>4. QED
  BY <1>2, <1>3

LEMMA SomewhereMeans ==
  ASSUME NEW k
  PROVE  /\ Somewhere(Place(k)) <=>
              \/ Asked(k) # {} \/ Waiting(k) # {} \/ Connecting(k) # {} \/ Ordered(k) # {}
              \/ Trying(k) # {} \/ Held(k) # {} \/ TokensOf(k) # {} \/ StreamsOf(k) # {}
              \/ Told(k) # {}
         /\ Somewhere(Place(k)') <=>
              \/ Asked(k)' # {} \/ Waiting(k)' # {} \/ Connecting(k)' # {} \/ Ordered(k)' # {}
              \/ Trying(k)' # {} \/ Held(k)' # {} \/ TokensOf(k)' # {} \/ StreamsOf(k)' # {}
              \/ Told(k)' # {}
BY DEF Somewhere, Spots, Place

\* A message at the end of the bus or of the commands takes nothing away.
LEMMA AppendKeeps ==
  ASSUME TypeOK, NEW j \in Files, NEW m
  PROVE  /\ bus' = Append(bus, m) =>
              /\ Asked(j) \subseteq Asked(j)' /\ Connecting(j) \subseteq Connecting(j)'
              /\ Told(j) \subseteq Told(j)'
              /\ m.file = j /\ m.kind \in {"DownloadComplete", "DownloadFailed"} => Told(j)' # {}
              /\ m.file = j /\ m.kind = "StartDownload" => Asked(j)' # {}
         /\ cmds' = Append(cmds, m) =>
              /\ Ordered(j) \subseteq Ordered(j)'
              /\ m.file = j /\ m.kind = "Download" => Ordered(j)' # {}
<1>1. bus \in Seq(Asks) /\ cmds \in Seq(Orders)
  BY DEF TypeOK, TypeQueues
<1>2. cmds' = Append(cmds, m) => /\ Ordered(j) \subseteq Ordered(j)'
                                 /\ m.file = j /\ m.kind = "Download" => Ordered(j)' # {}
  BY <1>1, FoundStays, FoundAppend DEF Ordered
<1>3. CASE bus' = Append(bus, m)
  <2>1. \A K : /\ Found(bus, j, K) \subseteq Found(bus', j, K)
               /\ m.file = j /\ m.kind \in K => Found(bus', j, K) # {}
    BY <1>1, <1>3, FoundStays, FoundAppend
  <2>2. /\ Asked(j) \subseteq Asked(j)' /\ Connecting(j) \subseteq Connecting(j)'
        /\ Told(j) \subseteq Told(j)'
    BY <2>1 DEF Asked, Connecting, Told
  <2>3. /\ m.file = j /\ m.kind \in {"DownloadComplete", "DownloadFailed"} => Told(j)' # {}
        /\ m.file = j /\ m.kind = "StartDownload" => Asked(j)' # {}
    BY <2>1 DEF Asked, Told
  <2>4. QED
    BY <1>2, <2>2, <2>3
<1>4. QED
  BY <1>2, <1>3

LEMMA KeptByUser ==
  ASSUME TypeOK, User, NEW j \in Files
  PROVE  /\ Somewhere(Place(j)) => Somewhere(Place(j)')
         /\ Early(j) => Early(j)'
         /\ Asked(j) # {} => Asked(j)' # {}
         /\ ClickDownload(j) => Asked(j)' # {} /\ Somewhere(Place(j)')
<1> PICK k \in Files : ClickDownload(k) \/ ClickCancel(k) \/ ClickPause(k)
  BY DEF User
<1>1. PICK m : /\ bus' = Append(bus, m)
               /\ pending_downloads' = pending_downloads /\ cmds' = cmds /\ dialing' = dialing
               /\ writing' = writing /\ pending' = pending /\ by_token' = by_token
               /\ streams' = streams
  BY DEF ClickDownload, ClickCancel, ClickPause, Click, session, attempt, registry
<1>2. /\ Waiting(j)' = Waiting(j) /\ Ordered(j)' = Ordered(j) /\ Trying(j)' = Trying(j)
      /\ Held(j)' = Held(j) /\ TokensOf(j)' = TokensOf(j) /\ StreamsOf(j)' = StreamsOf(j)
  BY <1>1, StaysPut
<1>3. /\ Asked(j) \subseteq Asked(j)' /\ Connecting(j) \subseteq Connecting(j)'
      /\ Told(j) \subseteq Told(j)'
  BY <1>1, AppendKeeps
<1>4. ClickDownload(j) => Asked(j)' # {}
  <2>1. ClickDownload(j) => bus' = Append(bus, Msg("StartDownload", j))
    BY DEF ClickDownload, Click
  <2>2. QED
    BY <2>1, AppendKeeps, MessageFields
<1>5. QED
  BY <1>2, <1>3, <1>4, SomewhereMeans DEF Early

LEMMA KeptByBus ==
  ASSUME TypeOK, BusWorker, NEW j \in Files
  PROVE  /\ Somewhere(Place(j)) => Somewhere(Place(j)') \/ row'[j] \in {"completed", "failed"}
         /\ Early(j) => \/ Early(j)'
                        \/ row'[j] \in {"completed", "failed"}
                        \/ BusPeerDownloadConnect /\ Head(bus).file = j
         /\ Asked(j) # {} => Asked(j)' # {} \/ (BusStartDownload /\ Head(bus).file = j)
         /\ BusStartDownload /\ Head(bus).file = j => Early(j)' /\ Somewhere(Place(j)')
<1>1. /\ bus # <<>> /\ dialing' = dialing /\ writing' = writing /\ pending' = pending
      /\ by_token' = by_token /\ streams' = streams
  BY DEF BusWorker, BusStartDownload, BusCancelOrPause, BusPeerDownloadConnect, BusOutcome,
     BusDownloadQueuePosition, Handled, attempt, registry
<1> PICK k \in Files : k = Head(bus).file
  BY <1>1, HeadOfBus
<1>2. /\ Trying(j)' = Trying(j) /\ Held(j)' = Held(j) /\ TokensOf(j)' = TokensOf(j)
      /\ StreamsOf(j)' = StreamsOf(j)
  BY <1>1, StaysPut
<1>3. bus \in Seq(Asks) /\ Tail(bus) \in Seq(Asks) /\ cmds \in Seq(Orders)
  BY <1>1, HeadOfBus DEF TypeOK, TypeQueues
<1> PICK b \in Seq(Asks) : b = Tail(bus)
  BY <1>3
<1>4. \A K : Found(bus, j, K) # {} /\ (k # j \/ Head(bus).kind \notin K) => Found(b, j, K) # {}
  BY <1>1, <1>3, FoundBehind
<1>5. CASE BusStartDownload
  <2> PICK p \in Uploaders : p = UploaderOf[k]
    BY DownloadsAssumption
  <2> PICK q \in Seq(Files) : q = pending_downloads[p]
    BY DEF TypeOK, TypeSession
  <2>1. Head(bus).kind = "StartDownload" /\ cmds' = cmds
    BY <1>5 DEF BusStartDownload, Handled
  <2>2. Ordered(j)' = Ordered(j)
    BY <2>1, StaysPut
  <2>3. CASE bus' = b /\ pending_downloads' = [pending_downloads EXCEPT ![p] = Append(q, k)]
    <3>1. /\ Connecting(j) # {} => Connecting(j)' # {}
          /\ Told(j) # {} => Told(j)' # {}
          /\ Asked(j) # {} /\ k # j => Asked(j)' # {}
      BY <1>4, <2>1, <2>3 DEF Connecting, Told, Asked
    <3>2. /\ k = j => Waiting(j)' # {}
          /\ k # j => Waiting(j)' = Waiting(j)
      <4>1. /\ k # j => Indices(Append(q, k), j) = Indices(q, j)
            /\ k = j => Indices(Append(q, k), j) # {}
        BY IndicesAppend
      <4>2. /\ UploaderOf[j] = p => pending_downloads'[UploaderOf[j]] = Append(q, k)
            /\ UploaderOf[j] # p =>
                 pending_downloads'[UploaderOf[j]] = pending_downloads[UploaderOf[j]]
        BY <2>3, DownloadsAssumption DEF TypeOK, TypeSession
      <4>3. CASE k = j
        BY <4>1, <4>2, <4>3 DEF Waiting
      <4>4. CASE k # j /\ UploaderOf[j] = p
        <5>1. Waiting(j) = Indices(q, j) /\ Waiting(j)' = Indices(Append(q, k), j)
          BY <4>2, <4>4 DEF Waiting
        <5>2. QED
          BY <4>1, <4>4, <5>1
      <4>5. CASE k # j /\ UploaderOf[j] # p
        BY <4>2, <4>5 DEF Waiting
      <4>6. QED
        BY <4>3, <4>4, <4>5
    <3>3. CASE k = j
      <4>1. Waiting(j)' # {}
        BY <3>2, <3>3
      <4>2. Somewhere(Place(j)') /\ Early(j)'
        BY <4>1, SomewhereMeans DEF Early
      <4>3. QED
        BY <1>5, <3>3, <4>2
    <3>4. CASE k # j
      <4>1. /\ Asked(j) # {} => Asked(j)' # {}
            /\ Waiting(j)' = Waiting(j)
        BY <3>1, <3>2, <3>4
      <4>2. Early(j) => Early(j)'
        BY <3>1, <4>1 DEF Early
      <4>3. Somewhere(Place(j)) => Somewhere(Place(j)')
        BY <1>2, <2>2, <3>1, <4>1, SomewhereMeans
      <4>4. QED
        BY <3>4, <4>1, <4>2, <4>3
    <3>5. QED
      BY <3>3, <3>4
  <2>4. CASE /\ bus' = Append(b, Msg("DownloadFailed", k))
             /\ pending_downloads' = pending_downloads
    <3>1. PICK m : bus' = Append(b, m) /\ m.file = k /\ m.kind = "DownloadFailed"
      BY <2>4, MessageFields
    <3>2. \A K : Found(b, j, K) # {} => Found(bus', j, K) # {}
      BY <3>1, FoundStays
    <3>3. /\ Connecting(j) # {} => Connecting(j)' # {}
          /\ Told(j) # {} => Told(j)' # {}
          /\ Asked(j) # {} /\ k # j => Asked(j)' # {}
      BY <1>4, <2>1, <3>2 DEF Connecting, Told, Asked
    <3>4. k = j => Told(j)' # {}
      <4>1. /\ "DownloadFailed" \in {"DownloadComplete", "DownloadFailed"}
            /\ b \in Seq(Asks) /\ m.kind = "DownloadFailed"
        BY <3>1
      <4>2. m.file = j => Found(Append(b, m), j, {"DownloadComplete", "DownloadFailed"}) # {}
        BY <4>1, FoundAdded
      <4>3. Told(j)' = Found(Append(b, m), j, {"DownloadComplete", "DownloadFailed"})
        BY <3>1 DEF Told
      <4>4. QED
        BY <3>1, <4>2, <4>3
    <3>5. Waiting(j)' = Waiting(j)
      BY <2>4, StaysPut
    <3>6. CASE k = j
      <4>1. Told(j)' # {}
        BY <3>4, <3>6
      <4>2. Somewhere(Place(j)') /\ Early(j)'
        BY <4>1, SomewhereMeans DEF Early
      <4>3. QED
        BY <1>5, <3>6, <4>2
    <3>7. CASE k # j
      <4>1. Asked(j) # {} => Asked(j)' # {}
        BY <3>3, <3>7
      <4>2. Early(j) => Early(j)'
        BY <3>3, <3>5, <4>1 DEF Early
      <4>3. Somewhere(Place(j)) => Somewhere(Place(j)')
        BY <1>2, <2>2, <3>3, <3>5, <4>1, SomewhereMeans
      <4>4. QED
        BY <3>7, <4>1, <4>2, <4>3
    <3>8. QED
      BY <3>6, <3>7
  <2>5. QED
    BY <1>5, <2>3, <2>4 DEF BusStartDownload
<1>6. CASE ~ BusStartDownload
  <2>1. bus' = b /\ pending_downloads' = pending_downloads
    BY <1>6 DEF BusWorker, BusCancelOrPause, BusPeerDownloadConnect, BusOutcome,
       BusDownloadQueuePosition, session
  <2>2. Waiting(j)' = Waiting(j)
    BY <2>1, StaysPut
  <2>3. Ordered(j) # {} => Ordered(j)' # {}
    <3>1. cmds' = cmds \/ \E m : cmds' = Append(cmds, m)
      BY <1>6 DEF BusWorker, BusCancelOrPause, BusPeerDownloadConnect, BusOutcome,
         BusDownloadQueuePosition
    <3>2. CASE cmds' = cmds
      BY <3>2, StaysPut
    <3>3. ASSUME NEW m, cmds' = Append(cmds, m)
          PROVE  Ordered(j) # {} => Ordered(j)' # {}
      BY <3>3, AppendKeeps
    <3>4. QED
      BY <3>1, <3>2, <3>3
  <2>4. CASE BusOutcome /\ k = j
    <3>1. row'[j] \in {"completed", "failed"}
      BY <2>4 DEF BusOutcome, SetRow, TypeOK, TypeUI
    <3>2. Asked(j) # {} => Asked(j)' # {}
      BY <1>4, <2>1, <2>4 DEF Asked, BusOutcome
    <3>3. QED
      BY <1>6, <3>1, <3>2
  <2>5. CASE BusPeerDownloadConnect /\ k = j
    <3>1. cmds' = Append(cmds, Msg("Download", j))
      BY <2>5 DEF BusPeerDownloadConnect
    <3>2. Ordered(j)' # {}
      BY <3>1, AppendKeeps, MessageFields
    <3>3. Asked(j) # {} => Asked(j)' # {}
      BY <1>4, <2>1, <2>5 DEF Asked, BusPeerDownloadConnect, Handled
    <3>4. QED
      BY <1>6, <2>5, <3>2, <3>3, SomewhereMeans
  <2>6. CASE k # j \/ (~ BusOutcome /\ ~ BusPeerDownloadConnect)
    <3>1. k # j \/ Head(bus).kind \in {"CancelDownload", "PauseDownload", "DownloadQueuePosition"}
      BY <1>6, <2>6 DEF BusWorker, BusCancelOrPause, BusDownloadQueuePosition, Handled
    <3>2. /\ Connecting(j) # {} => Connecting(j)' # {}
          /\ Told(j) # {} => Told(j)' # {}
          /\ Asked(j) # {} => Asked(j)' # {}
      BY <1>4, <2>1, <3>1 DEF Connecting, Told, Asked
    <3>3. QED
      BY <1>2, <1>6, <2>2, <2>3, <3>2, SomewhereMeans DEF Early
  <2>7. QED
    BY <2>4, <2>5, <2>6
<1>7. QED
  BY <1>5, <1>6

LEMMA KeptByServer ==
  ASSUME TypeOK, Filed, Server, NEW j \in Files
  PROVE  /\ Somewhere(Place(j)) => Somewhere(Place(j)')
         /\ Early(j) => Early(j)'
         /\ Asked(j) # {} => Asked(j)' # {}
<1>1. /\ cmds' = cmds /\ dialing' = dialing /\ writing' = writing /\ pending' = pending
      /\ by_token' = by_token /\ streams' = streams
  BY DEF Server, GetPeerAddress, NetConnClosed, LoginResponse, attempt, registry
<1>2. /\ Ordered(j)' = Ordered(j) /\ Trying(j)' = Trying(j) /\ Held(j)' = Held(j)
      /\ TokensOf(j)' = TokensOf(j) /\ StreamsOf(j)' = StreamsOf(j)
  BY <1>1, StaysPut
<1>3. CASE bus' = bus /\ pending_downloads' = pending_downloads
  <2>1. /\ Asked(j)' = Asked(j) /\ Connecting(j)' = Connecting(j) /\ Told(j)' = Told(j)
        /\ Waiting(j)' = Waiting(j)
    BY <1>3, StaysPut
  <2>2. QED
    BY <1>2, <2>1, SomewhereMeans DEF Early
<1>4. ASSUME NEW p \in Uploaders, NEW online \in BOOLEAN, GetPeerAddress(p, online)
      PROVE  /\ Somewhere(Place(j)) => Somewhere(Place(j)')
             /\ Early(j) => Early(j)'
             /\ Asked(j) # {} => Asked(j)' # {}
  <2> PICK q \in Seq(Files) : q = pending_downloads[p]
    BY DEF TypeOK, TypeSession
  <2> PICK kind \in {"PeerDownloadConnect", "DownloadFailed"} :
        kind = IF online THEN "PeerDownloadConnect" ELSE "DownloadFailed"
    OBVIOUS
  <2> PICK ms : ms = [i \in DOMAIN q |-> Msg(kind, q[i])]
    OBVIOUS
  <2>1. /\ bus' = bus \o ms /\ pending_downloads' = [pending_downloads EXCEPT ![p] = <<>>]
    BY <1>4 DEF GetPeerAddress
  <2>2. bus \in Seq(Asks) /\ ms \in Seq(Asks)
    <3>1. \A i \in DOMAIN q : Msg(kind, q[i]) \in Asks
      BY MessagesTyped, ElementOfSeq, LenProperties DEF BusKinds
    <3>2. QED
      BY <3>1 DEF TypeOK, TypeQueues
  <2>3. \A K : /\ Found(bus, j, K) # {} => Found(bus', j, K) # {}
               /\ Found(ms, j, K) # {} => Found(bus', j, K) # {}
    BY <2>1, <2>2, FoundEither
  <2>4. /\ Asked(j) # {} => Asked(j)' # {}
        /\ Connecting(j) # {} => Connecting(j)' # {}
        /\ Told(j) # {} => Told(j)' # {}
    BY <2>3 DEF Asked, Connecting, Told
  <2>5. Indices(q, j) # {} => Connecting(j)' # {} \/ Told(j)' # {}
    <3>1. \A K : kind \in K => Found(ms, j, K) = Indices(q, j)
      <4>1. DOMAIN ms = DOMAIN q /\ \A i \in DOMAIN q : ms[i].file = q[i] /\ ms[i].kind = kind
        BY MessageFields
      <4>2. QED
        BY <4>1 DEF Found, Indices
    <3>2. CASE kind = "PeerDownloadConnect"
      <4>1. Found(ms, j, {"PeerDownloadConnect"}) = Indices(q, j)
        BY <3>1, <3>2
      <4>2. QED
        BY <2>3, <4>1 DEF Connecting
    <3>3. CASE kind = "DownloadFailed"
      <4>1. Found(ms, j, {"DownloadComplete", "DownloadFailed"}) = Indices(q, j)
        BY <3>1, <3>3
      <4>2. QED
        BY <2>3, <4>1 DEF Told
    <3>4. QED
      BY <3>2, <3>3
  <2>6. UploaderOf[j] # p => Waiting(j)' = Waiting(j)
    BY <2>1, DownloadsAssumption DEF Waiting, TypeOK, TypeSession
  <2>7. UploaderOf[j] = p => Waiting(j) = Indices(q, j)
    BY DEF Waiting
  <2>8. QED
    BY <1>2, <2>4, <2>5, <2>6, <2>7, SomewhereMeans DEF Early
<1>5. QED
  BY <1>3, <1>4 DEF Server, NetConnClosed, LoginResponse

LEMMA KeptByCommands ==
  ASSUME TypeOK, CommandLoop, NEW j \in Files, Somewhere(Place(j))
  PROVE  \/ Somewhere(Place(j)')
         \/ /\ CmdCancelDownload /\ Head(cmds).file = j
            /\ Held(j) # {} \/ TokensOf(j) # {}
<1>1. /\ cmds # <<>> /\ cmds' = Tail(cmds) /\ pending_downloads' = pending_downloads
      /\ streams' = streams /\ writing' = writing
  BY DEF CommandLoop, CmdDownload, CmdCancelDownload, CmdQueuePosition, NextCmd, session, attempt
<1> PICK k \in Files : k = Head(cmds).file
  BY <1>1, HeadOfCmds
<1>2. Waiting(j)' = Waiting(j) /\ StreamsOf(j)' = StreamsOf(j)
  BY <1>1, StaysPut
<1>3. cmds \in Seq(Orders)
  BY DEF TypeOK, TypeQueues
<1>4. Ordered(j) # {} /\ (k # j \/ Head(cmds).kind # "Download") => Ordered(j)' # {}
  BY <1>1, <1>3, FoundBehind DEF Ordered
<1>5. CASE CmdDownload
  <2>1. /\ Head(cmds).kind = "Download" /\ dialing' = [dialing EXCEPT ![k] = @ + 1]
        /\ bus' = bus /\ pending' = pending /\ by_token' = by_token
    BY <1>5 DEF CmdDownload, NextCmd, registry
  <2>2. /\ Asked(j)' = Asked(j) /\ Connecting(j)' = Connecting(j) /\ Told(j)' = Told(j)
        /\ Held(j)' = Held(j) /\ TokensOf(j)' = TokensOf(j)
    BY <2>1, StaysPut
  <2>3. CASE k # j
    <3>1. Trying(j)' = Trying(j)
      BY <1>1, <2>1, <2>3 DEF Trying, TypeOK, TypeAttempt
    <3>2. QED
      BY <1>2, <1>4, <2>2, <2>3, <3>1, SomewhereMeans
  <2>4. CASE k = j
    <3>1. PICK d \in Nat, w \in Nat : d = dialing[j] /\ w = writing[j]
      BY DEF TypeOK, TypeAttempt
    <3>2. dialing'[j] = d + 1 /\ writing'[j] = w
      BY <1>1, <2>1, <2>4, <3>1 DEF TypeOK, TypeAttempt
    <3>3. Trying(j)' = 1 .. (d + 1) + w
      BY <3>1, <3>2 DEF Trying
    <3>4. 1 \in 1 .. (d + 1) + w
      BY <3>1
    <3>5. QED
      BY <3>3, <3>4, SomewhereMeans
  <2>5. QED
    BY <2>3, <2>4
<1>6. CASE CmdCancelDownload
  <2>1. /\ bus' = bus /\ dialing' = dialing /\ pending' = pending \ {k}
        /\ by_token' = Without(by_token, {t \in DOMAIN by_token : by_token[t] = k})
        /\ Head(cmds).kind = "CancelDownload"
    BY <1>6 DEF CmdCancelDownload, NextCmd, attempt
  <2>2. /\ Asked(j)' = Asked(j) /\ Connecting(j)' = Connecting(j) /\ Told(j)' = Told(j)
        /\ Trying(j)' = Trying(j)
    BY <1>1, <2>1, StaysPut
  <2>3. k # j => Held(j)' = Held(j)
    BY <2>1 DEF Held
  <2>4. k # j => TokensOf(j) \subseteq TokensOf(j)'
    BY <2>1 DEF TokensOf, Without, Restrict
  <2>5. Ordered(j) # {} => Ordered(j)' # {}
    BY <1>4, <2>1
  <2>6. QED
    BY <1>2, <1>6, <2>2, <2>3, <2>4, <2>5, SomewhereMeans
<1>7. CASE CmdQueuePosition
  <2>1. /\ bus' = Append(bus, Msg("DownloadQueuePosition", k)) /\ dialing' = dialing
        /\ pending' = pending /\ by_token' = by_token /\ Head(cmds).kind = "QueuePosition"
    BY <1>7 DEF CmdQueuePosition, NextCmd, attempt, registry
  <2>2. Trying(j)' = Trying(j) /\ Held(j)' = Held(j) /\ TokensOf(j)' = TokensOf(j)
    BY <1>1, <2>1, StaysPut
  <2>3. /\ Asked(j) \subseteq Asked(j)' /\ Connecting(j) \subseteq Connecting(j)'
        /\ Told(j) \subseteq Told(j)'
    BY <2>1, AppendKeeps
  <2>4. QED
    BY <1>2, <1>4, <2>1, <2>2, <2>3, SomewhereMeans
<1>8. QED
  BY <1>5, <1>6, <1>7 DEF CommandLoop

LEMMA KeptByTask ==
  ASSUME TypeOK, NEW k \in Files, Attempt(k) \/ FromUploader(k), NEW j \in Files,
         Somewhere(Place(j))
  PROVE  Somewhere(Place(j)')
<1>1. pending_downloads' = pending_downloads /\ by_token' = by_token /\ streams' = streams
  BY DEF Attempt, FromUploader, DialFails, SendQueueUpload, QueueingFails, RecordPending,
     OnRefused, OnPlaceInQueueResponse, session, registry
<1>2. Waiting(j)' = Waiting(j) /\ TokensOf(j)' = TokensOf(j) /\ StreamsOf(j)' = StreamsOf(j)
  BY <1>1, StaysPut
<1>3. PICK d \in Nat, w \in Nat : d = dialing[j] /\ w = writing[j]
  BY DEF TypeOK, TypeAttempt
<1>4. /\ bus' = bus \/ \E m : bus' = Append(bus, m)
      /\ cmds' = cmds \/ \E m : cmds' = Append(cmds, m)
  BY DEF Attempt, FromUploader, DialFails, SendQueueUpload, QueueingFails, RecordPending,
     OnRefused, OnPlaceInQueueResponse
<1>5. /\ Asked(j) # {} => Asked(j)' # {}
      /\ Connecting(j) # {} => Connecting(j)' # {}
      /\ Told(j) # {} => Told(j)' # {}
      /\ Ordered(j) # {} => Ordered(j)' # {}
  <2>1. CASE bus' = bus
    <3>1. Asked(j)' = Asked(j) /\ Connecting(j)' = Connecting(j) /\ Told(j)' = Told(j)
      BY <2>1, StaysPut
    <3>2. Ordered(j) # {} => Ordered(j)' # {}
      BY <1>4, StaysPut, AppendKeeps
    <3>3. QED
      BY <3>1, <3>2
  <2>2. ASSUME NEW m, bus' = Append(bus, m)
        PROVE  /\ Asked(j) # {} => Asked(j)' # {}
               /\ Connecting(j) # {} => Connecting(j)' # {}
               /\ Told(j) # {} => Told(j)' # {}
               /\ Ordered(j) # {} => Ordered(j)' # {}
    <3>1. /\ Asked(j) \subseteq Asked(j)' /\ Connecting(j) \subseteq Connecting(j)'
          /\ Told(j) \subseteq Told(j)'
      BY <2>2, AppendKeeps
    <3>2. Ordered(j) # {} => Ordered(j)' # {}
      BY <1>4, StaysPut, AppendKeeps
    <3>3. QED
      BY <3>1, <3>2
  <2>3. QED
    BY <1>4, <2>1, <2>2
<1>6. CASE k # j
  <2>1. Trying(j)' = Trying(j) /\ Held(j)' = Held(j)
    <3>1. dialing'[j] = dialing[j] /\ writing'[j] = writing[j]
      BY <1>6 DEF Attempt, FromUploader, DialFails, SendQueueUpload, QueueingFails,
         RecordPending, OnRefused, OnPlaceInQueueResponse, attempt, TypeOK, TypeAttempt
    <3>2. pending' \cap {j} = pending \cap {j}
      BY <1>6 DEF Attempt, FromUploader, DialFails, SendQueueUpload, QueueingFails,
         RecordPending, OnRefused, OnPlaceInQueueResponse, registry
    <3>3. QED
      BY <3>1, <3>2 DEF Trying, Held
  <2>2. QED
    BY <1>2, <1>5, <2>1, SomewhereMeans
<1>7. CASE k = j /\ (DialFails(k) \/ QueueingFails(k))
  <2>1. bus' = Append(bus, Msg("DownloadFailed", j))
    BY <1>7 DEF DialFails, QueueingFails
  <2>2. Told(j)' # {}
    BY <2>1, AppendKeeps, MessageFields
  <2>3. QED
    BY <2>2, SomewhereMeans
<1>8. CASE k = j /\ RecordPending(k)
  <2>1. j \in Held(j)'
    BY <1>8 DEF RecordPending, Held
  <2>2. QED
    BY <2>1, SomewhereMeans
<1>9. CASE k = j /\ SendQueueUpload(k)
  <2>1. pending' = pending /\ dialing'[j] + writing'[j] = d + w
    BY <1>3, <1>9 DEF SendQueueUpload, registry, TypeOK, TypeAttempt
  <2>2. Trying(j)' = Trying(j) /\ Held(j)' = Held(j)
    BY <1>3, <2>1 DEF Trying, Held
  <2>3. QED
    BY <1>2, <1>5, <2>2, SomewhereMeans
<1>10. CASE k = j /\ OnRefused(k)
  <2>1. dialing' = dialing /\ writing' = writing
    BY <1>10 DEF OnRefused, attempt
  <2>2. Trying(j)' = Trying(j)
    BY <2>1, StaysPut
  <2>3. CASE k \in pending
    <3>1. bus' = Append(bus, Msg("DownloadFailed", j))
      BY <1>10, <2>3 DEF OnRefused
    <3>2. Told(j)' # {}
      BY <3>1, AppendKeeps, MessageFields
    <3>3. QED
      BY <3>2, SomewhereMeans
  <2>4. CASE k \notin pending
    <3>1. Held(j) = {}
      BY <1>10, <2>4 DEF Held
    <3>2. QED
      BY <1>2, <1>5, <2>2, <3>1, SomewhereMeans
  <2>5. QED
    BY <2>3, <2>4
<1>11. CASE k = j /\ OnPlaceInQueueResponse(k)
  <2>1. pending' = pending /\ dialing' = dialing /\ writing' = writing
    BY <1>11 DEF OnPlaceInQueueResponse, attempt, registry
  <2>2. Trying(j)' = Trying(j) /\ Held(j)' = Held(j)
    BY <2>1, StaysPut
  <2>3. QED
    BY <1>2, <1>5, <2>2, SomewhereMeans
<1>12. QED
  BY <1>6, <1>7, <1>8, <1>9, <1>10, <1>11 DEF Attempt, FromUploader

LEMMA KeptByOffers ==
  ASSUME TypeOK, Spent, DistinctTokens, NEW k \in Files, NEW tok \in Tokens,
         FromUploaderUnder(k, tok), NEW j \in Files, Somewhere(Place(j))
  PROVE  Somewhere(Place(j)')
<1>1. /\ pending_downloads' = pending_downloads /\ bus' = bus /\ cmds' = cmds
      /\ dialing' = dialing /\ writing' = writing
  BY DEF FromUploaderUnder, OnTransferRequestUpload, RecvFile, session, attempt
<1>2. /\ Waiting(j)' = Waiting(j) /\ Asked(j)' = Asked(j) /\ Connecting(j)' = Connecting(j)
      /\ Told(j)' = Told(j) /\ Ordered(j)' = Ordered(j) /\ Trying(j)' = Trying(j)
  BY <1>1, StaysPut
<1>3. CASE pending' = pending /\ by_token' = by_token /\ streams' = streams
  <2>1. Held(j)' = Held(j) /\ TokensOf(j)' = TokensOf(j) /\ StreamsOf(j)' = StreamsOf(j)
    BY <1>3, StaysPut
  <2>2. QED
    BY <1>2, <2>1, SomewhereMeans
<1>4. CASE /\ OnTransferRequestUpload(k, tok) /\ streams' = streams /\ k \in pending
           /\ pending' = pending \ {k} /\ by_token' = With(by_token, tok, k)
  <2>1. StreamsOf(j)' = StreamsOf(j)
    BY <1>4, StaysPut
  <2>2. tok \notin DOMAIN by_token
    <3> SUFFICES ASSUME tok \in DOMAIN by_token
                 PROVE  FALSE
      OBVIOUS
    <3>1. PICK f \in Files : f = by_token[tok]
      BY DEF TypeOK, TypeAttempt
    <3>2. UploaderOf[f] \in Uploaders /\ UploaderOf[k] \in Uploaders
      BY DownloadsAssumption
    <3>3. <<UploaderOf[f], tok>> \in used /\ <<UploaderOf[k], tok>> \notin used
      BY <1>4, <3>1 DEF Spent, OnTransferRequestUpload
    <3>4. tok \in UploaderTokens[UploaderOf[f]] /\ tok \in UploaderTokens[UploaderOf[k]]
      BY <1>4, <3>3 DEF Spent, OnTransferRequestUpload
    <3>5. QED
      BY <3>2, <3>3, <3>4 DEF DistinctTokens
  <2>3. /\ DOMAIN by_token' = DOMAIN by_token \cup {tok} /\ by_token'[tok] = k
        /\ \A y \in DOMAIN by_token : by_token'[y] = by_token[y]
    BY <1>4, <2>2 DEF With
  <2>4. TokensOf(j) \subseteq TokensOf(j)' /\ (k = j => tok \in TokensOf(j)')
    BY <2>3 DEF TokensOf
  <2>5. k # j => Held(j)' = Held(j)
    BY <1>4 DEF Held
  <2>6. QED
    BY <1>2, <2>1, <2>4, <2>5, SomewhereMeans
<1>5. ASSUME pending' = pending, tok \in DOMAIN by_token, by_token' = Without(by_token, {tok}),
             NEW r, streams' = With(streams, <<by_token[tok], tok>>, r)
      PROVE  Somewhere(Place(j)')
  <2> PICK f \in Files : f = by_token[tok]
    BY <1>5 DEF TypeOK, TypeAttempt
  <2>1. Held(j)' = Held(j)
    BY <1>5, StaysPut
  <2>2. /\ DOMAIN by_token' = DOMAIN by_token \ {tok}
        /\ \A y \in DOMAIN by_token' : by_token'[y] = by_token[y]
    BY <1>5 DEF Without, Restrict
  <2>3. DOMAIN streams' = DOMAIN streams \cup {<<f, tok>>}
    BY <1>5 DEF With
  <2>4. StreamsOf(j) \subseteq StreamsOf(j)' /\ (f = j => <<f, tok>> \in StreamsOf(j)')
    BY <2>3 DEF StreamsOf
  <2>5. f # j => TokensOf(j) \subseteq TokensOf(j)'
    BY <2>2 DEF TokensOf
  <2>6. QED
    BY <1>2, <2>1, <2>4, <2>5, SomewhereMeans
<1>6. QED
  BY <1>3, <1>4, <1>5 DEF FromUploaderUnder, OnTransferRequestUpload, RecvFile, registry,
     Negotiated

LEMMA KeptByStreams ==
  ASSUME TypeOK, NEW k \in Files, NEW tok \in Tokens, Stream(k, tok), NEW j \in Files,
         Somewhere(Place(j))
  PROVE  Somewhere(Place(j)')
<1>1. /\ pending_downloads' = pending_downloads /\ cmds' = cmds /\ dialing' = dialing
      /\ writing' = writing /\ pending' = pending /\ by_token' = by_token
  BY DEF Stream, OpenPartial, Receive, StreamFails, StreamDone, session, attempt, registry
<1>2. /\ Waiting(j)' = Waiting(j) /\ Ordered(j)' = Ordered(j) /\ Trying(j)' = Trying(j)
      /\ Held(j)' = Held(j) /\ TokensOf(j)' = TokensOf(j)
  BY <1>1, StaysPut
<1>3. CASE OpenPartial(k, tok) \/ Receive(k, tok)
  <2>1. bus' = bus /\ DOMAIN streams' = DOMAIN streams
    BY <1>3 DEF OpenPartial, Receive
  <2>2. Asked(j)' = Asked(j) /\ Connecting(j)' = Connecting(j) /\ Told(j)' = Told(j)
    BY <2>1, StaysPut
  <2>3. StreamsOf(j)' = StreamsOf(j)
    BY <2>1 DEF StreamsOf
  <2>4. QED
    BY <1>2, <2>2, <2>3, SomewhereMeans
<1>4. CASE StreamFails(k, tok) \/ StreamDone(k, tok)
  <2>1. PICK m : /\ bus' = Append(bus, m) /\ m.file = k
                 /\ m.kind \in {"DownloadComplete", "DownloadFailed"}
    BY <1>4, MessageFields DEF StreamFails, StreamDone
  <2>2. /\ Asked(j) \subseteq Asked(j)' /\ Connecting(j) \subseteq Connecting(j)'
        /\ Told(j) \subseteq Told(j)'
        /\ k = j => Told(j)' # {}
    BY <2>1, AppendKeeps
  <2>3. DOMAIN streams' = DOMAIN streams \ {<<k, tok>>}
    BY <1>4 DEF StreamFails, StreamDone, Without, Restrict
  <2>4. k # j => StreamsOf(j)' = StreamsOf(j)
    BY <2>3 DEF StreamsOf
  <2>5. QED
    BY <1>2, <2>2, <2>4, SomewhereMeans
<1>5. QED
  BY <1>3, <1>4 DEF Stream

\* What is somewhere stays somewhere, until its outcome is shown or a cancel meets it.
LEMMA NothingIsLost ==
  ASSUME TypeOK, Filed, Spent, DistinctTokens, [Next]_vars, NEW j \in Files, Somewhere(Place(j))
  PROVE  \/ Somewhere(Place(j)')
         \/ row'[j] \in {"completed", "failed"}
         \/ /\ CmdCancelDownload /\ Head(cmds).file = j
            /\ Held(j) # {} \/ TokensOf(j) # {}
<1>1. CASE UNCHANGED vars
  <2>1. /\ Asked(j)' = Asked(j) /\ Waiting(j)' = Waiting(j) /\ Connecting(j)' = Connecting(j)
        /\ Ordered(j)' = Ordered(j) /\ Trying(j)' = Trying(j) /\ Held(j)' = Held(j)
        /\ TokensOf(j)' = TokensOf(j) /\ StreamsOf(j)' = StreamsOf(j) /\ Told(j)' = Told(j)
    BY <1>1, StaysPut DEF vars, session, attempt, registry
  <2>2. QED
    BY <2>1, SomewhereMeans
<1>2. QED
  BY <1>1, KeptByUser, KeptByBus, KeptByServer, KeptByCommands, KeptByTask, KeptByOffers,
     KeptByStreams DEF Next

\* A request that is early stays so until it is ordered or its outcome is shown.
LEMMA EarlyStays ==
  ASSUME TypeOK, Filed, [Next]_vars, NEW j \in Files
  PROVE  /\ Early(j) => \/ Early(j)'
                        \/ row'[j] \in {"completed", "failed"}
                        \/ BusPeerDownloadConnect /\ Head(bus).file = j
         /\ Asked(j) # {} => Asked(j)' # {} \/ (BusStartDownload /\ Head(bus).file = j)
<1>1. ASSUME pending_downloads' = pending_downloads, bus' = bus \/ \E m : bus' = Append(bus, m)
      PROVE  (Early(j) => Early(j)') /\ (Asked(j) # {} => Asked(j)' # {})
  <2>1. Waiting(j)' = Waiting(j)
    BY <1>1, StaysPut
  <2>2. /\ Asked(j) \subseteq Asked(j)' /\ Connecting(j) \subseteq Connecting(j)'
        /\ Told(j) \subseteq Told(j)'
    <3>1. CASE bus' = bus
      BY <3>1, StaysPut
    <3>2. ASSUME NEW m, bus' = Append(bus, m)
          PROVE  /\ Asked(j) \subseteq Asked(j)' /\ Connecting(j) \subseteq Connecting(j)'
                 /\ Told(j) \subseteq Told(j)'
      BY <3>2, AppendKeeps
    <3>3. QED
      BY <1>1, <3>1, <3>2
  <2>3. QED
    BY <2>1, <2>2 DEF Early
<1>2. CASE User \/ BusWorker \/ Server
  BY <1>2, KeptByUser, KeptByBus, KeptByServer
<1>3. CASE CommandLoop
  <2>1. pending_downloads' = pending_downloads /\ (bus' = bus \/ \E m : bus' = Append(bus, m))
    BY <1>3 DEF CommandLoop, CmdDownload, CmdCancelDownload, CmdQueuePosition, session
  <2>2. QED
    BY <1>1, <2>1
<1>4. ASSUME NEW k \in Files, Attempt(k) \/ FromUploader(k)
      PROVE  (Early(j) => Early(j)') /\ (Asked(j) # {} => Asked(j)' # {})
  <2>1. pending_downloads' = pending_downloads /\ (bus' = bus \/ \E m : bus' = Append(bus, m))
    BY <1>4 DEF Attempt, FromUploader, DialFails, SendQueueUpload, QueueingFails,
       RecordPending, OnRefused, OnPlaceInQueueResponse, session
  <2>2. QED
    BY <1>1, <2>1
<1>5. ASSUME NEW k \in Files, NEW tok \in Tokens, FromUploaderUnder(k, tok) \/ Stream(k, tok)
      PROVE  (Early(j) => Early(j)') /\ (Asked(j) # {} => Asked(j)' # {})
  <2>1. pending_downloads' = pending_downloads /\ (bus' = bus \/ \E m : bus' = Append(bus, m))
    BY <1>5 DEF FromUploaderUnder, OnTransferRequestUpload, RecvFile, Stream, OpenPartial,
       Receive, StreamFails, StreamDone, session
  <2>2. QED
    BY <1>1, <2>1
<1>6. CASE UNCHANGED vars
  BY <1>1, <1>6 DEF vars, session
<1>7. QED
  BY <1>2, <1>3, <1>4, <1>5, <1>6 DEF Next

\* Without a click, the bus only loses its head and gains no cancel and no pause.
LEMMA BusSlides ==
  ASSUME TypeOK, [Next]_vars, ~ User, NEW k \in Files
  PROVE  \E d \in {0, 1} :
           /\ \A i \in Stopping(k)' : i \in Nat \ {0} /\ i + d \in Stopping(k)
           /\ \A n \in Nat \ {0} : n + d \in Asked(k) => n \in Asked(k)'
<1> PICK S, A : S = {"CancelDownload", "PauseDownload"} /\ A = {"StartDownload"}
  OBVIOUS
<1>0. /\ Stopping(k) = Found(bus, k, S) /\ Stopping(k)' = Found(bus', k, S)
      /\ Asked(k) = Found(bus, k, A) /\ Asked(k)' = Found(bus', k, A)
      /\ S \cap {"DownloadComplete", "DownloadFailed", "DownloadQueuePosition",
                 "PeerDownloadConnect"} = {}
  BY DEF Stopping, Asked
<1>1. bus \in Seq(Asks) /\ \A K : Found(bus, k, K) \subseteq Nat \ {0}
  BY LenProperties DEF TypeOK, TypeQueues, Found
<1>2. ASSUME NEW b \in Seq(Asks), NEW m, m.kind \notin S
      PROVE  /\ Found(Append(b, m), k, S) = Found(b, k, S)
             /\ Found(b, k, A) \subseteq Found(Append(b, m), k, A)
  BY <1>2, FoundAppend, FoundStays
<1>3. CASE bus' = bus \/ \E m : bus' = Append(bus, m) /\ m.kind \notin S
  <2>1. Found(bus', k, S) = Found(bus, k, S) /\ Found(bus, k, A) \subseteq Found(bus', k, A)
    <3>1. CASE bus' = bus
      BY <3>1
    <3>2. ASSUME NEW m, bus' = Append(bus, m), m.kind \notin S
          PROVE  /\ Found(bus', k, S) = Found(bus, k, S)
                 /\ Found(bus, k, A) \subseteq Found(bus', k, A)
      BY <1>1, <1>2, <3>2
    <3>3. QED
      BY <1>3, <3>1, <3>2
  <2>2. /\ \A i \in Found(bus', k, S) : i \in Nat \ {0} /\ i + 0 \in Found(bus, k, S)
        /\ \A n \in Nat \ {0} : n + 0 \in Found(bus, k, A) => n \in Found(bus', k, A)
    BY <1>1, <2>1
  <2>3. QED
    BY <1>0, <2>2
<1>4. ASSUME bus # <<>>,
             bus' = Tail(bus) \/ \E m : bus' = Append(Tail(bus), m) /\ m.kind \notin S
      PROVE  /\ \A i \in Found(bus', k, S) : i \in Nat \ {0} /\ i + 1 \in Found(bus, k, S)
             /\ \A n \in Nat \ {0} : n + 1 \in Found(bus, k, A) => n \in Found(bus', k, A)
  <2> PICK b \in Seq(Asks) : b = Tail(bus)
    BY <1>4, HeadOfBus
  <2>1. /\ \A i \in Found(b, k, S) : i \in Nat \ {0} /\ i + 1 \in Found(bus, k, S)
        /\ \A n \in Nat \ {0} : n + 1 \in Found(bus, k, A) => n \in Found(b, k, A)
    <3>1. \A K : /\ Found(b, k, K) \subseteq Nat \ {0}
                 /\ \A n \in Nat \ {0} : n \in Found(b, k, K) <=> n + 1 \in Found(bus, k, K)
      BY <1>1, <1>4, FoundShifts
    <3>2. QED
      BY <3>1
  <2>2. Found(bus', k, S) = Found(b, k, S) /\ Found(b, k, A) \subseteq Found(bus', k, A)
    <3>1. CASE bus' = b
      BY <3>1
    <3>2. ASSUME NEW m, bus' = Append(b, m), m.kind \notin S
          PROVE  /\ Found(bus', k, S) = Found(b, k, S)
                 /\ Found(b, k, A) \subseteq Found(bus', k, A)
      BY <1>2, <3>2
    <3>3. QED
      BY <1>4, <3>1, <3>2
  <2>3. QED
    BY <2>1, <2>2
<1>5. ASSUME NEW p \in Uploaders, NEW kind \in {"PeerDownloadConnect", "DownloadFailed"},
             bus' = bus \o [i \in DOMAIN pending_downloads[p] |->
                              Msg(kind, pending_downloads[p][i])]
      PROVE  Found(bus', k, S) = Found(bus, k, S) /\ Found(bus, k, A) \subseteq Found(bus', k, A)
  <2> PICK q \in Seq(Files) : q = pending_downloads[p]
    BY DEF TypeOK, TypeSession
  <2> PICK ms : ms = [i \in DOMAIN q |-> Msg(kind, q[i])]
    OBVIOUS
  <2>1. ms \in Seq(Asks)
    <3>1. \A i \in DOMAIN q : Msg(kind, q[i]) \in Asks
      BY MessagesTyped, ElementOfSeq, LenProperties DEF BusKinds
    <3>2. QED
      BY <3>1
  <2>2. Found(ms, k, S) = {} /\ Found(ms, k, A) = {}
    <3>1. DOMAIN ms = DOMAIN q /\ \A i \in DOMAIN q : ms[i].kind = kind
      BY MessageFields
    <3>2. QED
      BY <3>1 DEF Found
  <2>3. \A K : Found(ms, k, K) = {} => Found(bus \o ms, k, K) = Found(bus, k, K)
    BY <1>1, <2>1, FoundJoined
  <2>4. QED
    BY <1>5, <2>2, <2>3
<1>6. CASE \E p \in Uploaders, kind \in {"PeerDownloadConnect", "DownloadFailed"} :
             bus' = bus \o [i \in DOMAIN pending_downloads[p] |->
                              Msg(kind, pending_downloads[p][i])]
  <2>1. Found(bus', k, S) = Found(bus, k, S) /\ Found(bus, k, A) \subseteq Found(bus', k, A)
    BY <1>5, <1>6
  <2>2. /\ \A i \in Found(bus', k, S) : i \in Nat \ {0} /\ i + 0 \in Found(bus, k, S)
        /\ \A n \in Nat \ {0} : n + 0 \in Found(bus, k, A) => n \in Found(bus', k, A)
    BY <1>1, <2>1
  <2>3. QED
    BY <1>0, <2>2
<1>7. \A j : \A kind \in {"DownloadComplete", "DownloadFailed", "DownloadQueuePosition"} :
        Msg(kind, j).kind \notin S
  BY MessageFields
<1>8. CASE bus # <<>> /\ (bus' = Tail(bus) \/
             \E m : bus' = Append(Tail(bus), m) /\ m.kind \notin S)
  BY <1>0, <1>4, <1>8
<1>9. \/ bus' = bus \/ \E m : bus' = Append(bus, m) /\ m.kind \notin S
      \/ bus # <<>> /\ (bus' = Tail(bus) \/
            \E m : bus' = Append(Tail(bus), m) /\ m.kind \notin S)
      \/ \E p \in Uploaders, kind \in {"PeerDownloadConnect", "DownloadFailed"} :
           bus' = bus \o [i \in DOMAIN pending_downloads[p] |->
                            Msg(kind, pending_downloads[p][i])]
  BY <1>7, BusChanges
<1>10. QED
  BY <1>3, <1>6, <1>8, <1>9

LEMMA SpentStep ==
  ASSUME TypeOK, Spent, [Next]_vars
  PROVE  Spent'
<1>1. CASE by_token' = by_token /\ used' = used
  BY <1>1 DEF Spent
<1>2. ASSUME used' = used, NEW S, by_token' = Without(by_token, S)
      PROVE  Spent'
  <2>1. \A t \in DOMAIN by_token' : t \in DOMAIN by_token /\ by_token'[t] = by_token[t]
    BY <1>2 DEF Without, Restrict
  <2>2. QED
    BY <1>2, <2>1 DEF Spent
<1>3. ASSUME NEW k \in Files, NEW tok \in Tokens, OnTransferRequestUpload(k, tok)
      PROVE  Spent'
  <2>1. /\ used' = used \cup {<<UploaderOf[k], tok>>} /\ tok \in UploaderTokens[UploaderOf[k]]
        /\ by_token' = by_token \/ by_token' = With(by_token, tok, k)
    BY <1>3 DEF OnTransferRequestUpload, registry
  <2>2. \A u \in used' : u[2] \in UploaderTokens[u[1]]
    BY <2>1 DEF Spent
  <2>3. \A t \in DOMAIN by_token' : <<UploaderOf[by_token'[t]], t>> \in used'
    <3>1. CASE by_token' = by_token
      BY <2>1, <3>1 DEF Spent
    <3>2. CASE by_token' = With(by_token, tok, k)
      <4>1. /\ DOMAIN by_token' = DOMAIN by_token \cup {tok}
            /\ \A t \in DOMAIN by_token' : by_token'[t] = IF t = tok THEN k ELSE by_token[t]
        BY <3>2 DEF With
      <4>2. QED
        BY <2>1, <4>1 DEF Spent
    <3>3. QED
      BY <2>1, <3>1, <3>2
  <2>4. QED
    BY <2>2, <2>3 DEF Spent
<1>4. ASSUME NEW k \in Files, NEW tok \in Tokens, RecvFile(k, tok)
      PROVE  Spent'
  <2>1. used' = used /\ (by_token' = by_token \/ by_token' = Without(by_token, {tok}))
    BY <1>4 DEF RecvFile
  <2>2. QED
    BY <1>1, <1>2, <2>1
<1>5. CASE CommandLoop
  <2>1. used' = used /\ (by_token' = by_token \/ \E S : by_token' = Without(by_token, S))
    BY <1>5 DEF CommandLoop, CmdDownload, CmdCancelDownload, CmdQueuePosition, registry, remote
  <2>2. QED
    BY <1>1, <1>2, <2>1
<1>6. CASE User \/ BusWorker \/ Server \/ UNCHANGED vars
  <2>1. by_token' = by_token /\ used' = used
    BY <1>6 DEF User, ClickDownload, ClickCancel, ClickPause, Click, BusWorker, BusStartDownload,
       BusCancelOrPause, BusPeerDownloadConnect, BusOutcome, BusDownloadQueuePosition, Server,
       GetPeerAddress, NetConnClosed, LoginResponse, vars, registry, remote
  <2>2. QED
    BY <1>1, <2>1
<1>7. ASSUME NEW k \in Files, Attempt(k) \/ FromUploader(k)
      PROVE  Spent'
  <2>1. by_token' = by_token /\ used' = used
    BY <1>7 DEF Attempt, FromUploader, DialFails, SendQueueUpload, QueueingFails, RecordPending,
       OnRefused, OnPlaceInQueueResponse, registry, remote
  <2>2. QED
    BY <1>1, <2>1
<1>8. ASSUME NEW k \in Files, NEW tok \in Tokens, Stream(k, tok)
      PROVE  Spent'
  <2>1. by_token' = by_token /\ used' = used
    BY <1>8 DEF Stream, OpenPartial, Receive, StreamFails, StreamDone, registry, remote
  <2>2. QED
    BY <1>1, <2>1
<1>9. QED
  BY <1>3, <1>4, <1>5, <1>6, <1>7, <1>8 DEF Next, FromUploaderUnder

LEMMA AskedForStep ==
  ASSUME TypeOK, AskedFor, [Next]_vars
  PROVE  AskedFor'
<1>1. ASSUME UNCHANGED session
      PROVE  AskedFor'
  BY <1>1 DEF AskedFor, session
<1>2. CASE BusStartDownload /\ pending_downloads' # pending_downloads
  <2> PICK k \in Files : k = Head(bus).file
    BY <1>2, HeadOfBus DEF BusStartDownload, Handled
  <2> PICK p \in Uploaders : p = UploaderOf[k]
    BY DownloadsAssumption
  <2>1. /\ logged_in' = logged_in /\ drops' = drops
        /\ asked' = [asked EXCEPT ![p] = @ + 1]
        /\ pending_downloads' = [pending_downloads EXCEPT ![p] = Append(@, k)]
    BY <1>2 DEF BusStartDownload
  <2>2. ASSUME NEW r \in Uploaders, drops = 0, pending_downloads'[r] # <<>>
        PROVE  asked'[r] > 0
    <3>1. asked[r] \in Nat /\ asked'[r] = IF r = p THEN asked[r] + 1 ELSE asked[r]
      BY <2>1 DEF TypeOK, TypeSession
    <3>2. CASE r = p
      BY <3>1, <3>2
    <3>3. CASE r # p
      <4>1. pending_downloads[r] # <<>>
        BY <2>1, <2>2, <3>3 DEF TypeOK, TypeSession
      <4>2. QED
        BY <2>2, <3>1, <3>3, <4>1 DEF AskedFor
    <3>4. QED
      BY <3>2, <3>3
  <2>3. QED
    BY <2>1, <2>2 DEF AskedFor
<1>3. CASE BusStartDownload /\ pending_downloads' = pending_downloads
  <2> PICK k \in Files : k = Head(bus).file
    BY <1>3, HeadOfBus DEF BusStartDownload, Handled
  <2> PICK p \in Uploaders : p = UploaderOf[k]
    BY DownloadsAssumption
  <2>1. /\ logged_in' = logged_in /\ drops' = drops
        /\ asked' = asked \/ asked' = [asked EXCEPT ![p] = @ + 1]
    BY <1>3 DEF BusStartDownload
  <2>2. ASSUME NEW r \in Uploaders, asked[r] > 0
        PROVE  asked'[r] > 0
    <3>1. asked[r] \in Nat /\ (asked'[r] = asked[r] + 1 \/ asked'[r] = asked[r])
      BY <2>1 DEF TypeOK, TypeSession
    <3>2. QED
      BY <2>2, <3>1
  <2>3. QED
    BY <1>3, <2>1, <2>2 DEF AskedFor
<1>4. ASSUME NEW p \in Uploaders, NEW online \in BOOLEAN, GetPeerAddress(p, online)
      PROVE  AskedFor'
  <2>1. /\ logged_in' = logged_in /\ drops' = drops
        /\ asked' = [asked EXCEPT ![p] = @ - 1]
        /\ pending_downloads' = [pending_downloads EXCEPT ![p] = <<>>]
    BY <1>4 DEF GetPeerAddress
  <2>2. ASSUME NEW r \in Uploaders, pending_downloads'[r] # <<>>
        PROVE  pending_downloads[r] # <<>> /\ asked'[r] = asked[r]
    BY <2>1, <2>2 DEF TypeOK, TypeSession
  <2>3. QED
    BY <2>1, <2>2 DEF AskedFor
<1>5. CASE NetConnClosed
  <2>1. drops \in Nat /\ drops' = drops + 1
    BY <1>5 DEF NetConnClosed, TypeOK, TypeSession
  <2>2. drops' # 0
    BY <2>1
  <2>3. QED
    BY <2>2 DEF AskedFor
<1>6. CASE LoginResponse
  BY <1>6 DEF LoginResponse, AskedFor
<1>7. User \/ UNCHANGED vars => UNCHANGED session
  BY DEF User, ClickDownload, ClickCancel, ClickPause, Click, session, vars
<1>8. BusWorker /\ ~ BusStartDownload => UNCHANGED session
  BY DEF BusWorker, BusCancelOrPause, BusPeerDownloadConnect, BusOutcome,
     BusDownloadQueuePosition, session
<1>9. CommandLoop => UNCHANGED session
  BY DEF CommandLoop, CmdDownload, CmdCancelDownload, CmdQueuePosition, session
<1>10. \A k \in Files : Attempt(k) \/ FromUploader(k) => UNCHANGED session
  BY DEF Attempt, FromUploader, DialFails, SendQueueUpload, QueueingFails, RecordPending,
     OnRefused, OnPlaceInQueueResponse, session
<1>11. \A k \in Files, tok \in Tokens : FromUploaderUnder(k, tok) \/ Stream(k, tok) =>
         UNCHANGED session
  BY DEF FromUploaderUnder, OnTransferRequestUpload, RecvFile, Stream, OpenPartial, Receive,
     StreamFails, StreamDone, session
<1>12. QED
  BY <1>1, <1>2, <1>3, <1>4, <1>5, <1>6, <1>7, <1>8, <1>9, <1>10, <1>11 DEF Next, Server

LEMMA RemovedStays ==
  ASSUME TypeOK, [Next]_vars, NEW k \in Files, k \notin removed', ~ ClickDownload(k)
  PROVE  k \notin removed
<1>1. CASE User
  <2> PICK j \in Files : ClickDownload(j) \/ ClickCancel(j) \/ ClickPause(j)
    BY <1>1 DEF User
  <2>1. \/ removed' = removed \cup {j}
        \/ removed' = removed \ {j} /\ ClickDownload(j)
    BY DEF ClickDownload, ClickCancel, ClickPause
  <2>2. QED
    BY <2>1
<1>2. CASE ~ User
  BY <1>2, RemovedByClicks
<1>3. QED
  BY <1>1, <1>2

\* How the command channel changes.
LEMMA CmdsChange ==
  ASSUME TypeOK, [Next]_vars
  PROVE  \/ cmds' = cmds
         \/ cmds # <<>> /\ cmds' = Tail(cmds)
         \/ BusCancelOrPause /\ cmds' = Append(cmds, Msg("CancelDownload", Head(bus).file))
         \/ \E k \in Files : cmds' = Append(cmds, Msg("Download", k))
         \/ \E k \in Files : /\ OnPlaceInQueueResponse(k)
                             /\ cmds' = Append(cmds, Msg("QueuePosition", k))
<1>1. User \/ Server \/ UNCHANGED vars => cmds' = cmds
  BY DEF User, ClickDownload, ClickCancel, ClickPause, Click, Server, GetPeerAddress,
     NetConnClosed, LoginResponse, vars
<1>2. BusStartDownload \/ BusOutcome \/ BusDownloadQueuePosition => cmds' = cmds
  BY DEF BusStartDownload, BusOutcome, BusDownloadQueuePosition
<1>3. BusCancelOrPause => cmds' = Append(cmds, Msg("CancelDownload", Head(bus).file))
  BY DEF BusCancelOrPause
<1>4. CASE BusPeerDownloadConnect
  <2>1. Head(bus).file \in Files
    BY <1>4, HeadOfBus DEF BusPeerDownloadConnect, Handled
  <2>2. QED
    BY <1>4, <2>1 DEF BusPeerDownloadConnect
<1>5. CommandLoop => cmds # <<>> /\ cmds' = Tail(cmds)
  BY DEF CommandLoop, CmdDownload, CmdCancelDownload, CmdQueuePosition, NextCmd
<1>6. \A k \in Files : Attempt(k) \/ OnRefused(k) => cmds' = cmds
  BY DEF Attempt, DialFails, SendQueueUpload, QueueingFails, RecordPending, OnRefused
<1>7. \A k \in Files : OnPlaceInQueueResponse(k) => cmds' = Append(cmds, Msg("QueuePosition", k))
  BY DEF OnPlaceInQueueResponse
<1>8. \A k \in Files, tok \in Tokens : FromUploaderUnder(k, tok) \/ Stream(k, tok) => cmds' = cmds
  BY DEF FromUploaderUnder, OnTransferRequestUpload, RecvFile, Stream, OpenPartial, Receive,
     StreamFails, StreamDone
<1>9. QED
  BY <1>1, <1>2, <1>3, <1>4, <1>5, <1>6, <1>7, <1>8 DEF Next, BusWorker, FromUploader

\* A command found after a step was there before, a place up, or was just given.
LEMMA CmdsFound ==
  ASSUME TypeOK, [Next]_vars, NEW k \in Files, NEW K, NEW i \in Found(cmds', k, K)
  PROVE  /\ i \in Nat \ {0}
         /\ \/ cmds' = cmds /\ i \in Found(cmds, k, K)
            \/ cmds # <<>> /\ cmds' = Tail(cmds) /\ i + 1 \in Found(cmds, k, K)
            \/ /\ Len(cmds) \in Nat /\ Found(cmds, k, K) \subseteq 1 .. Len(cmds)
               /\ \E m : cmds' = Append(cmds, m)
               /\ \/ i \in Found(cmds, k, K)
                  \/ i = Len(cmds) + 1 /\ BusCancelOrPause /\ Head(bus).file = k
                     /\ "CancelDownload" \in K
                  \/ i = Len(cmds) + 1 /\ "Download" \in K
                  \/ i = Len(cmds) + 1 /\ OnPlaceInQueueResponse(k) /\ "QueuePosition" \in K
<1>1. cmds \in Seq(Orders)
  BY DEF TypeOK, TypeQueues
<1>2. CASE cmds' = cmds
  <2>1. i \in DOMAIN cmds /\ DOMAIN cmds = 1 .. Len(cmds) /\ Len(cmds) \in Nat
    BY <1>1, <1>2, LenProperties DEF Found
  <2>2. i \in Nat \ {0}
    BY <2>1
  <2>3. i \in Found(cmds, k, K)
    BY <1>2
  <2>4. QED
    BY <1>2, <2>2, <2>3
<1>3. CASE cmds # <<>> /\ cmds' = Tail(cmds)
  BY <1>1, <1>3, FoundShifts
<1>4. ASSUME NEW m, cmds' = Append(cmds, m)
      PROVE  /\ i \in Nat \ {0} /\ Len(cmds) \in Nat
             /\ Found(cmds, k, K) \subseteq 1 .. Len(cmds)
             /\ \/ i \in Found(cmds, k, K)
                \/ i = Len(cmds) + 1 /\ m.file = k /\ m.kind \in K
  <2>1. /\ Len(cmds) \in Nat /\ DOMAIN cmds = 1 .. Len(cmds)
        /\ DOMAIN cmds' = 1 .. Len(cmds) + 1
        /\ cmds'[Len(cmds) + 1] = m /\ \A x \in 1 .. Len(cmds) : cmds'[x] = cmds[x]
    BY <1>1, <1>4, AppendProperties, LenProperties
  <2>2. i \in 1 .. Len(cmds) \/ i = Len(cmds) + 1
    BY <2>1 DEF Found
  <2>3. i \in Nat \ {0}
    BY <2>1, <2>2
  <2>4. QED
    BY <2>1, <2>2, <2>3 DEF Found
<1>5. CASE BusCancelOrPause /\ cmds' = Append(cmds, Msg("CancelDownload", Head(bus).file))
  BY <1>4, <1>5, MessageFields
<1>6. ASSUME NEW j \in Files, cmds' = Append(cmds, Msg("Download", j))
      PROVE  /\ i \in Nat \ {0} /\ Len(cmds) \in Nat
             /\ Found(cmds, k, K) \subseteq 1 .. Len(cmds)
             /\ \/ i \in Found(cmds, k, K)
                \/ i = Len(cmds) + 1 /\ "Download" \in K
  BY <1>4, <1>6, MessageFields
<1>7. ASSUME NEW j \in Files, OnPlaceInQueueResponse(j),
             cmds' = Append(cmds, Msg("QueuePosition", j))
      PROVE  /\ i \in Nat \ {0} /\ Len(cmds) \in Nat
             /\ Found(cmds, k, K) \subseteq 1 .. Len(cmds)
             /\ \/ i \in Found(cmds, k, K)
                \/ i = Len(cmds) + 1 /\ OnPlaceInQueueResponse(k) /\ "QueuePosition" \in K
  BY <1>4, <1>7, MessageFields
<1>8. QED
  BY <1>2, <1>3, <1>5, <1>6, <1>7, CmdsChange

LEMMA RenewedStep ==
  ASSUME TypeOK, Renewed, [Next]_vars
  PROVE  Renewed'
<1> SUFFICES ASSUME NEW k \in Files, k \notin removed', NEW i \in Stopping(k)'
             PROVE  \E j \in Asked(k)' : j > i
  BY DEF Renewed
<1>1. bus \in Seq(Asks) /\ Len(bus) \in Nat /\ \A K : Found(bus, k, K) \subseteq 1 .. Len(bus)
  BY LenProperties DEF TypeOK, TypeQueues, Found
<1>2. CASE User
  <2> PICK j \in Files : ClickDownload(j) \/ ClickCancel(j) \/ ClickPause(j)
    BY <1>2 DEF User
  <2>1. CASE ClickDownload(j)
    <3>1. PICK m : bus' = Append(bus, m) /\ m.file = j /\ m.kind = "StartDownload"
      BY <2>1, MessageFields DEF ClickDownload, Click
    <3>2. i \in Stopping(k)
      BY <1>1, <3>1, FoundAppend DEF Stopping
    <3>3. CASE j = k
      <4>1. Len(bus) + 1 \in Asked(k)'
        BY <1>1, <3>1, <3>3, AppendProperties, LenProperties DEF Asked, Found
      <4>2. i \in 1 .. Len(bus)
        BY <1>1, <3>2 DEF Stopping
      <4>3. QED
        BY <1>1, <4>1, <4>2
    <3>4. CASE j # k
      <4>1. k \notin removed /\ Asked(k) \subseteq Asked(k)'
        BY <2>1, <3>1, <3>4, AppendKeeps DEF ClickDownload
      <4>2. QED
        BY <3>2, <4>1 DEF Renewed
    <3>5. QED
      BY <3>3, <3>4
  <2>2. CASE ClickCancel(j) \/ ClickPause(j)
    <3>1. PICK m : bus' = Append(bus, m) /\ m.file = j /\ removed' = removed \cup {j}
      BY <2>2, MessageFields DEF ClickCancel, ClickPause, Click
    <3>2. k # j /\ k \notin removed
      BY <3>1
    <3>3. i \in Stopping(k) /\ Asked(k) \subseteq Asked(k)'
      BY <1>1, <3>1, <3>2, FoundAppend, AppendKeeps DEF Stopping
    <3>4. QED
      BY <3>2, <3>3 DEF Renewed
  <2>3. QED
    BY <2>1, <2>2
<1>3. CASE ~ User
  <2>1. PICK d \in {0, 1} :
          /\ \A n \in Stopping(k)' : n \in Nat \ {0} /\ n + d \in Stopping(k)
          /\ \A n \in Nat \ {0} : n + d \in Asked(k) => n \in Asked(k)'
    BY <1>3, BusSlides
  <2>2. k \notin removed /\ i \in Nat \ {0} /\ i + d \in Stopping(k)
    BY <1>3, <2>1, RemovedByClicks
  <2>3. PICK j \in Asked(k) : j > i + d /\ j \in Nat
    BY <1>1, <2>2 DEF Renewed, Asked
  <2>4. PICK n \in Nat \ {0} : n + d = j /\ n > i
    <3>1. j - d \in Nat \ {0} /\ (j - d) + d = j /\ j - d > i
      BY <2>1, <2>2, <2>3
    <3>2. QED
      BY <3>1
  <2>5. QED
    BY <2>1, <2>3, <2>4
<1>4. QED
  BY <1>2, <1>3

\* How a row comes to be one of nothing.
LEMMA NoneWhen ==
  ASSUME TypeOK, Filed, Renewed, [Next]_vars, NEW k \in Files,
         row'[k] = "none", k \notin removed', Asked(k)' = {}
  PROVE  row[k] = "none" /\ k \notin removed /\ Asked(k) = {} /\ ~ ClickDownload(k)
<1>1. row \in [Files -> Rows]
  BY DEF TypeOK, TypeUI
<1>2. ~ ClickDownload(k)
  BY KeptByUser DEF User
<1>3. k \notin removed
  BY <1>2, RemovedStays
<1>4. Asked(k) = {}
  <2>1. BusStartDownload /\ Head(bus).file = k => row'[k] = "active"
    BY <1>1 DEF BusStartDownload, SetRow
  <2>2. QED
    BY <2>1, EarlyStays
<1>5. CASE BusWorker
  <2>1. ~ (BusCancelOrPause /\ Head(bus).file = k)
    <3> SUFFICES ASSUME BusCancelOrPause, Head(bus).file = k
                 PROVE  FALSE
      OBVIOUS
    <3>1. bus \in Seq(Asks) /\ bus # <<>> /\ Head(bus).kind \in {"CancelDownload", "PauseDownload"}
      BY DEF BusCancelOrPause, TypeOK, TypeQueues
    <3>2. Stopping(k) # {}
      BY <3>1, FoundTail DEF Stopping
    <3>3. QED
      BY <1>3, <1>4, <3>2 DEF Renewed
  <2>2. row[k] = "none"
    BY <1>1, <1>5, <2>1 DEF BusWorker, BusStartDownload, BusCancelOrPause,
       BusPeerDownloadConnect, BusOutcome, BusDownloadQueuePosition, SetRow, ui
  <2>3. QED
    BY <1>2, <1>3, <1>4, <2>2
<1>6. CASE ~ BusWorker
  BY <1>2, <1>3, <1>4, <1>6, RowsByBus
<1>7. QED
  BY <1>5, <1>6

LEMMA WantedWhen ==
  ASSUME TypeOK, [Next]_vars, NEW k \in Files, wanted[k] = 0, Trying(k) = {}
  PROVE  wanted'[k] = 0 /\ ~ OnPlaceInQueueResponse(k)
<1>1. dialing[k] = 0
  <2>1. PICK d \in Nat, w \in Nat : d = dialing[k] /\ w = writing[k]
    BY DEF TypeOK, TypeAttempt
  <2>2. 1 .. d + w = {} => d + w = 0
    BY TryingCounts
  <2>3. d + w = 0
    BY <2>1, <2>2 DEF Trying
  <2>4. QED
    BY <2>1, <2>3
<1>2. wanted \in [Files -> Nat]
  BY DEF TypeOK, TypeAttempt
<1>3. User \/ BusWorker \/ Server \/ CommandLoop \/ UNCHANGED vars => wanted' = wanted
  BY DEF User, ClickDownload, ClickCancel, ClickPause, Click, BusWorker, BusStartDownload,
     BusCancelOrPause, BusPeerDownloadConnect, BusOutcome, BusDownloadQueuePosition, Server,
     GetPeerAddress, NetConnClosed, LoginResponse, CommandLoop, CmdDownload, CmdCancelDownload,
     CmdQueuePosition, vars, remote
<1>4. ASSUME NEW j \in Files, Attempt(j) \/ FromUploader(j)
      PROVE  wanted'[k] = 0
  <2>1. CASE j # k
    BY <1>2, <1>4, <2>1 DEF Attempt, FromUploader, DialFails, SendQueueUpload, QueueingFails,
       RecordPending, OnRefused, OnPlaceInQueueResponse, remote
  <2>2. CASE j = k
    BY <1>1, <1>2, <1>4, <2>2 DEF Attempt, FromUploader, DialFails, SendQueueUpload,
       QueueingFails, RecordPending, OnRefused, OnPlaceInQueueResponse, remote
  <2>3. QED
    BY <2>1, <2>2
<1>5. ASSUME NEW j \in Files, NEW tok \in Tokens, FromUploaderUnder(j, tok) \/ Stream(j, tok)
      PROVE  wanted'[k] = 0
  <2>1. \/ wanted' = wanted
        \/ wanted[j] > 0 /\ wanted' = [wanted EXCEPT ![j] = @ - 1]
    BY <1>5 DEF FromUploaderUnder, OnTransferRequestUpload, RecvFile, Stream, OpenPartial,
       Receive, StreamFails, StreamDone, remote
  <2>2. QED
    BY <1>2, <2>1
<1>6. ~ OnPlaceInQueueResponse(k)
  BY DEF OnPlaceInQueueResponse
<1>7. QED
  BY <1>3, <1>4, <1>5, <1>6 DEF Next

LEMMA PlacesOnBus ==
  ASSUME TypeOK, [Next]_vars, NEW k \in Files, Found(cmds, k, {"QueuePosition"}) = {},
         Found(bus, k, {"DownloadQueuePosition"}) = {}
  PROVE  Found(bus', k, {"DownloadQueuePosition"}) = {}
<1> PICK K : K = {"DownloadQueuePosition"}
  OBVIOUS
<1>0. Found(bus, k, K) = {}
  OBVIOUS
<1>1. bus \in Seq(Asks) /\ cmds \in Seq(Orders)
  BY DEF TypeOK, TypeQueues
<1>2. bus # <<>> => Tail(bus) \in Seq(Asks) /\ Found(Tail(bus), k, K) = {}
  <2> SUFFICES ASSUME bus # <<>>
               PROVE  Tail(bus) \in Seq(Asks) /\ Found(Tail(bus), k, K) = {}
    OBVIOUS
  <2>1. Fewer(Found(bus, k, K), Found(Tail(bus), k, K))
    BY <1>1, FoundTail
  <2>2. Tail(bus) \in Seq(Asks)
    BY HeadOfBus
  <2>3. QED
    BY <1>0, <2>1, <2>2 DEF Fewer
<1>3. ASSUME NEW b \in Seq(Asks), Found(b, k, K) = {}, NEW m, bus' = Append(b, m),
             m.file # k \/ m.kind # "DownloadQueuePosition"
      PROVE  Found(bus', k, K) = {}
  BY <1>3, FoundAppend
<1>4. CASE User
  <2>1. PICK m : bus' = Append(bus, m) /\ m.kind # "DownloadQueuePosition"
    BY <1>4, MessageFields DEF User, ClickDownload, ClickCancel, ClickPause, Click
  <2>2. QED
    BY <1>0, <1>1, <1>3, <2>1
<1>5. CASE BusWorker
  <2>1. /\ bus # <<>>
        /\ bus' = Tail(bus) \/ bus' = Append(Tail(bus), Msg("DownloadFailed", Head(bus).file))
    BY <1>5 DEF BusWorker, BusStartDownload, BusCancelOrPause, BusPeerDownloadConnect, BusOutcome,
       BusDownloadQueuePosition, Handled
  <2>2. CASE bus' = Tail(bus)
    BY <1>2, <2>1, <2>2
  <2>3. CASE bus' = Append(Tail(bus), Msg("DownloadFailed", Head(bus).file))
    <3>1. PICK m : bus' = Append(Tail(bus), m) /\ m.kind # "DownloadQueuePosition"
      BY <2>3, MessageFields
    <3>2. QED
      BY <1>2, <1>3, <2>1, <3>1
  <2>4. QED
    BY <2>1, <2>2, <2>3
<1>6. ASSUME NEW p \in Uploaders, NEW online \in BOOLEAN, GetPeerAddress(p, online)
      PROVE  Found(bus', k, K) = {}
  <2> PICK q \in Seq(Files) : q = pending_downloads[p]
    BY DEF TypeOK, TypeSession
  <2> PICK kind \in {"PeerDownloadConnect", "DownloadFailed"} :
        kind = IF online THEN "PeerDownloadConnect" ELSE "DownloadFailed"
    OBVIOUS
  <2> PICK ms : ms = [i \in DOMAIN q |-> Msg(kind, q[i])]
    OBVIOUS
  <2>1. bus' = bus \o ms
    BY <1>6 DEF GetPeerAddress
  <2>2. ms \in Seq(Asks)
    <3>1. \A i \in DOMAIN q : Msg(kind, q[i]) \in Asks
      BY MessagesTyped, ElementOfSeq, LenProperties DEF BusKinds
    <3>2. QED
      BY <3>1
  <2>3. Found(ms, k, K) = {}
    <3>1. DOMAIN ms = DOMAIN q /\ \A i \in DOMAIN q : ms[i].kind = kind
      BY MessageFields
    <3>2. QED
      BY <3>1 DEF Found
  <2>4. Found(bus \o ms, k, K) = Found(bus, k, K)
    BY <1>1, <2>2, <2>3, FoundJoined
  <2>5. QED
    BY <1>0, <2>1, <2>4
<1>7. CASE CmdQueuePosition
  <2>1. Head(cmds).file # k
    <3>1. cmds # <<>> /\ Head(cmds).kind = "QueuePosition"
      BY <1>7 DEF CmdQueuePosition, NextCmd
    <3> PICK J : J = {"QueuePosition"}
      OBVIOUS
    <3>2. Head(cmds).kind \in J /\ Found(cmds, k, J) = {}
      BY <3>1
    <3> PICK r : r = Tail(cmds)
      OBVIOUS
    <3>3. cmds \in Seq(Orders) /\ cmds # <<>>
      BY <1>1, <3>1
    <3>4. 1 \in Found(cmds, k, J) <=> Head(cmds).file = k /\ Head(cmds).kind \in J
      BY <3>3, FoundShifts
    <3>5. QED
      BY <3>2, <3>4
  <2>2. PICK m : bus' = Append(bus, m) /\ m.file # k
    BY <1>7, <2>1, MessageFields DEF CmdQueuePosition
  <2>3. QED
    BY <1>0, <1>1, <1>3, <2>2
<1>8. NetConnClosed \/ LoginResponse \/ CmdDownload \/ CmdCancelDownload \/ UNCHANGED vars =>
        bus' = bus
  BY DEF NetConnClosed, LoginResponse, CmdDownload, CmdCancelDownload, vars
<1>9. ASSUME NEW j \in Files, Attempt(j) \/ FromUploader(j)
      PROVE  Found(bus', k, K) = {}
  <2>1. bus' = bus \/ bus' = Append(bus, Msg("DownloadFailed", j))
    BY <1>9 DEF Attempt, FromUploader, DialFails, SendQueueUpload, QueueingFails, RecordPending,
       OnRefused, OnPlaceInQueueResponse
  <2>2. bus' = bus \/ \E m : bus' = Append(bus, m) /\ m.kind # "DownloadQueuePosition"
    BY <2>1, MessageFields
  <2>3. QED
    BY <1>0, <1>1, <1>3, <2>2
<1>10. ASSUME NEW j \in Files, NEW tok \in Tokens, FromUploaderUnder(j, tok) \/ Stream(j, tok)
       PROVE  Found(bus', k, K) = {}
  <2>1. \/ bus' = bus \/ bus' = Append(bus, Msg("DownloadFailed", j))
        \/ bus' = Append(bus, Msg("DownloadComplete", j))
    BY <1>10 DEF FromUploaderUnder, OnTransferRequestUpload, RecvFile, Stream, OpenPartial,
       Receive, StreamFails, StreamDone
  <2>2. bus' = bus \/ \E m : bus' = Append(bus, m) /\ m.kind # "DownloadQueuePosition"
    BY <2>1, MessageFields
  <2>3. QED
    BY <1>0, <1>1, <1>3, <2>2
<1>11. QED
  BY <1>0, <1>4, <1>5, <1>6, <1>7, <1>8, <1>9, <1>10 DEF Next, Server, CommandLoop

LEMMA UnplacedStep ==
  ASSUME TypeOK, Filed, Renewed, Unplaced, [Next]_vars
  PROVE  Unplaced'
<1> SUFFICES ASSUME NEW k \in Files, row'[k] = "none", k \notin removed', Asked(k)' = {}
             PROVE  /\ \A w \in Spots : Place(k)'[w] = {}
                    /\ wanted'[k] = 0 /\ Positions(k)' = {}
  BY DEF Unplaced
<1>1. row[k] = "none" /\ k \notin removed /\ Asked(k) = {} /\ ~ ClickDownload(k)
  BY NoneWhen
<1>2. /\ wanted[k] = 0 /\ Found(cmds, k, {"QueuePosition"}) = {}
      /\ Found(bus, k, {"DownloadQueuePosition"}) = {}
      /\ \A w \in Spots : Place(k)[w] = {}
  BY <1>1 DEF Unplaced, Positions
<1>3. Trying(k) = {}
  <2>1. "trying" \in Spots /\ Place(k)["trying"] = Trying(k)
    BY DEF Spots, Place
  <2>2. QED
    BY <1>2, <2>1
<1>0. \A w \in Spots : Place(k)'[w] = {}
  <2> PICK P, Q : P = Place(k) /\ Q = Place(k)'
    OBVIOUS
  <2>1. \A w : \A v \in Spots : ~ Moves(P, Q, v, w)
    BY <1>2 DEF Moves
  <2>2. (\A r \in Routes : r[1] \in Spots) /\ "asked" \in Spots
    BY DEF Routes, Spots
  <2>3. Shrinks(P, Q, {})
    BY <1>1, <2>1, <2>2, EveryJourney DEF Journey, Started
  <2>4. QED
    BY <1>2, <2>3 DEF Shrinks, Fewer
<1>4. wanted'[k] = 0 /\ ~ OnPlaceInQueueResponse(k)
  BY <1>2, <1>3, WantedWhen
<1>5. Found(bus', k, {"DownloadQueuePosition"}) = {}
  BY <1>2, PlacesOnBus
<1>6. Found(cmds', k, {"QueuePosition"}) = {}
  <2> PICK K : K = {"QueuePosition"}
    OBVIOUS
  <2>1. Found(cmds, k, K) = {} /\ "CancelDownload" \notin K /\ "Download" \notin K
    BY <1>2
  <2>2. ASSUME NEW i \in Found(cmds', k, K)
        PROVE  FALSE
    BY <1>4, <2>1, CmdsFound
  <2>3. QED
    BY <2>2
<1>7. QED
  BY <1>0, <1>4, <1>5, <1>6 DEF Positions

LEMMA HeadFound ==
  ASSUME TypeOK, cmds # <<>>
  PROVE  /\ Head(cmds).kind = "CancelDownload" => 1 \in Cancels(Head(cmds).file)
         /\ Head(cmds).kind = "Download" => 1 \in Ordered(Head(cmds).file)
<1>1. cmds \in Seq(Orders)
  BY DEF TypeOK, TypeQueues
<1> PICK r : r = Tail(cmds)
  OBVIOUS
<1> PICK k : k = Head(cmds).file
  OBVIOUS
<1>2. \A K : Head(cmds).kind \in K => 1 \in Found(cmds, k, K)
  BY <1>1, FoundShifts
<1>3. /\ Head(cmds).kind = "CancelDownload" => 1 \in Found(cmds, k, {"CancelDownload"})
      /\ Head(cmds).kind = "Download" => 1 \in Found(cmds, k, {"Download"})
  BY <1>2
<1>4. QED
  BY <1>3 DEF Cancels, Ordered

\* How a row comes to be active.
LEMMA ActiveWhen ==
  ASSUME TypeOK, Unplaced, [Next]_vars, NEW k \in Files, row'[k] = "active", k \notin removed,
         ~ (BusStartDownload /\ Head(bus).file = k)
  PROVE  /\ row[k] = "active" \/ Asked(k) # {}
         /\ ~ (BusCancelOrPause /\ Head(bus).file = k)
<1>1. row \in [Files -> Rows]
  BY DEF TypeOK, TypeUI
<1>2. ~ (BusCancelOrPause /\ Head(bus).file = k)
  BY <1>1 DEF BusCancelOrPause, SetRow
<1>3. CASE row[k] # "active"
  <2>1. BusWorker
    BY <1>3, RowsByBus
  <2>2. BusDownloadQueuePosition /\ Head(bus).file = k /\ row[k] = "none"
    BY <1>1, <1>3, <2>1 DEF BusWorker, BusStartDownload, BusCancelOrPause, BusPeerDownloadConnect,
       BusOutcome, BusDownloadQueuePosition, SetRow, ui
  <2> PICK K : K = {"DownloadQueuePosition"}
    OBVIOUS
  <2> PICK b : b = Tail(bus)
    OBVIOUS
  <2>3. bus \in Seq(Asks) /\ bus # <<>> /\ Head(bus).kind \in K
    BY <2>2 DEF TypeOK, TypeQueues, BusDownloadQueuePosition, Handled
  <2>4. 1 \in Found(bus, k, K)
    BY <2>2, <2>3, FoundShifts
  <2>5. Positions(k) # {}
    BY <2>4 DEF Positions
  <2>6. QED
    BY <1>2, <2>2, <2>5 DEF Unplaced
<1>4. QED
  BY <1>2, <1>3

LEMMA OverruledStep ==
  ASSUME TypeOK, Filed, Unplaced, Overruled, [Next]_vars
  PROVE  Overruled'
<1> SUFFICES ASSUME NEW k \in Files, k \notin removed', row'[k] = "active", NEW i \in Cancels(k)'
             PROVE  Early(k)' \/ \E j \in Ordered(k)' : j > i
  BY DEF Overruled
<1>1. CASE ClickDownload(k)
  BY <1>1, KeptByUser DEF User, Early
<1>2. CASE BusStartDownload /\ Head(bus).file = k
  BY <1>2, KeptByBus DEF BusWorker
<1> PICK C, D : C = {"CancelDownload"} /\ D = {"Download"}
  OBVIOUS
<1>3. /\ cmds \in Seq(Orders) /\ Len(cmds) \in Nat /\ DOMAIN cmds = 1 .. Len(cmds)
      /\ Cancels(k) = Found(cmds, k, C) /\ Cancels(k)' = Found(cmds', k, C)
      /\ Ordered(k) = Found(cmds, k, D) /\ Ordered(k)' = Found(cmds', k, D)
  BY LenProperties DEF TypeOK, TypeQueues, Cancels, Ordered
<1>4. CASE BusPeerDownloadConnect /\ Head(bus).file = k
  <2>1. PICK m : cmds' = Append(cmds, m) /\ m.file = k /\ m.kind = "Download"
    BY <1>4, MessageFields DEF BusPeerDownloadConnect
  <2>2. i \in 1 .. Len(cmds)
    <3>1. i \in Found(cmds, k, C)
      BY <1>3, <2>1, FoundAppend
    <3>2. QED
      BY <1>3, <3>1 DEF Found
  <2>3. Len(cmds) + 1 \in Ordered(k)'
    BY <1>3, <2>1, AppendProperties, LenProperties DEF Found
  <2>4. QED
    BY <1>3, <2>2, <2>3
<1>5. CASE /\ ~ ClickDownload(k) /\ ~ (BusStartDownload /\ Head(bus).file = k)
           /\ ~ (BusPeerDownloadConnect /\ Head(bus).file = k)
  <2>1. k \notin removed
    BY <1>5, RemovedStays
  <2>2. (row[k] = "active" \/ Early(k)) /\ ~ (BusCancelOrPause /\ Head(bus).file = k)
    BY <1>5, <2>1, ActiveWhen DEF Early
  <2>3. CASE Early(k)
    BY <1>5, <2>3, EarlyStays
  <2>4. CASE row[k] = "active" /\ ~ Early(k)
    <3>1. \A n \in Cancels(k) : \E j \in Ordered(k) : j > n
      BY <2>1, <2>4 DEF Overruled
    <3>2. /\ i \in Nat \ {0}
          /\ \/ cmds' = cmds /\ i \in Cancels(k)
             \/ cmds # <<>> /\ cmds' = Tail(cmds) /\ i + 1 \in Cancels(k)
             \/ (\E m : cmds' = Append(cmds, m)) /\ i \in Cancels(k)
      <4>1. "Download" \notin C /\ "QueuePosition" \notin C
        OBVIOUS
      <4>2. QED
        BY <1>3, <2>2, <4>1, CmdsFound
    <3>3. CASE cmds' = cmds /\ i \in Cancels(k)
      BY <1>3, <3>1, <3>3
    <3>4. CASE cmds # <<>> /\ cmds' = Tail(cmds) /\ i + 1 \in Cancels(k)
      <4>1. PICK j \in Ordered(k) : j > i + 1 /\ j \in Nat
        BY <1>3, <3>1, <3>4 DEF Found
      <4>2. PICK n \in Nat \ {0} : n + 1 = j /\ n > i
        <5>1. j - 1 \in Nat \ {0} /\ (j - 1) + 1 = j /\ j - 1 > i
          BY <3>2, <4>1
        <5>2. QED
          BY <5>1
      <4>3. n \in Ordered(k)'
        <5>1. \A v \in Nat \ {0} : v \in Found(cmds', k, D) <=> v + 1 \in Found(cmds, k, D)
          BY <3>4, CmdsSlide
        <5>2. QED
          BY <1>3, <4>2, <5>1
      <4>4. QED
        BY <4>2, <4>3
    <3>5. CASE (\E m : cmds' = Append(cmds, m)) /\ i \in Cancels(k)
      <4>1. Ordered(k) \subseteq Ordered(k)'
        BY <3>5, AppendKeeps
      <4>2. QED
        BY <3>1, <3>5, <4>1
    <3>6. QED
      BY <3>2, <3>3, <3>4, <3>5
  <2>5. QED
    BY <2>2, <2>3, <2>4
<1>6. QED
  BY <1>1, <1>2, <1>4, <1>5

LEMMA TrackedStep ==
  ASSUME TypeOK, Filed, Spent, DistinctTokens, Unplaced, Overruled, Tracked, [Next]_vars
  PROVE  Tracked'
<1> SUFFICES ASSUME NEW k \in Files, row'[k] = "active", k \notin removed'
             PROVE  Somewhere(Place(k)')
  BY DEF Tracked, Somewhere
<1>1. CASE ClickDownload(k)
  BY <1>1, KeptByUser DEF User
<1>2. CASE BusStartDownload /\ Head(bus).file = k
  BY <1>2, KeptByBus DEF BusWorker
<1>3. CASE ~ ClickDownload(k) /\ ~ (BusStartDownload /\ Head(bus).file = k)
  <2>1. k \notin removed
    BY <1>3, RemovedStays
  <2>2. Somewhere(Place(k))
    <3>1. row[k] = "active" \/ Asked(k) # {}
      BY <1>3, <2>1, ActiveWhen
    <3>2. QED
      BY <2>1, <3>1, SomewhereMeans DEF Tracked
  <2>3. ASSUME CmdCancelDownload, Head(cmds).file = k
        PROVE  Somewhere(Place(k)')
    <3>1. /\ cmds \in Seq(Orders) /\ cmds # <<>> /\ cmds' = Tail(cmds) /\ bus' = bus
          /\ pending_downloads' = pending_downloads /\ row' = row
      BY <2>3 DEF CmdCancelDownload, NextCmd, session, ui, TypeOK, TypeQueues
    <3>2. Early(k) \/ \E j \in Ordered(k) : j > 1
      <4>1. 1 \in Cancels(k)
        BY <2>3, HeadFound DEF CmdCancelDownload, NextCmd
      <4>2. row[k] = "active"
        BY <3>1
      <4>3. QED
        BY <2>1, <4>1, <4>2 DEF Overruled
    <3>3. CASE Early(k)
      <4>1. /\ Asked(k)' = Asked(k) /\ Waiting(k)' = Waiting(k)
            /\ Connecting(k)' = Connecting(k) /\ Told(k)' = Told(k)
        BY <3>1, StaysPut
      <4>2. QED
        BY <3>3, <4>1, SomewhereMeans DEF Early
    <3>4. ASSUME NEW j \in Ordered(k), j > 1
          PROVE  Somewhere(Place(k)')
      <4> PICK D : D = {"Download"}
        OBVIOUS
      <4>1. Ordered(k) = Found(cmds, k, D) /\ Ordered(k)' = Found(cmds', k, D)
        BY DEF Ordered
      <4>2. j \in Nat
        BY <3>1, <4>1, LenProperties DEF Found
      <4>3. PICK n \in Nat \ {0} : n + 1 = j
        <5>1. j - 1 \in Nat \ {0} /\ (j - 1) + 1 = j
          BY <3>4, <4>2
        <5>2. QED
          BY <5>1
      <4>4. n \in Ordered(k)'
        <5>1. \A v \in Nat \ {0} : v \in Found(cmds', k, D) <=> v + 1 \in Found(cmds, k, D)
          BY <3>1, CmdsSlide
        <5>2. QED
          BY <4>1, <4>3, <5>1
      <4>5. QED
        BY <4>4, SomewhereMeans
    <3>5. QED
      BY <3>2, <3>3, <3>4
  <2>4. QED
    BY <2>2, <2>3, NothingIsLost
<1>4. QED
  BY <1>1, <1>2, <1>3

\* What is somewhere is where the property looks for it.
LEMMA TrackedMeans ==
  ASSUME TypeOK, Tracked, AskedFor
  PROVE  ActiveIsTracked
<1> SUFFICES ASSUME NEW k \in Files, drops = 0, row[k] = "active", k \notin removed
             PROVE  \/ /\ OnItsWay(k)
                       /\ k \in Range(pending_downloads[UploaderOf[k]]) => asked[UploaderOf[k]] > 0
                    \/ k \in pending \cup Range(by_token)
                    \/ \E s \in DOMAIN streams : s[1] = k
                    \/ \E kind \in {"DownloadComplete", "DownloadFailed"} :
                         Msg(kind, k) \in Range(bus)
  BY DEF ActiveIsTracked
<1>1. Somewhere(Place(k))
  BY DEF Tracked
<1>2. k \in Range(pending_downloads[UploaderOf[k]]) => asked[UploaderOf[k]] > 0
  <2> PICK p \in Uploaders : p = UploaderOf[k]
    BY DownloadsAssumption
  <2>1. k \in Range(pending_downloads[p]) => pending_downloads[p] # <<>>
    BY DEF Range
  <2>2. QED
    BY <2>1 DEF AskedFor
<1>3. bus \in Seq(Asks) /\ cmds \in Seq(Orders)
  BY DEF TypeOK, TypeQueues
<1>4. \A i \in DOMAIN bus : bus[i].file = k => Msg(bus[i].kind, k) \in Range(bus)
  <2>1. \A i \in DOMAIN bus : bus[i] = Msg(bus[i].kind, bus[i].file)
    BY <1>3, AsksAndOrders, ElementOfSeq, LenProperties
  <2>2. QED
    BY <2>1, RangeFound
<1>5. \A i \in DOMAIN cmds : cmds[i].file = k => Msg(cmds[i].kind, k) \in Range(cmds)
  <2>1. \A i \in DOMAIN cmds : cmds[i] = Msg(cmds[i].kind, cmds[i].file)
    BY <1>3, AsksAndOrders, ElementOfSeq, LenProperties
  <2>2. QED
    BY <2>1, RangeFound
<1>6. Asked(k) # {} \/ Connecting(k) # {} => OnItsWay(k)
  BY <1>4 DEF Asked, Connecting, Found, OnItsWay
<1>7. Ordered(k) # {} => OnItsWay(k)
  BY <1>5 DEF Ordered, Found, OnItsWay
<1>8. Waiting(k) # {} => OnItsWay(k)
  BY DEF Waiting, Indices, OnItsWay, Range
<1>9. Trying(k) # {} => OnItsWay(k)
  <2>1. PICK d \in Nat, w \in Nat : d = dialing[k] /\ w = writing[k]
    BY DEF TypeOK, TypeAttempt
  <2>2. 1 .. d + w # {} => d + w > 0
    OBVIOUS
  <2>3. QED
    BY <2>1, <2>2 DEF Trying, OnItsWay
<1>10. Told(k) # {} => \E kind \in {"DownloadComplete", "DownloadFailed"} :
                         Msg(kind, k) \in Range(bus)
  BY <1>4 DEF Told, Found
<1>11. /\ Held(k) # {} \/ TokensOf(k) # {} => k \in pending \cup Range(by_token)
       /\ StreamsOf(k) # {} => \E s \in DOMAIN streams : s[1] = k
  BY DEF Held, TokensOf, StreamsOf, Range
<1>12. QED
  BY <1>1, <1>2, <1>6, <1>7, <1>8, <1>9, <1>10, <1>11, SomewhereMeans

Kept ==
  TypeOK /\ Filed /\ Renewed /\ Spent /\ AskedFor /\ Unplaced /\ Overruled /\ Tracked

LEMMA KeptInit == Init => Kept
<1> SUFFICES ASSUME Init
             PROVE  Kept
  OBVIOUS
<1>1. bus = <<>> /\ cmds = <<>>
  BY DEF Init
<1>2. TypeOK /\ Filed /\ \A k \in Files, w \in Spots : Place(k)[w] = {}
  BY RouteInit, NothingAsked DEF Route
<1>3. Renewed /\ Unplaced /\ Overruled
  BY <1>1, <1>2 DEF Init, Renewed, Unplaced, Overruled, Positions, Cancels, Stopping, Found
<1>4. Spent /\ AskedFor /\ Tracked
  BY DEF Init, Spent, AskedFor, Tracked
<1>5. QED
  BY <1>2, <1>3, <1>4 DEF Kept

LEMMA KeptStep ==
  ASSUME DistinctTokens, Kept, [Next]_vars
  PROVE  Kept'
<1>1. TypeOK' /\ Filed'
  BY TypeStep, FiledStep DEF Kept
<1>2. Renewed' /\ Spent' /\ AskedFor'
  BY RenewedStep, SpentStep, AskedForStep DEF Kept
<1>3. Unplaced' /\ Overruled'
  BY UnplacedStep, OverruledStep DEF Kept
<1>4. Tracked'
  BY TrackedStep DEF Kept
<1>5. QED
  BY <1>1, <1>2, <1>3, <1>4 DEF Kept

\* Whatever the user clicks and however often, as long as no two uploaders use one
\* token, an active row that was not paused or cancelled since its last click has a
\* request somewhere in the client until the server link drops: every failure and
\* every refusal on the way is reported, and a late cancel leaves a later request.
THEOREM ActiveRowsAreTracked ==
  ASSUME DistinctTokens
  PROVE  Spec => []ActiveIsTracked
<1>1. Kept /\ [Next]_vars => Kept'
  BY KeptStep
<1>2. Kept => ActiveIsTracked
  BY TrackedMeans DEF Kept
<1>3. QED
  BY <1>1, <1>2, KeptInit, PTL DEF Spec

=============================================================================
