----------------------------- MODULE TransferRows -----------------------------
(* The lists of downloads and uploads that the api server shows               *)
(* (api_server.rs): how transfers going on elsewhere make, change and crowd   *)
(* out rows, what of the downloads is saved and in how many steps, and how a  *)
(* restart puts the list together from the saved history and the disk.        *)
(*                                                                            *)
(* What the transfers themselves do is Downloads and Uploads; here they are   *)
(* attempts that may go on after a cancel or a pause, and end once.           *)
EXTENDS Naturals, Sequences, FiniteSets, FiniteSetsExt, SequencesExt

CONSTANTS
    Keys,          \* files of other users, a user and a path each
    NameOf,        \* the last component of each one's path
    Nested,        \* those that are put into a folder of their list
    MaxRows,       \* MAX_DOWNLOADS
    MaxBus,        \* bound: messages about downloads that wait
    Courses        \* bound: downloads asked for, uploads, deaths of the process

ASSUME RowsAssumption ==
    /\ DOMAIN NameOf = Keys /\ Nested \subseteq Keys
    /\ MaxRows \in Nat \ {0} /\ MaxBus \in Nat \ {0}
    /\ Courses \subseteq [starts : Nat, uploads : Nat, crashes : Nat]

VARIABLES
    rows,       \* downloads
    history,    \* <<content>> of the history file, <<>> if there is none or
                \* its writing was cut short
    writing,    \* <<content>> while the history is written, else <<>>
    files,      \* names of finished files in the download folder itself
    partials,   \* files of which there is an INCOMPLETE- part
    attempts,   \* downloads under way in peer_net
    uploads,    \* upload rows
    streams,    \* uploads under way: how many collected and how many not, by key
    orders,     \* UploadStarted commands to the reactor
    news,       \* messages to the core worker, in bus order
    overtaken,  \* history: uploads whose end overtook their start, by key
    course      \* what may still happen

downloadVars == <<rows, history, writing, files, partials, attempts>>
uploadVars == <<uploads, streams, orders, overtaken>>
rowVars == <<downloadVars, uploadVars, news, course>>

(* The name of a file on the disk: that of its path, and a number other than  *)
(* 0 when there were files of that name already.                              *)
FileName(name, counter) == [name |-> name, counter |-> counter]
Named(key) == FileName(NameOf[key], 0)

(* unique_download_path: the first name that is free.                         *)
UniqueName(name) ==
    FileName(name, Min({n \in 0..Cardinality(files) : FileName(name, n) \notin files}))

(* basename: the name that a row bears.                                       *)
Name(key) == IF key \in Keys THEN Named(key) ELSE key

IsActive(state) == state = "active"

Row(key, state) == [key |-> key, state |-> state]

(* retain, filter: what is left of a list, in its order.                      *)
Kept(list, places) ==
    LET place(n) == CHOOSE i \in places : Cardinality({j \in places : j <= i}) = n
    IN  [n \in 1..Cardinality(places) |-> list[place(n)]]

NoStreams == [k \in Keys |-> [gated |-> 0, collected |-> 0]]

-----------------------------------------------------------------------------
(* Starting: what is saved, then what only the disk knows.                    *)

(* scan_disk_downloads: the rows of the finished files of the download folder *)
(* itself and then of the parts, each in some order, and not too many.        *)
DiskRows ==
    {SubSeq(done \o parts, 1, IF Len(done \o parts) < MaxRows
                              THEN Len(done \o parts) ELSE MaxRows) :
       done \in {[i \in DOMAIN s |-> Row(s[i], "completed")] : s \in SetToSeqs(files)},
       parts \in {[i \in DOMAIN s |-> Row(Named(s[i]), "incomplete")] :
                    s \in SetToSeqs(partials)}}

(* A name that a saved row bears already is not listed again.                 *)
Restored(saved, scanned) ==
    LET seen == {Name(saved[i].key) : i \in DOMAIN saved}
        all == saved \o Kept(scanned, {i \in DOMAIN scanned : scanned[i].key \notin seen})
    IN  SubSeq(all, 1, IF Len(all) < MaxRows THEN Len(all) ELSE MaxRows)

(* load_downloads: a history that cannot be read is empty.                    *)
Saved == IF history = <<>> THEN <<>> ELSE history[1]

RowsInit ==
    /\ history = <<>> /\ writing = <<>> /\ files = {} /\ partials = {}
    /\ rows = <<>> /\ attempts = {}
    /\ uploads = <<>> /\ streams = NoStreams /\ orders = <<>>
    /\ overtaken = [k \in Keys |-> 0]
    /\ news = <<>>
    /\ course \in Courses

-----------------------------------------------------------------------------
(* Download rows.                                                             *)

Comes(type) == writing = <<>> /\ news # <<>> /\ Head(news).type = type

Positions(test(_)) == {i \in DOMAIN rows : test(rows[i])}

(* set_download_state: the row changes, or a new one is made, for which the   *)
(* first row that is not active makes room, or else the first.                *)
WithState(key, state) ==
    LET of == Positions(LAMBDA row : row.key = key)
        grown == Append(rows, Row(key, state))
        idle == {i \in DOMAIN grown : ~ IsActive(grown[i].state)}
    IN  IF of # {} THEN [rows EXCEPT ![Min(of)].state = state]
        ELSE IF Len(grown) <= MaxRows THEN grown
        ELSE RemoveAt(grown, IF idle = {} THEN 1 ELSE Min(idle))

(* save_downloads: the rows that are not active are written over the file.    *)
Save(changed) ==
    /\ history' = <<>>
    /\ writing' = << Kept(changed, {i \in DOMAIN changed : ~ IsActive(changed[i].state)}) >>

WriteEnds ==
    /\ writing # <<>>
    /\ history' = writing
    /\ writing' = <<>>
    /\ UNCHANGED <<rows, files, partials, attempts, uploadVars, news, course>>

StartDownload ==
    /\ Comes("StartDownload")
    /\ rows' = WithState(Head(news).key, "active")
    /\ attempts' = attempts \cup {Head(news).key}
    /\ news' = Tail(news)
    /\ UNCHANGED <<history, writing, files, partials, uploadVars, course>>

(* peer_net forgets the download too, but an attempt that streams goes on.    *)
CancelDownload ==
    /\ Comes("CancelDownload")
    /\ rows' = Kept(rows, {i \in DOMAIN rows : rows[i].key # Head(news).key})
    /\ attempts' \in {attempts, attempts \ {Head(news).key}}
    /\ Save(rows')
    /\ news' = Tail(news)
    /\ UNCHANGED <<files, partials, uploadVars, course>>

PauseDownload ==
    /\ Comes("PauseDownload")
    /\ rows' = WithState(Head(news).key, "paused")
    /\ attempts' \in {attempts, attempts \ {Head(news).key}}
    /\ Save(rows')
    /\ news' = Tail(news)
    /\ UNCHANGED <<files, partials, uploadVars, course>>

(* Faulty: a failure is shown but not saved.                                  *)
OutcomeUnsaved ==
    /\ Comes("Outcome")
    /\ rows' = WithState(Head(news).key, Head(news).state)
    /\ IF Head(news).state = "failed" THEN UNCHANGED <<history, writing>> ELSE Save(rows')
    /\ news' = Tail(news)
    /\ UNCHANGED <<files, partials, attempts, uploadVars, course>>

(* DownloadComplete, DownloadFailed.                                          *)
Outcome ==
    /\ Comes("Outcome")
    /\ rows' = WithState(Head(news).key, Head(news).state)
    /\ Save(rows')
    /\ news' = Tail(news)
    /\ UNCHANGED <<files, partials, attempts, uploadVars, course>>

(* A place in a queue is of interest unless the row shows that it is over.    *)
DownloadQueuePosition ==
    /\ Comes("DownloadQueuePosition")
    /\ rows' = IF \A i \in DOMAIN rows : rows[i].key = Head(news).key
                                         => IsActive(rows[i].state)
               THEN WithState(Head(news).key, "active") ELSE rows
    /\ news' = Tail(news)
    /\ UNCHANGED <<history, writing, files, partials, attempts, uploadVars, course>>

-----------------------------------------------------------------------------
(* What the user and peer_net do with downloads.                              *)

Room == Len(news) < MaxBus

Start(key) ==
    /\ Room
    /\ course.starts > 0
    /\ course' = [course EXCEPT !.starts = @ - 1]
    /\ news' = Append(news, [type |-> "StartDownload", key |-> key])
    /\ UNCHANGED <<downloadVars, uploadVars>>

(* The user cancels or pauses what the list shows.                            *)
Click(type, key) ==
    /\ Room
    /\ \E i \in DOMAIN rows : rows[i].key = key
    /\ \A i \in DOMAIN news : news[i] # [type |-> type, key |-> key]
    /\ news' = Append(news, [type |-> type, key |-> key])
    /\ UNCHANGED <<downloadVars, uploadVars, course>>

Receive(key) ==
    /\ key \in attempts \ partials
    /\ partials' = partials \cup {key}
    /\ UNCHANGED <<rows, history, writing, files, attempts, uploadVars, news, course>>

Queued(key) ==
    /\ Room
    /\ key \in attempts
    /\ \A i \in DOMAIN news : news[i].type # "DownloadQueuePosition"
    /\ news' = Append(news, [type |-> "DownloadQueuePosition", key |-> key])
    /\ UNCHANGED <<downloadVars, uploadVars, course>>

Ended(key, state) ==
    /\ Room
    /\ attempts' = attempts \ {key}
    /\ news' = Append(news, [type |-> "Outcome", key |-> key, state |-> state])
    /\ UNCHANGED <<rows, history, writing, uploadVars, course>>

Fails(key) ==
    /\ key \in attempts
    /\ Ended(key, "failed")
    /\ UNCHANGED <<files, partials>>

(* The part becomes a file of the download folder, or of one inside it, under *)
(* its own name or, when there is one already, a name of its own.             *)
Completes(key) ==
    /\ key \in attempts \cap partials
    /\ Ended(key, "completed")
    /\ partials' = partials \ {key}
    /\ files' = IF key \in Nested THEN files
                ELSE files \cup {UniqueName(NameOf[key])}

-----------------------------------------------------------------------------
(* Upload rows.                                                               *)

Upload(type, key) == [type |-> type, key |-> key]

(* An upload from the slot gate is announced, then streams (pump_uploads).    *)
GatedStarts(key) ==
    /\ course.uploads > 0
    /\ course' = [course EXCEPT !.uploads = @ - 1]
    /\ news' = Append(news, Upload("UploadStarted", key))
    /\ streams' = [streams EXCEPT ![key].gated = @ + 1]
    /\ UNCHANGED <<downloadVars, uploads, orders, overtaken>>

(* One that the downloader collects announces itself by way of the reactor.   *)
CollectedStarts(key) ==
    /\ course.uploads > 0
    /\ course' = [course EXCEPT !.uploads = @ - 1]
    /\ orders' = Append(orders, key)
    /\ streams' = [streams EXCEPT ![key].collected = @ + 1]
    /\ UNCHANGED <<downloadVars, uploads, overtaken, news>>

(* One whose downloader is offline fails without having started.              *)
NeverStarts(key) ==
    /\ course.uploads > 0
    /\ course' = [course EXCEPT !.uploads = @ - 1]
    /\ news' = Append(news, Upload("UploadEnded", key))
    /\ UNCHANGED <<downloadVars, uploadVars>>

ReactorStarts ==
    /\ orders # <<>>
    /\ news' = Append(news, Upload("UploadStarted", Head(orders)))
    /\ orders' = Tail(orders)
    /\ UNCHANGED <<downloadVars, uploads, streams, overtaken, course>>

(* Either kind tells the bus of its end directly.                             *)
StreamEnds(key, kind) ==
    /\ streams[key][kind] > 0
    /\ streams' = [streams EXCEPT ![key][kind] = @ - 1]
    /\ news' = Append(news, Upload("UploadEnded", key))
    /\ overtaken' = [overtaken EXCEPT ![key] =
                       IF kind = "collected" /\ key \in ToSet(orders) THEN @ + 1 ELSE @]
    /\ UNCHANGED <<downloadVars, uploads, orders, course>>

(* The first row makes room.                                                  *)
UploadStarted ==
    /\ Comes("UploadStarted")
    /\ uploads' = Append(IF Len(uploads) >= MaxRows THEN Tail(uploads) ELSE uploads,
                         Row(Head(news).key, "active"))
    /\ news' = Tail(news)
    /\ UNCHANGED <<downloadVars, streams, orders, overtaken, course>>

(* Faulty: any row of the file will do.                                       *)
UploadRowsOfFile(key) == {i \in DOMAIN uploads : uploads[i].key = key}

UploadRows(key) ==
    {i \in DOMAIN uploads : uploads[i].key = key /\ IsActive(uploads[i].state)}

(* UploadComplete, UploadFailed, set_upload_state: the first row of this file *)
(* that is still active, if any.                                              *)
UploadEnded ==
    /\ Comes("UploadEnded")
    /\ LET of == UploadRows(Head(news).key) IN
         uploads' = IF of = {} THEN uploads
                    ELSE [uploads EXCEPT ![Min(of)].state = "ended"]
    /\ news' = Tail(news)
    /\ UNCHANGED <<downloadVars, streams, orders, overtaken, course>>

-----------------------------------------------------------------------------
(* The process dies, in the middle of a save perhaps, and starts again.       *)
Crash ==
    /\ course.crashes > 0
    /\ course' = [course EXCEPT !.crashes = @ - 1]
    /\ \E scanned \in DiskRows : rows' = Restored(Saved, scanned)
    /\ writing' = <<>> /\ attempts' = {} /\ news' = <<>>
    /\ uploads' = <<>> /\ streams' = NoStreams /\ orders' = <<>>
    /\ overtaken' = [k \in Keys |-> 0]
    /\ UNCHANGED <<history, files, partials>>

RowsNext ==
    \/ WriteEnds
    \/ StartDownload \/ CancelDownload \/ PauseDownload
    \/ Outcome \/ DownloadQueuePosition
    \/ UploadStarted \/ UploadEnded
    \/ ReactorStarts
    \/ \E key \in Keys :
          \/ Start(key) \/ Receive(key) \/ Queued(key) \/ Fails(key) \/ Completes(key)
          \/ GatedStarts(key) \/ CollectedStarts(key) \/ NeverStarts(key)
          \/ \E kind \in {"gated", "collected"} : StreamEnds(key, kind)
    \/ \E i \in DOMAIN rows, type \in {"CancelDownload", "PauseDownload"} :
          Click(type, rows[i].key)
    \/ Crash

RowsSpec == RowsInit /\ [][RowsNext]_rowVars

-----------------------------------------------------------------------------
(* Properties.                                                                *)

OnDisk == files \cup {Named(k) : k \in partials}

(* A finished file of the download folder itself: the row's own, or one that  *)
(* the disk was found to hold.                                                *)
Filed(row) == row.state = "completed" /\ row.key \notin Nested

FoundOnDisk(row) ==
    \/ row.key \in OnDisk
    \/ Filed(row) /\ \E file \in files : file.name = NameOf[row.key]

(* The news of this download's end, or of another file of that name, waits.   *)
EndIsNews(row) ==
    \E i \in DOMAIN news :
        news[i].type = "Outcome" /\ row.key \in {news[i].key, Named(news[i].key)}

(* Whatever the list shows as over is found again should the process die at   *)
(* this moment: in the history as it is on the disk, which while it is being  *)
(* written over is none, or else as a file. So a death in the middle of a     *)
(* save takes rows with it, but never that of a finished file of the download *)
(* folder itself; at any other moment nothing is lost but what is still news. *)
FinishedSurvives ==
    \A i \in DOMAIN rows : ~ IsActive(rows[i].state) =>
        \/ rows[i] \in ToSet(Saved)
        \/ FoundOnDisk(rows[i])
        \/ EndIsNews(rows[i])
        \/ writing # <<>> /\ ~ Filed(rows[i])

(* When no upload is under way every upload row has ended, however many of    *)
(* one file there were and whichever rows had to make room; the only ones     *)
(* left active are those whose end overtook their start.                      *)
UploadRowsEnd ==
    (streams = NoStreams /\ orders = <<>> /\ news = <<>>)
       => \A key \in Keys :
             Cardinality({i \in DOMAIN uploads : uploads[i] = Row(key, "active")})
                <= overtaken[key]
=============================================================================
