----------------------------- MODULE ConfigStore -----------------------------
(* The configuration: the file and the ConfigStore component that owns it     *)
(* (config.rs), the copy the api server merges from, and the two callers that *)
(* change it: the SetConfig call of a client and the callback of a Spotify    *)
(* login (api_server.rs).                                                     *)
(*                                                                            *)
(* Calls run on the threads of the api runtime.  Each reads the api server's  *)
(* copy at one moment, sends a whole configuration later and waits for the    *)
(* answer.  The core worker takes the messages of the bus one at a time, in   *)
(* order; a save it carries out is several file operations, and the process   *)
(* may die between any two of them.                                           *)
EXTENDS Naturals, Sequences

CONSTANTS
    Calls,         \* SetConfig calls and login callbacks, each made once
    Secrets,       \* what the server password and the client secret may be
    Settings,      \* the settings that are not secret
    Refused,       \* the settings ConfigStore::validate turns down
    Default,       \* the settings of a configuration that was never saved
    Empty,         \* an empty secret, and the absence of a refresh token
    Torn,          \* the content of a file whose writing was cut short
    Missing,       \* a file that does not exist
    MaxLogins,     \* bound: logins started in one life of the process
    MaxCrashes     \* bound: deaths of the process

ASSUME ConfigAssumption ==
    /\ Refused \subseteq Settings
    /\ Default \in Settings \ Refused
    /\ Empty \notin Secrets \cup Calls
    /\ MaxLogins \in Nat /\ MaxCrashes \in Nat

(* The token Spotify hands out in a callback is named for the call.           *)
Config == [secret : Secrets \cup {Empty}, token : Calls \cup {Empty},
           rest : Settings]

DefaultConfig == [secret |-> Empty, token |-> Empty, rest |-> Default]

VARIABLES
    disk,       \* the config file, its backup (.old) and its temporary (.tmp)
    store,      \* ConfigStore.current
    saving,     \* where the core worker is in save_config, or "idle"
    shared,     \* Shared.current, the api server's copy
    calls,      \* what each call is doing, and the configuration it carries
    cmds,       \* commands of the api server not forwarded yet
    bus,        \* messages to the core worker, in bus order
    nonce,      \* Shared.oauth_state: the login expected back, 0 for None
    logins,     \* logins started since the process started
    landed,     \* history: the calls whose configuration became the file
    crashes     \* deaths so far

vars == <<disk, store, saving, shared, calls, cmds, bus, nonce, logins, landed,
          crashes>>

NoCall == [kind |-> "none", pc |-> "new", cfg |-> DefaultConfig]

(* load_config: a file that is missing or unreadable gives the defaults.      *)
Load(file) == IF file \in Config THEN file ELSE DefaultConfig

(* A first start, or a start over a configuration saved before.               *)
Init ==
    /\ \E first \in {Missing} \cup [secret : Secrets, token : {Empty},
                                    rest : {Default}] :
          /\ disk = [main |-> first, backup |-> Missing, tmp |-> Missing]
          /\ store = Load(first)
          /\ shared = Load(first)
    /\ saving = "idle"
    /\ calls = [c \in Calls |-> NoCall]
    /\ cmds = <<>> /\ bus = <<>>
    /\ nonce = 0 /\ logins = 0
    /\ landed = {} /\ crashes = 0

-----------------------------------------------------------------------------
(* The calls.                                                                 *)

(* A secret left empty means keep the stored one; the refresh token never     *)
(* travels to the client and is always taken from the stored configuration.   *)
Merge(typed, current) ==
    [secret |-> IF typed.secret = Empty THEN current.secret
                                            ELSE typed.secret,
     token |-> current.token,
     rest |-> typed.rest]

(* set_config: the client's form is merged with the copy held at this moment. *)
SetConfig(c) ==
    /\ calls[c].pc = "new"
    /\ \E typed \in [secret : Secrets \cup {Empty}, token : {Empty},
                     rest : Settings] :
          calls' = [calls EXCEPT ![c] = [kind |-> "save", pc |-> "merged",
                                         cfg |-> Merge(typed, shared)]]
    /\ UNCHANGED <<disk, store, saving, shared, cmds, bus, nonce, logins, landed,
                   crashes>>

(* GET /spotify/login: the newest login replaces the one expected back.       *)
SpotifyLogin ==
    /\ logins < MaxLogins
    /\ logins' = logins + 1
    /\ nonce' = logins + 1
    /\ UNCHANGED <<disk, store, saving, shared, calls, cmds, bus, landed, crashes>>

(* The browser comes back from some login.  The expected state is taken       *)
(* whether or not it matches; on a match, and with a client secret to use,    *)
(* the whole configuration is copied before the code is exchanged.            *)
SpotifyCallback(c, login) ==
    /\ calls[c].pc = "new"
    /\ nonce' = 0
    /\ calls' = [calls EXCEPT ![c] =
                   [kind |-> "callback", cfg |-> shared,
                    pc |-> IF login = nonce /\ shared.secret # Empty
                           THEN "exchanging" ELSE "refused"]]
    /\ UNCHANGED <<disk, store, saving, shared, cmds, bus, logins, landed, crashes>>

(* The exchange, a blocking request to Spotify, succeeds or fails.            *)
Exchange(c) ==
    /\ calls[c].pc = "exchanging"
    /\ \/ calls' = [calls EXCEPT ![c].pc = "merged", ![c].cfg.token = c]
       \/ calls' = [calls EXCEPT ![c].pc = "refused"]
    /\ UNCHANGED <<disk, store, saving, shared, cmds, bus, nonce, logins, landed,
                   crashes>>

(* round_trip: the command is sent and the call waits.                        *)
SendConfig(c) ==
    /\ calls[c].pc = "merged"
    /\ calls' = [calls EXCEPT ![c].pc = "waiting"]
    /\ cmds' = Append(cmds, [call |-> c, cfg |-> calls[c].cfg])
    /\ UNCHANGED <<disk, store, saving, shared, bus, nonce, logins, landed, crashes>>

(* Fifteen seconds pass without an answer.                                    *)
TimeOut(c) ==
    /\ calls[c].pc = "waiting"
    /\ calls' = [calls EXCEPT ![c].pc = "timed out"]
    /\ UNCHANGED <<disk, store, saving, shared, cmds, bus, nonce, logins, landed,
                   crashes>>

(* forward_commands puts the oldest command on the bus.                       *)
Forward ==
    /\ cmds # <<>>
    /\ bus' = Append(bus, [type |-> "SetConfigReq", call |-> Head(cmds).call,
                           cfg |-> Head(cmds).cfg])
    /\ cmds' = Tail(cmds)
    /\ UNCHANGED <<disk, store, saving, shared, calls, nonce, logins, landed, crashes>>

-----------------------------------------------------------------------------
(* The core worker.                                                           *)

Arrived(type) == saving = "idle" /\ bus # <<>> /\ Head(bus).type = type

Changed(cfg) == [type |-> "ConfigChanged", call |-> Empty, cfg |-> cfg]
Result(c, ok) == [type |-> "SetConfigResult", call |-> c, ok |-> ok]

(* The end of Handle<SetConfigReq> when validation or the save failed: the    *)
(* configuration in memory stays, and only the caller hears of it.            *)
Refuse ==
    /\ bus' = Append(Tail(bus), Result(Head(bus).call, FALSE))
    /\ saving' = "idle"
    /\ UNCHANGED <<store, landed>>

(* Faulty: the component keeps the configuration it had.                      *)
AcceptForgetting ==
    /\ landed' = landed \cup {Head(bus).call}
    /\ bus' = Tail(bus) \o <<Changed(Head(bus).cfg), Result(Head(bus).call, TRUE)>>
    /\ saving' = "idle"
    /\ UNCHANGED store

(* The end when the save succeeded: the news goes out before the answer.      *)
Accept ==
    /\ store' = Head(bus).cfg
    /\ landed' = landed \cup {Head(bus).call}
    /\ bus' = Tail(bus) \o <<Changed(store'), Result(Head(bus).call, TRUE)>>
    /\ saving' = "idle"

(* Validation, then save_config, which begins with the copy of the old file   *)
(* when there is one.                                                         *)
BeginSave ==
    /\ Arrived("SetConfigReq")
    /\ IF Head(bus).cfg.rest \in Refused
       THEN Refuse /\ UNCHANGED disk
       ELSE IF disk.main # Missing
       THEN /\ saving' = "copying"
            /\ disk' = [disk EXCEPT !.backup = Torn]
            /\ UNCHANGED <<store, bus, landed>>
       ELSE /\ saving' = "writing"
            /\ disk' = [disk EXCEPT !.tmp = Torn]
            /\ UNCHANGED <<store, bus, landed>>
    /\ UNCHANGED <<shared, calls, cmds, nonce, logins, crashes>>

(* Faulty: the target itself is written.                                      *)
BackUpThenWriteInPlace ==
    /\ saving = "copying"
    /\ saving' = "writing"
    /\ disk' = [disk EXCEPT !.backup = disk.main, !.main = Torn, !.tmp = Torn]
    /\ UNCHANGED <<store, shared, calls, cmds, bus, nonce, logins, landed, crashes>>

(* The backup is best effort: its failure is ignored.                         *)
BackUp ==
    /\ saving = "copying"
    /\ saving' = "writing"
    /\ \E copied \in {disk.main, Torn} :
          disk' = [disk EXCEPT !.backup = copied, !.tmp = Torn]
    /\ UNCHANGED <<store, shared, calls, cmds, bus, nonce, logins, landed, crashes>>

WriteTmp ==
    /\ saving = "writing"
    /\ \/ /\ disk' = [disk EXCEPT !.tmp = Head(bus).cfg]
          /\ saving' = "renaming"
          /\ UNCHANGED <<store, bus, landed>>
       \/ Refuse /\ UNCHANGED disk
    /\ UNCHANGED <<shared, calls, cmds, nonce, logins, crashes>>

(* Faulty: the outcome of the rename is not looked at.                        *)
RenameUnchecked ==
    /\ saving = "renaming"
    /\ \/ Accept /\ disk' = [disk EXCEPT !.main = disk.tmp, !.tmp = Missing]
       \/ /\ bus' = Append(Tail(bus), Result(Head(bus).call, TRUE))
          /\ saving' = "idle"
          /\ UNCHANGED <<disk, store, landed>>
    /\ UNCHANGED <<shared, calls, cmds, nonce, logins, crashes>>

(* The rename replaces the file in one step, or fails and changes nothing.    *)
Rename ==
    /\ saving = "renaming"
    /\ \/ Accept /\ disk' = [disk EXCEPT !.main = disk.tmp, !.tmp = Missing]
       \/ Refuse /\ UNCHANGED disk
    /\ UNCHANGED <<shared, calls, cmds, nonce, logins, crashes>>

(* The api server is one of the components that hear of a change.             *)
TakeChange ==
    /\ Arrived("ConfigChanged")
    /\ shared' = Head(bus).cfg
    /\ bus' = Tail(bus)
    /\ UNCHANGED <<disk, store, saving, calls, cmds, nonce, logins, landed, crashes>>

(* The answer reaches the call, if it still waits.                            *)
TakeResult ==
    /\ Arrived("SetConfigResult")
    /\ LET c == Head(bus).call IN
         calls' = IF calls[c].pc = "waiting"
                  THEN [calls EXCEPT ![c].pc = IF Head(bus).ok THEN "saved"
                                                               ELSE "failed"]
                  ELSE calls
    /\ bus' = Tail(bus)
    /\ UNCHANGED <<disk, store, saving, shared, cmds, nonce, logins, landed, crashes>>

-----------------------------------------------------------------------------
(* The process dies, at any moment, and starts again: the file is all that    *)
(* survives.  A restart from the user interface does the same to this state.  *)
Crash ==
    /\ crashes < MaxCrashes
    /\ crashes' = crashes + 1
    /\ store' = Load(disk.main)
    /\ shared' = Load(disk.main)
    /\ saving' = "idle"
    /\ calls' = [c \in Calls |->
                   IF calls[c].pc \in {"new", "saved", "failed", "refused"}
                   THEN calls[c] ELSE [calls[c] EXCEPT !.pc = "gone"]]
    /\ cmds' = <<>> /\ bus' = <<>>
    /\ nonce' = 0 /\ logins' = 0
    /\ UNCHANGED <<disk, landed>>

Next ==
    \/ \E c \in Calls : \/ SetConfig(c)
                        \/ \E login \in 1 .. logins : SpotifyCallback(c, login)
                        \/ Exchange(c)
                        \/ SendConfig(c)
                        \/ TimeOut(c)
    \/ SpotifyLogin
    \/ Forward
    \/ BeginSave \/ BackUp \/ WriteTmp \/ Rename
    \/ TakeChange \/ TakeResult
    \/ Crash

Spec == Init /\ [][Next]_vars

-----------------------------------------------------------------------------
(* Properties.                                                                *)

(* Once there is a configuration file there is always a whole one, wherever   *)
(* in a save the process dies: neither the backup nor the temporary may ever  *)
(* stand in for it half written (save_config).                                *)
FileStaysWhole == [][disk.main \in Config => disk'.main \in Config]_disk

(* A caller that is told its configuration was saved finds it was the file,   *)
(* and one that is told it was not knows the file never was it, whichever     *)
(* step of the save failed; after a crash the answer still stands.            *)
AnswerTellsTheDisk ==
    \A c \in Calls : /\ calls[c].pc = "saved" => c \in landed
                     /\ calls[c].pc = "failed" => c \notin landed

(* The component's configuration is the file's, whatever failed, and once the *)
(* news of a change is delivered the api server merges from the same one.     *)
CopiesAgree ==
    /\ disk.main \in {store, Missing}
    /\ (\A i \in DOMAIN bus : bus[i].type # "ConfigChanged") => shared = store

(* A save of a client never changes the refresh token: only the login         *)
(* callback writes it, and a save "always" preserves it (the comment in       *)
(* set_config).  It does not hold: the merge reads a copy that a callback may *)
(* replace before the save is carried out.                                    *)
SavesKeepToken ==
    [][\A c \in landed' \ landed :
          calls[c].kind = "save" => store'.token = store.token]_vars
=============================================================================
