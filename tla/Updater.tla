-------------------------------- MODULE Updater --------------------------------
(* The self-updater (updater.rs): one check per start of the process, on a    *)
(* thread of its own, that leaves an artifact beside the executable; the      *)
(* handlers that hold it or install it, as the settings of the moment say;    *)
(* and what of all that the api server shows. The process may die anywhere.   *)
EXTENDS Naturals, Sequences, FiniteSets

CONSTANTS
    MaxVersion,    \* bound: versions that are ever released
    MaxBus,        \* bound: messages that wait
    Broken         \* an executable that is not all of a release

ASSUME UpdaterAssumption ==
    /\ MaxVersion \in Nat \ {0} /\ MaxBus \in Nat \ {0}
    /\ Broken \notin Nat

Version == 1..MaxVersion
UpdateSettings == [enabled : BOOLEAN, auto : BOOLEAN]

VARIABLES
    up,          \* the process runs
    running,     \* VERSION of the process
    exe,         \* what the executable on the disk is
    artifacts,   \* .soulrust-update-<v> beside it: "none", "part" or "whole"
    saved,       \* update settings in the configuration file
    settings,    \* auto_apply and update_config
    pending,     \* the update held for the user: none or one
    check,       \* the check thread
    news,        \* messages to the core worker, in bus order
    shown,       \* the status that watch_updater streams
    answer,      \* what the last ApplyUpdate was told
    published    \* version of the latest release

diskVars == <<exe, artifacts, saved>>
procVars == <<up, running, settings, pending, check, news, shown, answer>>
updaterVars == <<diskVars, procVars, published>>

Status(kind, latest) == [kind |-> kind, latest |-> latest]
Told(kind) == [type |-> "Status", status |-> Status(kind, 0)]
ToldOf(kind, latest) == [type |-> "Status", status |-> Status(kind, latest)]

Idle == [at |-> "over", latest |-> 0]

(* new and on_start: a check only when updates are enabled at that moment.    *)
FirstCheck(set) == IF set.enabled THEN [at |-> "asking", latest |-> 0] ELSE Idle
FirstMessages(set) == IF set.enabled THEN <<>> ELSE << Told("skipped") >>

UpdaterInit ==
    /\ exe = 1 /\ artifacts = [v \in Version |-> "none"]
    /\ saved \in UpdateSettings
    /\ up = TRUE /\ running = 1 /\ settings = saved /\ pending = {}
    /\ check = FirstCheck(saved) /\ news = FirstMessages(saved)
    /\ shown = Status("none", 0) /\ answer = "none"
    /\ published \in Version

Boot ==
    /\ ~ up
    /\ up' = TRUE /\ running' = exe
    /\ settings' = saved /\ pending' = {}
    /\ check' = FirstCheck(saved) /\ news' = FirstMessages(saved)
    /\ shown' = Status("none", 0) /\ answer' = "none"
    /\ UNCHANGED <<diskVars, published>>

Publish ==
    /\ published < MaxVersion
    /\ published' = published + 1
    /\ UNCHANGED <<diskVars, procVars>>

-----------------------------------------------------------------------------
(* run_check.                                                                 *)

Sends(messages) == news' = news \o messages

(* Nothing comes of it: the directory is not writable or the release cannot   *)
(* be had, it is not newer, or its tag makes no sense.                        *)
CheckEnds(kind) ==
    /\ up /\ check.at = "asking"
    /\ kind = "up_to_date" => published <= running
    /\ check' = Idle
    /\ Sends(IF kind = "skipped" THEN << Told(kind) >>
                                 ELSE << Told("checking"), Told(kind) >>)
    /\ UNCHANGED <<diskVars, up, running, settings, pending, shown, answer, published>>

(* A newer release, with an asset for this platform or without.               *)
Newer ==
    /\ up /\ check.at = "asking" /\ published > running
    /\ \/ /\ check' = [at |-> "fetching", latest |-> published]
          /\ Sends(<< Told("checking"), Told("available"), Told("downloading") >>)
       \/ /\ check' = Idle
          /\ Sends(<< Told("checking"), Told("available"), Told("failed") >>)
    /\ UNCHANGED <<diskVars, up, running, settings, pending, shown, answer, published>>

(* download creates the file, or empties the one that an earlier try left.    *)
Fetch ==
    /\ up /\ check.at = "fetching"
    /\ artifacts' = [artifacts EXCEPT ![check.latest] = "part"]
    /\ check' = [check EXCEPT !.at = "writing"]
    /\ UNCHANGED <<exe, saved, up, running, settings, pending, news, shown, answer,
                   published>>

FetchFails ==
    /\ up /\ check.at \in {"fetching", "writing"}
    /\ check' = Idle
    /\ Sends(<< Told("failed") >>)
    /\ UNCHANGED <<diskVars, up, running, settings, pending, shown, answer, published>>

Fetched ==
    /\ up /\ check.at = "writing"
    /\ artifacts' = [artifacts EXCEPT ![check.latest] = "whole"]
    /\ Sends(<< [type |-> "UpdateDownloaded", latest |-> check.latest] >>)
    /\ check' = Idle
    /\ UNCHANGED <<exe, saved, up, running, settings, pending, shown, answer, published>>

-----------------------------------------------------------------------------
(* The handlers, on the core worker.                                          *)

Comes(type) == up /\ news # <<>> /\ Head(news).type = type

(* What the message whose turn it is makes the updater install.               *)
ToInstall ==
    IF Comes("UpdateDownloaded") /\ settings.auto THEN {Head(news).latest}
    ELSE IF Comes("ApplyUpdateReq") THEN pending
    ELSE {}

(* self_replace puts a copy of the artifact in the place of the executable    *)
(* with one rename.                                                           *)
Replaced(v) == IF artifacts[v] = "whole" THEN v ELSE Broken

(* apply, and what is told: the artifact goes, or it fails.                   *)
Apply(v, onSuccess, onFailure) ==
    \/ /\ artifacts[v] # "none"
       /\ exe' = Replaced(v)
       /\ artifacts' = [artifacts EXCEPT ![v] = "none"]
       /\ news' = Tail(news) \o << ToldOf("restart_required", v) >> \o onSuccess
    \/ /\ UNCHANGED <<exe, artifacts>>
       /\ news' = Tail(news) \o << Told("failed") >> \o onFailure

Reply(result) == << [type |-> "ApplyUpdateResult", result |-> result] >>

UpdateDownloaded ==
    /\ Comes("UpdateDownloaded")
    /\ IF settings.auto
       THEN \E v \in ToInstall : Apply(v, <<>>, <<>>) /\ UNCHANGED pending
       ELSE /\ pending' = {Head(news).latest}
            /\ news' = Tail(news) \o << ToldOf("ready_to_apply", Head(news).latest) >>
            /\ UNCHANGED <<exe, artifacts>>
    /\ UNCHANGED <<saved, up, running, settings, check, shown, answer, published>>

(* Faulty: the update stays pending when it has been installed.               *)
TakenKept == pending

(* pending.take(): whatever comes of it, it is pending no more.               *)
Taken == {}

ApplyUpdateReq ==
    /\ Comes("ApplyUpdateReq")
    /\ IF pending = {}
       THEN /\ news' = Tail(news) \o Reply("error")
            /\ UNCHANGED <<exe, artifacts>>
       ELSE \E v \in pending : Apply(v, Reply("ok"), Reply("error"))
    /\ pending' = Taken
    /\ UNCHANGED <<saved, up, running, settings, check, shown, answer, published>>

(* Settings change at once; a check that is over is not made again.           *)
ConfigChanged ==
    /\ Comes("ConfigChanged")
    /\ settings' = Head(news).update
    /\ news' = Tail(news)
    /\ UNCHANGED <<diskVars, up, running, pending, check, shown, answer, published>>

UpdaterStatusChanged ==
    /\ Comes("Status")
    /\ shown' = Head(news).status
    /\ news' = Tail(news)
    /\ UNCHANGED <<diskVars, up, running, settings, pending, check, answer, published>>

ApplyUpdateResult ==
    /\ Comes("ApplyUpdateResult")
    /\ answer' = Head(news).result
    /\ news' = Tail(news)
    /\ UNCHANGED <<diskVars, up, running, settings, pending, check, shown, published>>

-----------------------------------------------------------------------------
(* The user, and the end of the process.                                      *)

ApplyUpdate ==
    /\ up /\ Len(news) < MaxBus
    /\ Sends(<< [type |-> "ApplyUpdateReq"] >>)
    /\ UNCHANGED <<diskVars, up, running, settings, pending, check, shown, answer,
                   published>>

SetUpdateConfig(update) ==
    /\ up /\ Len(news) < MaxBus /\ update # saved
    /\ saved' = update
    /\ Sends(<< [type |-> "ConfigChanged", update |-> update] >>)
    /\ UNCHANGED <<exe, artifacts, up, running, settings, pending, check, shown, answer,
                   published>>

(* Restart, quit, or death anywhere; between the rename of apply and the      *)
(* removal of the artifact as well.                                           *)
Dies ==
    /\ up /\ up' = FALSE
    /\ exe' \in {exe} \cup {Replaced(v) : v \in {w \in ToInstall : artifacts[w] # "none"}}
    /\ news' = <<>> /\ check' = Idle /\ pending' = {}
    /\ shown' = Status("none", 0) /\ answer' = "none"
    /\ UNCHANGED <<artifacts, saved, running, settings, published>>

UpdaterNext ==
    \/ Boot \/ Dies \/ Publish
    \/ \E kind \in {"skipped", "up_to_date", "failed"} : CheckEnds(kind)
    \/ Newer \/ Fetch \/ FetchFails \/ Fetched
    \/ UpdateDownloaded \/ ApplyUpdateReq \/ ConfigChanged
    \/ UpdaterStatusChanged \/ ApplyUpdateResult
    \/ ApplyUpdate
    \/ \E update \in UpdateSettings : SetUpdateConfig(update)

UpdaterSpec == UpdaterInit /\ [][UpdaterNext]_updaterVars

-----------------------------------------------------------------------------
(* Properties.                                                                *)

(* Once the updater's messages have been handled, the status says what there  *)
(* is: an update is offered exactly while one is held that can be installed,  *)
(* and a restart is asked for exactly when the executable on the disk is a    *)
(* newer one than runs, whole even if a check was cut short. A call that was  *)
(* told ok has installed it.                                                  *)
StatusIsTrue ==
    /\ exe # Broken
    /\ answer = "ok" => exe # running
    /\ (up /\ \A i \in DOMAIN news : news[i].type \notin {"Status", "UpdateDownloaded"}) =>
          /\ \A v \in Version :
                /\ shown = Status("ready_to_apply", v) <=> v \in pending
                /\ shown = Status("restart_required", v) <=> (exe = v /\ exe # running)
          /\ \A v \in pending : artifacts[v] = "whole" /\ v > running
=============================================================================
