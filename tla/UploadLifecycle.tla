-------------------------- MODULE UploadLifecycle --------------------------
(***************************************************************************)
(* What peer_net promises of each upload, whatever the order of offers,    *)
(* verdicts, address answers, connections and free slots: it goes forward  *)
(* through its stages, is started at most once, by us or by the downloader,*)
(* and never more uploads hold a slot than are configured.  Several uploads*)
(* may move in one step (all those of one peer, or those that one pump     *)
(* starts).                                                                *)
(***************************************************************************)
EXTENDS Naturals, FiniteSets

CONSTANTS UploadIds, UploadSlots   \* UploadSlots = 0: unlimited

VARIABLE stage

Stages == {"none", "offered", "approved", "waiting", "streaming", "collected", "over"}

Forward ==
  {<<"none", "offered">>,        \* registered, an offer or acceptance is sent
   <<"none", "over">>,           \* evicted by its own registration
   <<"offered", "approved">>,    \* the downloader said yes
   <<"offered", "collected">>,   \* the downloader opened the file connection
   <<"offered", "over">>,        \* rejected, evicted or replaced
   <<"approved", "over">>,       \* evicted, or the downloader is offline
   <<"approved", "waiting">>, <<"approved", "streaming">>,
   <<"waiting", "streaming">>,
   <<"streaming", "over">>, <<"collected", "over">>}

HoldsSlot(s) == {id \in UploadIds : s[id] = "streaming"}

LifecycleInit == stage = [id \in UploadIds |-> "none"]

LifecycleNext ==
  /\ stage' \in [UploadIds -> Stages]
  /\ \A id \in UploadIds : stage'[id] = stage[id] \/ <<stage[id], stage'[id]>> \in Forward
  /\ UploadSlots # 0 => Cardinality(HoldsSlot(stage')) <= UploadSlots

LifecycleSpec == LifecycleInit /\ [][LifecycleNext]_stage
=============================================================================
