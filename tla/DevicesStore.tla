---------------------------- MODULE DevicesStore ----------------------------
(* The streams the root saga opens at the start: the frames of the global  *)
(* hotkeys, the changes of the audio devices, and the probe of the         *)
(* backend's health; and the dashboard's push-to-talk, which acts on the   *)
(* frames.  Frames and changes are numbered in the order of their          *)
(* publication; an odd frame presses the key, the next one releases it.    *)
EXTENDS Sagas

CONSTANTS
  MaxFrames,          \* bound: frames and device changes published
  MayReopen           \* whether the dashboard may be left and opened again

PressFrame(n) == n % 2 = 1

\* Ghosts: mount, how often the dashboard was mounted; acted, the frames on which push-to-talk
\* acted since; acted0, those on which it acted before, and at the mount itself.
initialDevicesState ==
  [lastPress |-> 0, lastRelease |-> 0, sequence |-> 0, lastChange |-> 0, counter |-> 0, status |-> "unknown",
   home |-> TRUE, pressSeen |-> 0, releaseSeen |-> 0, mount |-> 1, acted |-> << >>, acted0 |-> << >>]
DevicesAction ==
  {"SUBSCRIBE_HOTKEYS", "HOTKEY_PRESSED", "HOTKEY_RELEASED", "HOTKEYS_STREAM_CLOSED", "SUBSCRIBE_AUDIO_DEVICES",
   "AUDIO_DEVICE_CHANGED", "AUDIO_DEVICES_STREAM_CLOSED", "HEALTH_PROBE_REQUESTED", "HEALTH_PROBE_RESULT"}

hotkeysReducer(s, a) ==
  CASE a.type = "HOTKEY_PRESSED" -> [s EXCEPT !.lastPress = a.frame, !.sequence = @ + 1]
    [] a.type = "HOTKEY_RELEASED" -> [s EXCEPT !.lastRelease = a.frame, !.sequence = @ + 1]
    [] OTHER -> s
audioDevicesReducer(s, a) ==
  IF a.type = "AUDIO_DEVICE_CHANGED" THEN [s EXCEPT !.lastChange = a.change, !.counter = @ + 1] ELSE s
healthReducer(s, a) ==
  IF a.type = "HEALTH_PROBE_RESULT" THEN [s EXCEPT !.status = a.status] ELSE s

\* usePushToTalk: after every rendering of the dashboard its effects look at the last press
\* and the last release, and act on one they have not seen.
actOnPress(s) ==
  IF s.home /\ s.lastPress \notin {0, s.pressSeen}
  THEN [s EXCEPT !.pressSeen = s.lastPress, !.acted = Append(@, s.lastPress)] ELSE s
actOnRelease(s) ==
  IF s.home /\ s.lastRelease \notin {0, s.releaseSeen}
  THEN [s EXCEPT !.releaseSeen = s.lastRelease, !.acted = Append(@, s.lastRelease)] ELSE s
usePushToTalk(s) == actOnRelease(actOnPress(s))
devicesReducer(s, a) == usePushToTalk(healthReducer(audioDevicesReducer(hotkeysReducer(s, a), a), a))

watchDevicesSagas(ts, a) ==
  IF a.type = "HEALTH_PROBE_REQUESTED" THEN takeEvery(ts, gqlRequest("healthProbeSaga", Nothing)) ELSE ts

(***************************************************************************)
(* The sagas: one event of a channel, the end of a channel, a probe.       *)
(***************************************************************************)
consumeHotkeys(frame) ==
  << [type |-> IF PressFrame(frame) THEN "HOTKEY_PRESSED" ELSE "HOTKEY_RELEASED", frame |-> frame] >>
\* A snapshot of the devices is no change.
consumeAudioDevices(event) ==
  IF event.kind = "snapshot" THEN << >> ELSE << [type |-> "AUDIO_DEVICE_CHANGED", change |-> event.change] >>
healthProbeSaga(t) ==
  << [type |-> "HEALTH_PROBE_RESULT", status |-> IF t.ok /\ t.ans = "ok" THEN "ok" ELSE "down"] >>

(***************************************************************************)
(* The backend: what it has published, what of it an open channel heard,   *)
(* and whether it answers at all.                                          *)
(***************************************************************************)
\* The three streams share nothing: a behaviour follows one of them.
DevicesInit(budget) ==
  \E saga \in {"subscribeHotkeysSaga", "subscribeAudioDevicesSaga", "healthProbeSaga"} :
    SagaBoot(initialDevicesState,
             [follows |-> saga, frames |-> 0, changes |-> 0, heard |-> << >>, heardChange |-> 0, status |-> "ok"],
             << IF saga = "healthProbeSaga" THEN gqlRequest(saga, Nothing) ELSE gqlSubscriptionChannel(saga, Nothing) >>,
             budget)

Hears(saga) == \E i \in InState("open") : tasks[i].saga = saga /\ tasks[i].ok
PublishedTo(saga, sv, heard, event) ==
  Broadcast(tasks, IF Hears(saga) THEN heard ELSE sv, LAMBDA t : t.saga = saga, event)
HotkeyEventsBridge ==
  LET n == srv.frames + 1
      sv == [srv EXCEPT !.frames = n]
  IN  /\ srv.follows = "subscribeHotkeysSaga" /\ n <= MaxFrames
      /\ PublishedTo("subscribeHotkeysSaga", sv, [sv EXCEPT !.heard = Append(@, n)], n)
AudioDeviceChangedBridge ==
  LET n == srv.changes + 1
      sv == [srv EXCEPT !.changes = n]
  IN  /\ srv.follows = "subscribeAudioDevicesSaga" /\ n <= MaxFrames
      /\ \/ PublishedTo("subscribeAudioDevicesSaga", sv, [sv EXCEPT !.heardChange = n], [kind |-> "changed", change |-> n])
         \/ PublishedTo("subscribeAudioDevicesSaga", sv, sv, [kind |-> "snapshot", change |-> n])
\* A backend that is down refuses the probe.
Health(i) == tasks[i].saga = "healthProbeSaga" /\ Answer(i, srv, srv.status)
BackendStatusChanges ==
  srv.follows = "healthProbeSaga" /\ \E status \in {"ok", "down"} : Outside([srv EXCEPT !.status = status])

(***************************************************************************)
(* The user interface.                                                     *)
(***************************************************************************)
useBackendHealth ==
  srv.follows = "healthProbeSaga" /\ Dispatch(devicesReducer, watchDevicesSagas, [type |-> "HEALTH_PROBE_REQUESTED"])
\* The dashboard is left, and is mounted again with new references.
HomeClosed ==
  /\ MayReopen /\ srv.follows = "subscribeHotkeysSaga"
  /\ ui.home
  /\ Effect(LAMBDA s, a : [s EXCEPT !.home = FALSE], watchDevicesSagas, << [type |-> "LEFT"] >>)
remounted(s) ==
  LET first == usePushToTalk([s EXCEPT !.home = TRUE, !.mount = @ + 1, !.pressSeen = 0, !.releaseSeen = 0, !.acted = << >>])
  IN  [first EXCEPT !.acted = << >>, !.acted0 = @ \o s.acted \o first.acted]
HomeReopened ==
  ~ui.home /\ moves > 0 /\ Dispatch(LAMBDA s, a : remounted(s), watchDevicesSagas, [type |-> "OPENED"])
\* Anything else that the dashboard shows renders it again.
HomeRerendered ==
  ui.home /\ Effect(LAMBDA s, a : usePushToTalk(s), watchDevicesSagas, << [type |-> "RENDERED"] >>)

ConsumeHotkeys ==
  \E i \in Running("subscribeHotkeysSaga") :
    Buffered(i) /\ Take(devicesReducer, watchDevicesSagas, i, consumeHotkeys(Head(tasks[i].ans)), << rest(tasks[i]) >>)
ConsumeAudioDevices ==
  \E i \in Running("subscribeAudioDevicesSaga") :
    Buffered(i) /\ Take(devicesReducer, watchDevicesSagas, i, consumeAudioDevices(Head(tasks[i].ans)), << rest(tasks[i]) >>)
\* The consumer ends with its channel; the saga that forked it waits on, and nobody subscribes again.
DeviceStreamEnds ==
  \E i \in Channels : Ended(i) /\ Take(devicesReducer, watchDevicesSagas, i, << >>, << >>)

DevicesNext ==
  \/ HotkeyEventsBridge \/ AudioDeviceChangedBridge \/ BackendStatusChanges
  \/ useBackendHealth \/ HomeClosed \/ HomeReopened \/ HomeRerendered
  \/ ConsumeHotkeys \/ ConsumeAudioDevices \/ DeviceStreamEnds \/ Socket
  \/ (\E i \in InFlight : Health(i)) \/ Dropped
  \/ \E i \in InState("back") :
       Resume(devicesReducer, watchDevicesSagas, i, healthProbeSaga(tasks[i]), << >>, TRUE)

(***************************************************************************)
(* Properties.                                                             *)
(***************************************************************************)
DevicesTypeOK ==
  /\ {ui.lastPress, ui.lastRelease, ui.sequence, ui.lastChange} \subseteq 0..MaxFrames
  /\ ui.status \in {"unknown", "ok", "down"}
  /\ \A i \in InState("back") : healthProbeSaga(tasks[i])[1].type \in DevicesAction

Increasing(s) == \A j, k \in DOMAIN s : j < k => s[j] < s[k]

\* While the dashboard stays mounted push-to-talk acts on a frame at most once, and on the
\* frames in the order in which the key was pressed and released.
FramesActedInOrder == Increasing(ui.acted)

\* A dashboard that was never left acts on every frame that reached the user interface.
EveryFrameIsActedOn ==
  ui.home /\ ui.mount = 1 => \A k \in DOMAIN srv.heard :
    \/ \E j \in DOMAIN ui.acted : ui.acted[j] = srv.heard[k]
    \/ \E i \in Running("subscribeHotkeysSaga") : \E j \in DOMAIN tasks[i].ans : tasks[i].ans[j] = srv.heard[k]

\* A press that was acted on is never acted on again, by a later mount either.
NoFrameIsReplayed == Increasing(ui.acted0 \o ui.acted)

\* When no probe is out and none failed, the health shown is that of the backend at the
\* last probe, in whatever order the answers came.
HealthShown == Running("healthProbeSaga") = {} /\ ~drift /\ ~broken => ui.status = srv.status

\* The last device change shown is the last one that reached the user interface.
LastChangeShown ==
  (\A i \in Running("subscribeAudioDevicesSaga") : tasks[i].ans = << >>) => ui.lastChange = srv.heardChange
=============================================================================
