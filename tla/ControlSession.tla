--------------------------- MODULE ControlSession ---------------------------
(***************************************************************************)
(* The control WebSocket session, run() of http/control.rs, with the       *)
(* ConnectionRegistry (device_control_presence.rs), the publications of    *)
(* the StateHub (device_control_state.rs) and the live device directory    *)
(* (http/directory.rs) that controllers receive.  A session task is        *)
(* sequential; every step between two awaits is one action.  The commands, *)
(* and the device and entity states, are in CommandRouter and StateSync.   *)
(***************************************************************************)
EXTENDS Naturals, Sequences, SequencesExt

CONSTANTS
    Devices,    \* device_id, all of one account
    Conns,      \* connection_id: one value for each control WebSocket
    DeviceOf,   \* [Conns -> Devices], the authenticated device of a socket
    Watchers,   \* the sockets granted device.directory.read
    NoConn,     \* no generation
    NoDevice,   \* no directory event in hand
    EventCap,   \* capacity of the StateHub's broadcast channel (64)
    Faults,     \* which of "abort", "abandon", "revoke", "restart" happen
    MaxFrames   \* bound: device.manifest frames accepted from each socket

ASSUME SessionConstants ==
    /\ DeviceOf \in [Conns -> Devices] /\ Watchers \subseteq Conns
    /\ NoConn \notin Conns /\ NoDevice \notin Devices
    /\ EventCap \in Nat \ {0} /\ MaxFrames \in Nat

VARIABLES
    active,     \* RegistryState.active: the active generation of a device
    offlines,   \* PresenceEvents with online: false, for each generation
    stage,      \* where each session task is
    previous,   \* the generation this one replaced, until it is cleaned up
    known,      \* devices with a stored manifest
    revoked,    \* devices revoked in the store
    revoking,   \* revoke handlers between their store and registry calls
    pending,    \* directory_events: what the subscriber has not received
    lagged,     \* the subscriber has lost an event
    handling,   \* the device whose directory entry is being built
    loaded,     \* its manifest has been read, its presence not yet
    unread,     \* devices the initial snapshot has still to read
    view,       \* the directory as last sent on each socket
    frames      \* device.manifest frames accepted so far

registryVars == <<active, offlines>>
storeVars == <<known, revoked, revoking>>
feedVars == <<pending, lagged>>
watchVars == <<handling, loaded, unread, view>>
vars == <<registryVars, stage, previous, storeVars, feedVars, watchVars, frames>>

(***************************************************************************)
(* new         protocol.hello not received      snapshot   building the    *)
(* welcomed    welcome sent, presence published            first snapshot  *)
(* stored      apply_manifest succeeded         loop       in select!      *)
(* registered  owes the replaced generation a   leaving    disconnect was  *)
(*             commands.disconnected call                  true, scanning  *)
(* cleaned     owes publish_manifest            left       owes            *)
(* published   owes device.registered                      publish_presence*)
(* ready       owes the subscription            ended      returned        *)
(* refused     returned before it registered                               *)
(***************************************************************************)
Stages == {"new", "welcomed", "stored", "registered", "cleaned", "published",
           "ready", "snapshot", "loop", "leaving", "left", "ended", "refused"}

Presences == {"absent", "online", "offline"}

TypeOK ==
    /\ active \in [Devices -> Conns \cup {NoConn}]
    /\ offlines \in [Conns -> Nat]
    /\ stage \in [Conns -> Stages]
    /\ previous \in [Conns -> Conns \cup {NoConn}]
    /\ known \subseteq Devices /\ revoked \subseteq Devices /\ revoking \subseteq revoked
    /\ pending \in [Conns -> Seq(Devices)]
    /\ \A c \in Conns : Len(pending[c]) <= EventCap
    /\ lagged \in [Conns -> BOOLEAN]
    /\ handling \in [Conns -> Devices \cup {NoDevice}]
    /\ loaded \in [Conns -> BOOLEAN]
    /\ unread \in [Conns -> SUBSET Devices]
    /\ view \in [Conns -> [Devices -> Presences]]
    /\ frames \in [Conns -> 0..MaxFrames]

Init ==
    /\ active = [d \in Devices |-> NoConn]
    /\ offlines = [c \in Conns |-> 0]
    /\ stage = [c \in Conns |-> "new"]
    /\ previous = [c \in Conns |-> NoConn]
    /\ known = {} /\ revoked = {} /\ revoking = {}
    /\ pending = [c \in Conns |-> <<>>]
    /\ lagged = [c \in Conns |-> FALSE]
    /\ handling = [c \in Conns |-> NoDevice]
    /\ loaded = [c \in Conns |-> FALSE]
    /\ unread = [c \in Conns |-> {}]
    /\ view = [c \in Conns |-> [d \in Devices |-> "absent"]]
    /\ frames = [c \in Conns |-> 0]

IsActive(c) == active[DeviceOf[c]] = c

(* A plausible bug: subscribing only after the snapshot has been sent.     *)
SubscribedAfterSnapshot(c) == c \in Watchers /\ stage[c] = "loop"

(* The session holds a broadcast receiver and reads it.                    *)
Subscribed(c) == c \in Watchers /\ stage[c] \in {"snapshot", "loop"}

(* sender.send: every receiver gets the event; one whose buffer is full    *)
(* will be told Lagged at its next recv.                                   *)
Publish(d) ==
    /\ pending' = [c \in Conns |->
           IF Subscribed(c) /\ Len(pending[c]) < EventCap
           THEN Append(pending[c], d) ELSE pending[c]]
    /\ lagged' = [c \in Conns |->
           lagged[c] \/ (Subscribed(c) /\ Len(pending[c]) = EventCap)]

(* directory::snapshot lists the devices that are not revoked and have a   *)
(* manifest, and asks active_for of each.                                  *)
Listed(d) == d \in known \ revoked

Online(d) == IF active[d] = NoConn THEN "offline" ELSE "online"

Goto(c, to) == stage' = [stage EXCEPT ![c] = to]

(* A plausible bug: disconnect without the check of the generation.        *)
DisconnectAnyGeneration(c) ==
    /\ active' = [active EXCEPT ![DeviceOf[c]] = NoConn]
    /\ offlines' = [offlines EXCEPT ![c] = @ + 1]

(* registry.disconnect: only the active generation removes its entry and   *)
(* emits an offline event.                                                 *)
Disconnect(c) ==
    /\ active' = [d \in Devices |-> IF active[d] = c THEN NoConn ELSE active[d]]
    /\ offlines' = [offlines EXCEPT ![c] = IF IsActive(c) THEN @ + 1 ELSE @]

-----------------------------------------------------------------------------
(* The handshake *)

Hello(c) ==
    /\ stage[c] = "new"
    /\ Goto(c, "welcomed")
    /\ Publish(DeviceOf[c])
    /\ UNCHANGED <<registryVars, previous, storeVars, watchVars, frames>>

(* Every early return before registration: a bad or late hello or          *)
(* register frame, a failed welcome, a manifest the store does not accept. *)
Refuse(c) ==
    /\ stage[c] \in {"new", "welcomed"}
    /\ Goto(c, "refused")
    /\ UNCHANGED <<registryVars, previous, storeVars, feedVars, watchVars, frames>>

StoreManifest(c) ==
    /\ stage[c] = "welcomed" /\ DeviceOf[c] \notin revoked
    /\ Goto(c, "stored")
    /\ known' = known \cup {DeviceOf[c]}
    /\ UNCHANGED <<registryVars, previous, revoked, revoking, feedVars, watchVars, frames>>

(* registry.register.  The replaced session finds the replacement notice,  *)
(* or its closed channel, because it is no longer active.                  *)
Register(c) ==
    /\ stage[c] = "stored"
    /\ Goto(c, "registered")
    /\ active' = [active EXCEPT ![DeviceOf[c]] = c]
    /\ previous' = [previous EXCEPT ![c] = active[DeviceOf[c]]]
    /\ UNCHANGED <<offlines, storeVars, feedVars, watchVars, frames>>

(* commands.disconnected for the replaced generation has returned.         *)
CleanPrevious(c) ==
    /\ stage[c] = "registered"
    /\ Goto(c, "cleaned")
    /\ previous' = [previous EXCEPT ![c] = NoConn]
    /\ UNCHANGED <<registryVars, storeVars, feedVars, watchVars, frames>>

PublishRegistration(c) ==
    /\ stage[c] = "cleaned"
    /\ Goto(c, "published")
    /\ Publish(DeviceOf[c])
    /\ UNCHANGED <<registryVars, previous, storeVars, watchVars, frames>>

SendRegistered(c) ==
    /\ stage[c] = "published"
    /\ Goto(c, "ready")
    /\ UNCHANGED <<registryVars, previous, storeVars, feedVars, watchVars, frames>>

(* device.registered cannot be sent: disconnect, and nothing is published. *)
AbortRegistration(c) ==
    /\ "abort" \in Faults /\ stage[c] = "published"
    /\ Goto(c, "ended")
    /\ Disconnect(c)
    /\ UNCHANGED <<previous, storeVars, feedVars, watchVars, frames>>

(* state_hub.subscribe; a controller then builds its first snapshot.       *)
Subscribe(c) ==
    /\ stage[c] = "ready"
    /\ Goto(c, IF c \in Watchers THEN "snapshot" ELSE "loop")
    /\ unread' = [unread EXCEPT ![c] = IF c \in Watchers THEN Devices ELSE {}]
    /\ UNCHANGED <<registryVars, previous, storeVars, feedVars, handling, loaded, view, frames>>

(* directory::snapshot goes from device to device: it loads the manifest,  *)
(* skips a device that has none, ...                                       *)
StartEntry(c, d) ==
    /\ stage[c] = "snapshot" /\ handling[c] = NoDevice /\ d \in unread[c]
    /\ unread' = [unread EXCEPT ![c] = @ \ {d}]
    /\ handling' = [handling EXCEPT ![c] = IF Listed(d) THEN d ELSE NoDevice]
    /\ loaded' = [loaded EXCEPT ![c] = Listed(d)]
    /\ UNCHANGED <<registryVars, stage, previous, storeVars, feedVars, view, frames>>

(* ... loads the states and asks the registry last.  The entry goes into   *)
(* the snapshot or, in the loop, is sent as directory.upsert.              *)
FinishEntry(c) ==
    /\ loaded[c]
    /\ loaded' = [loaded EXCEPT ![c] = FALSE]
    /\ handling' = [handling EXCEPT ![c] = NoDevice]
    /\ view' = [view EXCEPT ![c][handling[c]] = Online(handling[c])]
    /\ UNCHANGED <<registryVars, stage, previous, storeVars, feedVars, unread, frames>>

SendSnapshot(c) ==
    /\ stage[c] = "snapshot" /\ unread[c] = {} /\ handling[c] = NoDevice
    /\ Goto(c, "loop")
    /\ UNCHANGED <<registryVars, previous, storeVars, feedVars, watchVars, frames>>

(* The snapshot cannot be built or sent: run returns and leaves the        *)
(* registry entry of this generation behind.                               *)
AbandonRegistration(c) ==
    /\ "abandon" \in Faults /\ stage[c] = "snapshot"
    /\ Goto(c, "ended")
    /\ handling' = [handling EXCEPT ![c] = NoDevice]
    /\ loaded' = [loaded EXCEPT ![c] = FALSE]
    /\ UNCHANGED <<registryVars, previous, storeVars, feedVars, unread, view, frames>>

-----------------------------------------------------------------------------
(* The select! loop *)

Idle(c) == stage[c] = "loop" /\ handling[c] = NoDevice

TakeEvent(c) ==
    /\ c \in Watchers /\ Idle(c) /\ ~lagged[c] /\ pending[c] # <<>>
    /\ handling' = [handling EXCEPT ![c] = Head(pending[c])]
    /\ pending' = [pending EXCEPT ![c] = Tail(@)]
    /\ UNCHANGED <<registryVars, stage, previous, storeVars, lagged, loaded, unread, view, frames>>

(* The upsert needs a fresh snapshot; a device it does not list gets none. *)
LoadEntry(c) ==
    /\ stage[c] = "loop" /\ handling[c] # NoDevice /\ ~loaded[c]
    /\ loaded' = [loaded EXCEPT ![c] = Listed(handling[c])]
    /\ handling' = [handling EXCEPT ![c] = IF Listed(@) THEN @ ELSE NoDevice]
    /\ UNCHANGED <<registryVars, stage, previous, storeVars, feedVars, unread, view, frames>>

(* A device.manifest frame that the store accepts; a superseded session    *)
(* may still read one.                                                     *)
ManifestFrame(c) ==
    /\ Idle(c) /\ DeviceOf[c] \notin revoked /\ frames[c] < MaxFrames
    /\ frames' = [frames EXCEPT ![c] = @ + 1]
    /\ Publish(DeviceOf[c])
    /\ UNCHANGED <<registryVars, stage, previous, storeVars, watchVars>>

(* break: registry.disconnect says whether this generation was still       *)
(* active; if not, the session returns without a word.                     *)
Leave(c) ==
    /\ Goto(c, IF IsActive(c) THEN "leaving" ELSE "ended")
    /\ Disconnect(c)
    /\ handling' = [handling EXCEPT ![c] = NoDevice]
    /\ loaded' = [loaded EXCEPT ![c] = FALSE]
    /\ UNCHANGED <<previous, storeVars, feedVars, unread, view, frames>>

(* A close frame, a transport or protocol error, the heartbeat deadline,   *)
(* the shutdown broadcast, a rejected manifest, a failed upsert.           *)
LeaveLoop(c) == stage[c] = "loop" /\ Leave(c)

(* A plausible bug: the replaced notice is only acted on after revocation. *)
LeaveReplacedIfRevoked(c) == Idle(c) /\ DeviceOf[c] \in revoked /\ ~IsActive(c) /\ Leave(c)

(* replaced.recv returns: the registry dropped this generation.            *)
LeaveReplaced(c) == Idle(c) /\ ~IsActive(c) /\ Leave(c)

(* RecvError::Lagged closes with directory_resync_required.                *)
LeaveLagged(c) == c \in Watchers /\ Idle(c) /\ lagged[c] /\ Leave(c)

(* commands.disconnected for this generation has returned.                 *)
FinishScan(c) ==
    /\ stage[c] = "leaving"
    /\ Goto(c, "left")
    /\ UNCHANGED <<registryVars, previous, storeVars, feedVars, watchVars, frames>>

PublishOffline(c) ==
    /\ stage[c] = "left"
    /\ Goto(c, "ended")
    /\ Publish(DeviceOf[c])
    /\ UNCHANGED <<registryVars, previous, storeVars, watchVars, frames>>

-----------------------------------------------------------------------------
(* Revocation and restart *)

RevokeInStore(d) ==
    /\ "revoke" \in Faults /\ d \notin revoked
    /\ revoked' = revoked \cup {d}
    /\ revoking' = revoking \cup {d}
    /\ UNCHANGED <<registryVars, stage, previous, known, feedVars, watchVars, frames>>

RevokeInRegistry(d) ==
    /\ d \in revoking
    /\ revoking' = revoking \ {d}
    /\ active' = [active EXCEPT ![d] = NoConn]
    /\ offlines' = [c \in Conns |-> IF active[d] = c THEN offlines[c] + 1 ELSE offlines[c]]
    /\ UNCHANGED <<stage, previous, known, revoked, feedVars, watchVars, frames>>

(* Sessions, registry, hub and handlers are gone; the store stays.         *)
Restart ==
    /\ "restart" \in Faults
    /\ active' = [d \in Devices |-> NoConn]
    /\ stage' = [c \in Conns |->
           CASE stage[c] = "new" -> "new"
             [] stage[c] \in {"welcomed", "refused"} -> "refused"
             [] OTHER -> "ended"]
    /\ previous' = [c \in Conns |-> NoConn]
    /\ revoking' = {}
    /\ pending' = [c \in Conns |-> <<>>]
    /\ lagged' = [c \in Conns |-> FALSE]
    /\ handling' = [c \in Conns |-> NoDevice]
    /\ loaded' = [c \in Conns |-> FALSE]
    /\ unread' = [c \in Conns |-> {}]
    /\ UNCHANGED <<offlines, known, revoked, view, frames>>

(* The steps a session takes by itself, without its peer.                  *)
OwnStep(c) ==
    \/ Register(c) \/ CleanPrevious(c) \/ PublishRegistration(c)
    \/ SendRegistered(c) \/ AbortRegistration(c) \/ Subscribe(c)
    \/ \E d \in Devices : StartEntry(c, d)
    \/ FinishEntry(c) \/ SendSnapshot(c) \/ AbandonRegistration(c)
    \/ TakeEvent(c) \/ LoadEntry(c) \/ LeaveLagged(c)
    \/ FinishScan(c) \/ PublishOffline(c)

Next ==
    \/ \E c \in Conns :
        \/ Hello(c) \/ Refuse(c) \/ StoreManifest(c) \/ OwnStep(c)
        \/ ManifestFrame(c) \/ LeaveLoop(c) \/ LeaveReplaced(c)
    \/ \E d \in Devices : RevokeInStore(d) \/ RevokeInRegistry(d)
    \/ Restart

Spec == Init /\ [][Next]_vars

(* tokio runs every ready task, and select! polls its branches in random   *)
(* order, so a notice that stays ready is taken although other branches    *)
(* are ready again and again.                                              *)
LiveSpec ==
    /\ Spec
    /\ \A c \in Conns : WF_vars(OwnStep(c)) /\ SF_vars(LeaveReplaced(c))

-----------------------------------------------------------------------------
(* Properties *)

SessOf(c) ==
    CASE stage[c] \in {"new", "welcomed", "refused"} -> "new"
      [] stage[c] = "stored" -> "admitted"
      [] stage[c] \in {"registered", "cleaned", "published", "ready", "snapshot"} -> "starting"
      [] stage[c] = "loop" -> "loop"
      [] OTHER -> "ended"

Registry == INSTANCE ConnectionRegistry WITH
    sess <- [c \in Conns |-> SessOf(c)],
    cleaning <- [c \in Conns |-> IF stage[c] = "leaving" THEN c ELSE previous[c]]

(* The sessions and the registry behave as the command router assumes:     *)
(* run() implements ConnectionRegistry.                                    *)
ImplementsRegistry == Registry!RegSpec

(* Of each generation at most one offline event is emitted, and none while *)
(* it is active, although its own session, a revocation and a replacement  *)
(* race to remove it (disconnect, revoke, register).                       *)
OfflineAtMostOnce ==
    \A c \in Conns :
        /\ offlines[c] <= 1
        /\ offlines[c] = 1 => ~IsActive(c) /\ Registry!Registered(c)

(* A session that has returned is not the active generation of its device: *)
(* "TTL, graceful close, transport loss, revoke and server shutdown        *)
(* produce exactly one offline transition of the active generation"        *)
(* (docs/roadmap/device-control-tasks.md).                                 *)
EndedIsOffline == \A c \in Conns : stage[c] = "ended" => ~IsActive(c)

(* A change of d's presence has been made by a task that has still to      *)
(* publish it, or is a revocation half done.                               *)
Unpublished(d) ==
    \/ d \in revoking
    \/ \E c \in Conns : /\ DeviceOf[c] = d
                        /\ stage[c] \in {"stored", "registered", "cleaned", "leaving", "left"}

(* What the directory says of a device now.                                *)
Presence(d) == IF Listed(d) THEN Online(d) ELSE "absent"

(* What a connected controller was last told of a device is what the store *)
(* and the registry say, unless an event for that device is in its queue,  *)
(* in its hands or about to be published: the subscription, the snapshot   *)
(* read device by device and the upserts leave no gap.                     *)
DirectoryUpToDate ==
    \A w \in Watchers, d \in Devices :
        \/ stage[w] # "loop" \/ ~IsActive(w) \/ lagged[w]
        \/ d \in ToSet(pending[w]) \/ handling[w] = d \/ Unpublished(d)
        \/ view[w][d] = Presence(d)

(* A session that was replaced or revoked returns, whatever else keeps     *)
(* arriving in its select! loop.                                           *)
SupersededSessionEnds ==
    \A c \in Conns : stage[c] = "loop" /\ ~IsActive(c) ~> stage[c] = "ended"

(* A controller that stays connected is told of every change of presence   *)
(* sooner or later.                                                        *)
ControllerCatchesUp ==
    \A w \in Watchers, d \in Devices :
        stage[w] = "loop" ~> stage[w] # "loop" \/ view[w][d] = Presence(d)
=============================================================================
