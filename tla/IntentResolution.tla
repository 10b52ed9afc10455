-------------------------- MODULE IntentResolution --------------------------
(***************************************************************************)
(* resolve of device_control_intent.rs: a typed intent of a user becomes   *)
(* a command for one device, a question back to the user, a request to     *)
(* confirm, or an error.  A request holds the actor, the directory of the  *)
(* account, the target in use and the areas; devices of a directory have   *)
(* different ids, so it is a set.                                          *)
(***************************************************************************)
EXTENDS DeviceDomain

CONSTANTS
    Overlong,   \* the ids that bounded_id and the bound of an area refuse
    Intents     \* samples: what the user may ask for


Error(code) == [kind |-> "error", code |-> code]
Ask(code, devices, surfaces) ==
    [kind |-> "ask", code |-> code, devices |-> devices, surfaces |-> surfaces]
Confirm(target, entity, action, value) ==
    [kind |-> "confirm", target |-> target, entity |-> entity, action |-> action, value |-> value]
Found(it) == [kind |-> "found", it |-> it]

(* command_plan: one command for one device.                               *)
Plan(device, surface, body, presentation) ==
    [kind |-> "plan", presentation |-> presentation,
     commands |-> <<[target |-> device.id, entity |-> Absent, surface |-> surface,
                     deadline |-> Absent, body |-> body]>>]

(* Without a target the three selectors are absent.                        *)
ValidTarget(t) ==
    t.surface \notin Overlong /\ t.area \notin Overlong

ValidIntent(i) ==
    /\ i.intent # "actuator" => ValidTarget(i.target)
    /\ i.intent = "play_radio" => Bounded(i.station_id, 1, 128)
    /\ i.intent \in {"query_sensor", "actuator"} => i.entity \notin Overlong
    /\ i.intent = "media" => (i.body.kind = "change" => i.body.delta # 0)
    /\ i.intent = "actuator" => ((i.action = "set_value") <=> (i.value # Absent))

-----------------------------------------------------------------------------
(* What a device can do *)

MediaSupported(m, body) ==
    /\ HasRole(m, "player")
    /\ IF body.kind = "playback"
       THEN \E c \in Capability(m, "playback") : body.action \in Elements(c.actions)
       ELSE \E c \in Capability(m, "volume") : body.kind = "set_mute" => c.mute

DisplayCapable(m, view) ==
    HasRole(m, "display_surface") /\ \E c \in Capability(m, "display") : view \in Elements(c.views)

PresentationSupported(m, p) == \E c \in Capability(m, "display") : DisplaySupported(p, c)

ReadableSensors(m) == SelectSeq(m.entities, LAMBDA e : e.domain = "sensor" /\ e.readable)

(* v1 has no lock or climate vocabulary, whatever the manifest says.       *)
SafeActuator(e) == e.domain \in {"switch", "light"} /\ e.class \notin {"lock", "climate"}

-----------------------------------------------------------------------------
(* Which device, which surface *)

(* canonical_area_devices: Absent when the area is not known.              *)
AreaDevices(q, area) ==
    IF area \in DOMAIN q.areas THEN q.areas[area] ELSE Absent

CompatibleDevices(q, target, usable) ==
    LET ids == IF target.area = Absent THEN Absent ELSE AreaDevices(q, target.area) IN
    {d \in usable : ids # Absent => d.id \in ids}

ChooseOne(candidates) ==
    CASE Cardinality(candidates) = 1 -> Found(CHOOSE d \in candidates : TRUE)
      [] candidates = {} -> Ask("missing_target", {}, {})
      [] OTHER -> Ask("ambiguous_target", {d.id : d \in candidates}, {})

ChooseExact(q, candidates, id) ==
    LET found == {d \in candidates : d.id = id} IN
    IF found # {} THEN ChooseOne(found)
    ELSE IF \E d \in q.devices : d.id = id /\ ~d.online
         THEN Error("target_offline") ELSE Error("capability_not_supported")

(* A plausible bug: the device in use wins over the one that was named.    *)
SelectDeviceInUse(q, target, candidates) ==
    IF q.current.device # Absent THEN ChooseExact(q, candidates, q.current.device)
    ELSE IF target.device # Absent THEN ChooseExact(q, candidates, target.device)
    ELSE ChooseOne(candidates)

(* select_device: an unknown area, the named device, the devices with the  *)
(* named surface, the device in use, the only one.                         *)
SelectDevice(q, target, candidates) ==
    CASE target.area # Absent /\ AreaDevices(q, target.area) = Absent ->
             Error("unsupported_selector")
      [] OTHER ->
         IF target.device # Absent THEN ChooseExact(q, candidates, target.device)
         ELSE IF target.surface # Absent
         THEN ChooseOne({d \in candidates :
                             \E s \in Elements(d.manifest.surfaces) : s.id = target.surface})
         ELSE IF q.current.device # Absent
         THEN ChooseExact(q, candidates, q.current.device)
         ELSE ChooseOne(candidates)

SelectSurface(q, device, target, view) ==
    LET inUse == IF q.current.device = device.id THEN q.current.surface ELSE Absent
        requested == IF target.surface # Absent THEN target.surface ELSE inUse
        candidates == {s \in Elements(device.manifest.surfaces) :
                           /\ s.kind = "display" /\ view \in Elements(s.views)
                           /\ requested # Absent => s.id = requested}
    IN CASE Cardinality(candidates) = 1 -> Found(CHOOSE s \in candidates : TRUE)
         [] candidates = {} -> Error("capability_not_supported")
         [] OTHER -> Ask("ambiguous_surface", {device.id}, {s.id : s \in candidates})

-----------------------------------------------------------------------------
(* The intents *)

ResolveRadio(q, i) ==
    LET usable == {d \in q.devices : d.online /\ HasRole(d.manifest, "player") /\ Capability(d.manifest, "station") # {}}
        chosen == SelectDevice(q, i.target, CompatibleDevices(q, i.target, usable))
    IN IF "media.control" \notin q.scopes THEN Error("forbidden")
       ELSE IF chosen.kind # "found" THEN chosen
       ELSE Plan(chosen.it, Absent, [kind |-> "play_station", station_id |-> i.station_id], Absent)

ResolveMedia(q, i) ==
    LET usable == {d \in q.devices : d.online /\ MediaSupported(d.manifest, i.body)}
        chosen == SelectDevice(q, i.target, CompatibleDevices(q, i.target, usable))
    IN IF "media.control" \notin q.scopes THEN Error("forbidden")
       ELSE IF chosen.kind # "found" THEN chosen ELSE Plan(chosen.it, Absent, i.body, Absent)

(* Display a presentation on the surface of a device, if it can show it.   *)
Show(q, device, target, presentation) ==
    LET surface == SelectSurface(q, device, target, presentation.view) IN
    IF surface.kind # "found" THEN surface
    ELSE IF ~ValidPresentation(presentation) \/ ~PresentationSupported(device.manifest, presentation)
         THEN Error("capability_not_supported")
    ELSE Plan(device, surface.it.id, [kind |-> "display", presentation |-> presentation], presentation)

(* sensor_value and sensor_card: what is unavailable has no freshness.     *)
Reading(state, now) ==
    IF state = Absent \/ state.quality = "unavailable"
    THEN [quality |-> "unavailable", freshness |-> "unknown"]
    ELSE [quality |-> state.quality, freshness |-> FreshnessAt(state, now)]

StateFor(device, id) == IF id \in DOMAIN device.states THEN device.states[id] ELSE Absent

SensorCard(device, e, now) ==
    LET reading == Reading(StateFor(device, e.id), now) IN
    [label |-> e.label, quality |-> reading.quality, freshness |-> reading.freshness]

ResolveSensors(q, i) ==
    LET usable == {d \in q.devices : /\ d.online /\ ReadableSensors(d.manifest) # <<>>
                                     /\ DisplayCapable(d.manifest, "sensor_grid")}
        chosen == SelectDevice(q, i.target, CompatibleDevices(q, i.target, usable))
        sensors == ReadableSensors(chosen.it.manifest)
    IN IF ~({"entity.state.read", "display.control"} \subseteq q.scopes) THEN Error("forbidden")
       ELSE IF chosen.kind # "found" THEN chosen
       ELSE Show(q, chosen.it, i.target,
                 [view |-> "sensor_grid", title |-> 7,
                  items |-> [k \in DOMAIN sensors |-> SensorCard(chosen.it, sensors[k], q.now)]])

ResolveNowPlaying(q, i) ==
    LET usable == {d \in q.devices : /\ d.online /\ DisplayCapable(d.manifest, "now_playing")
                                     /\ HasRole(d.manifest, "player")}
        chosen == SelectDevice(q, i.target, CompatibleDevices(q, i.target, usable))
        surface == SelectSurface(q, chosen.it, i.target, "now_playing")
        playback == chosen.it.playback
    IN IF "display.control" \notin q.scopes THEN Error("forbidden")
       ELSE IF chosen.kind # "found" THEN chosen
       ELSE IF surface.kind # "found" THEN surface
       ELSE IF playback = Absent THEN Error("state_unavailable")
       ELSE IF playback.station_id = Absent \/ playback.status # "playing"
            THEN Error("state_unavailable")
       ELSE Show(q, chosen.it, i.target,
                 [view |-> "now_playing", station_id |-> playback.station_id,
                  title |-> playback.station_id, subtitle |-> Absent])

(* The answer of a sensor is text for the user; nothing is sent.           *)
ResolveSensorQuery(q, i) ==
    LET usable == {d \in q.devices : d.online /\ ReadableSensors(d.manifest) # <<>>}
        devices == CompatibleDevices(q, i.target, usable)
        candidates == UNION {{<<d, e>> : e \in {e \in Elements(ReadableSensors(d.manifest)) :
                                 i.entity # Absent => e.id = i.entity}} : d \in devices}
        only == CHOOSE c \in candidates : TRUE
        state == StateFor(only[1], only[2].id)
    IN IF "entity.state.read" \notin q.scopes THEN Error("forbidden")
       ELSE IF candidates = {} THEN Ask("missing_target", {}, {})
       ELSE IF Cardinality(candidates) # 1
            THEN Ask("ambiguous_entity", {c[1].id : c \in candidates}, {})
       ELSE IF state = Absent THEN Error("state_unavailable")
       ELSE IF ~Bounded(only[2].label + state.length, 1, 1024) THEN Error("capability_not_supported")
       ELSE [kind |-> "plan", commands |-> <<>>,
             presentation |-> [view |-> "text", text |-> only[2].label + state.length,
                               source |-> only[1].id, reading |-> Reading(state, q.now)]]

ResolveActuator(q, i) ==
    LET device == CHOOSE d \in q.devices : d.id = i.device
        entity == CHOOSE e \in Elements(device.manifest.entities) : e.id = i.entity
        allowed == /\ entity.controllable /\ i.action \in Elements(entity.allowed_commands)
                   /\ \E c \in RoleCapability(device.manifest, "actuator", "actuator") :
                          i.action \in Elements(c.commands)
        inBounds == i.action = "set_value" =>
                        /\ entity.minimum # Absent => i.value >= entity.minimum
                        /\ entity.maximum # Absent => i.value <= entity.maximum
    IN IF "actuator.control" \notin q.scopes THEN Error("forbidden")
       ELSE IF ~\E d \in q.devices : d.id = i.device THEN Error("forbidden")
       ELSE IF ~device.online THEN Error("target_offline")
       ELSE IF ~\E e \in Elements(device.manifest.entities) : e.id = i.entity
            THEN Error("capability_not_supported")
       ELSE IF ~allowed \/ ~SafeActuator(entity) THEN Error("capability_not_supported")
       ELSE IF ~inBounds THEN Error("invalid_intent")
       ELSE Confirm(i.device, i.entity, i.action, i.value)

Resolve(q, i) ==
    IF ~ValidIntent(i) THEN Error("invalid_intent")
    ELSE IF q.actor # q.owner THEN Error("forbidden")
    ELSE CASE i.intent = "play_radio" -> ResolveRadio(q, i)
           [] i.intent = "show_sensors" -> ResolveSensors(q, i)
           [] i.intent = "query_sensor" -> ResolveSensorQuery(q, i)
           [] i.intent = "media" -> ResolveMedia(q, i)
           [] i.intent = "show_now_playing" -> ResolveNowPlaying(q, i)
           [] i.intent = "actuator" -> ResolveActuator(q, i)


-----------------------------------------------------------------------------
(* Properties *)

DeviceOfPlan(q, command) == CHOOSE d \in q.devices : d.id = command.target

(* A player whose station capability does not list the catalog.            *)
NoCatalog(d) == \A c \in Capability(d.manifest, "station") : "catalog" \notin Elements(c.sources)

(* What resolve plans or asks to confirm is a command that validate_at and *)
(* validate_target of the router then admit for the device it names.  The  *)
(* one exception is a station for a player without the catalog source,     *)
(* which resolve_radio does not look at.                                   *)
PlanIsAdmitted ==
    sample.of = "request" => \A i \in Intents :
        LET r == Resolve(sample.value, i)
            confirmed == [target |-> r.target, entity |-> r.entity, surface |-> Absent,
                          deadline |-> Absent,
                          body |-> [kind |-> "actuator", action |-> r.action, value |-> r.value]]
            commands == CASE r.kind = "plan" -> Elements(r.commands)
                          [] r.kind = "confirm" -> {confirmed}
                          [] OTHER -> {}
        IN \A c \in commands :
               /\ ValidateAt(c, 0)
               /\ \/ ValidateTarget(c, DeviceOfPlan(sample.value, c).manifest)
                  \/ i.intent = "play_radio" /\ NoCatalog(DeviceOfPlan(sample.value, c))

(* resolve never guesses: a plan is for the device, the surface and the    *)
(* area that were named, else for the device in use, else no other device  *)
(* that is online could have run the same command.                         *)
PlanKeepsTarget ==
    sample.of = "request" => \A i \in {j \in Intents : j.intent # "actuator"} :
        LET r == Resolve(sample.value, i) IN
        r.kind = "plan" => \A c \in Elements(r.commands) :
            LET d == DeviceOfPlan(sample.value, c) IN
            /\ d.online
            /\ i.target.device # Absent => d.id = i.target.device
            /\ i.target.area # Absent => d.id \in sample.value.areas[i.target.area]
            /\ i.target.surface # Absent /\ c.surface # Absent => c.surface = i.target.surface
            /\ i.target.device = Absent /\ i.target.surface = Absent =>
                   IF sample.value.current.device # Absent THEN d.id = sample.value.current.device
                   ELSE \A other \in sample.value.devices \ {d} :
                            \/ ~other.online \/ ~ValidateTarget(c, other.manifest)
                            \/ i.target.area # Absent /\ other.id \notin sample.value.areas[i.target.area]

(* The hand-written serialisation loses nothing, and what resolve makes of *)
(* an intent the router admits, on the device that was asked for.          *)
DomainSafe == WireSafe /\ PlanIsAdmitted /\ PlanKeepsTarget
=============================================================================
