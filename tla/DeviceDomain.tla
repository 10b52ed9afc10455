---------------------------- MODULE DeviceDomain ----------------------------
(***************************************************************************)
(* The values of device control: manifests, commands and their JSON form   *)
(* (device_control/{manifest,command,validation,state,lifecycle}.rs), and  *)
(* the check of a command against a manifest                               *)
(* (device_control_command/target_validation.rs).                          *)
(*                                                                         *)
(* A text stands for its length, except an id, which is a value; a JSON    *)
(* object is a record, and a name such as "volume.set_mute" is a pair.     *)
(***************************************************************************)
EXTENDS Integers, Sequences, FiniteSets, Sample

CONSTANTS
    Absent,     \* Option::None, and a key a JSON object does not have
    Null,       \* the JSON null
    Namespaced  \* the names and ids that namespaced() accepts

Elements(list) == {list[i] : i \in DOMAIN list}

(* bounded, unique, list and numbers of validation.rs.                     *)
Bounded(length, min, max) == length \in min..max
Unique(list) == Cardinality(Elements(list)) = Len(list)
ListOk(list, maximum) == Len(list) <= maximum /\ Unique(list)
Numbers(minimum, maximum, step) ==
    /\ step # Absent => step > 0
    /\ minimum # Absent /\ maximum # Absent => minimum <= maximum

-----------------------------------------------------------------------------
(* Manifests *)

ValidEntity(e) ==
    /\ e.id \in Namespaced
    /\ Bounded(e.label, 1, 128)
    /\ e.stale_after \in 1..86400
    /\ Unique(e.allowed_commands)
    /\ Numbers(e.minimum, e.maximum, e.step)
    /\ e.controllable <=> e.allowed_commands # <<>>

ValidSurface(s) == s.id \in Namespaced /\ Bounded(s.label, 1, 128) /\ ListOk(s.views, 3)

ValidCapability(c) ==
    CASE c.name = "playback" -> ListOk(c.actions, 5)
      [] c.name = "station" -> ListOk(c.sources, 2)
      [] c.name = "volume" -> c.step # 0
      [] c.name = "chromecast" -> c.ttl \in 5..300 /\ ListOk(c.actions, 3)
      [] c.name = "relay" -> ListOk(c.actions, 3) /\ ListOk(c.modes, 8)
      [] c.name = "display" -> /\ Len(c.views) <= 3
                               /\ c.max_items \in 1..32 /\ c.max_text_length \in 1..1024
      [] c.name = "sensor" -> ListOk(c.entity_classes, 32)
      [] c.name = "actuator" -> ListOk(c.commands, 3)
      [] c.name = "voice_input" -> ListOk(c.formats, 4)
      [] OTHER -> c.version # 0 /\ c.name \in Namespaced

ValidCapabilities(items) ==
    /\ Len(items) <= 32
    /\ Unique([i \in DOMAIN items |-> items[i].name])
    /\ \A c \in Elements(items) : ValidCapability(c)

ValidManifest(m) ==
    /\ m.revision > 0 /\ Len(m.roles) <= 8 /\ Len(m.entities) <= 256 /\ Len(m.surfaces) <= 16
    /\ Unique(m.roles)
    /\ ValidCapabilities(m.capabilities)
    /\ \A e \in Elements(m.entities) : ValidEntity(e)
    /\ \A s \in Elements(m.surfaces) : ValidSurface(s)
    /\ Unique([i \in DOMAIN m.entities |-> m.entities[i].id])
    /\ Unique([i \in DOMAIN m.surfaces |-> m.surfaces[i].id])
    /\ (\E s \in Elements(m.surfaces) : s.kind = "display") => "display_surface" \in Elements(m.roles)

HasRole(m, role) == role \in Elements(m.roles)
Capability(m, name) == {c \in Elements(m.capabilities) : c.name = name}

(* Serialize of a capability: the fields of its kind, and version 1.       *)
KnownFields ==
    [playback |-> {"actions"}, station |-> {"sources"}, volume |-> {"step", "mute"},
     chromecast |-> {"actions", "ttl"}, relay |-> {"actions", "modes"},
     display |-> {"views", "max_items", "max_text_length"}, sensor |-> {"entity_classes"},
     actuator |-> {"commands"}, voice_input |-> {"formats"}]

CapabilityWire(c) ==
    IF c.name \in DOMAIN KnownFields
    THEN [f \in KnownFields[c.name] \cup {"name", "version"} |->
              IF f = "version" THEN 1 ELSE c[f]]
    ELSE [f \in DOMAIN c.extra \cup {"name", "version"} |->
              IF f \in {"name", "version"} THEN c[f] ELSE c.extra[f]]

(* Deserialize: the fields of a known name must be there and its version   *)
(* is not looked at; any other object is kept whole.  The result must be   *)
(* valid.                                                                  *)
CapabilityOfWire(w) ==
    LET parsed ==
            IF w.name \in DOMAIN KnownFields
            THEN [f \in KnownFields[w.name] \cup {"name"} |-> w[f]]
            ELSE [name |-> w.name, version |-> w.version, extra |-> w]
        complete == w.name \in DOMAIN KnownFields => KnownFields[w.name] \subseteq DOMAIN w
    IN IF ~(w.version <= 255 /\ complete) THEN Absent
       ELSE IF ValidCapability(parsed) THEN parsed ELSE Absent

-----------------------------------------------------------------------------
(* Commands *)

(* validate_stream_uri; a host is given by the class its checks put it in. *)
ValidStreamUri(u) ==
    /\ u.length <= 2048
    /\ u.scheme \in {"http", "https"}
    /\ ~u.fragment /\ ~u.userinfo
    /\ u.host = "public"
    /\ u.port # Absent => u.port \in 1..65535

ValidStation(s) == Bounded(s.name, 1, 128) /\ (s.icon # Absent => ValidStreamUri(s.icon))

ValidPresentation(p) ==
    CASE p.view = "text" -> Bounded(p.text, 1, 1024)
      [] p.view = "now_playing" ->
             /\ Bounded(p.station_id, 1, 128) /\ Bounded(p.title, 1, 128)
             /\ p.subtitle # Absent => Bounded(p.subtitle, 0, 256)
      [] p.view = "sensor_grid" ->
             /\ Bounded(p.title, 1, 128) /\ Len(p.items) <= 32
             /\ \A i \in Elements(p.items) :
                    Bounded(i.label, 1, 64) /\ ~(i.quality = "unavailable" /\ i.freshness = "fresh")

(* DeviceCommand::validate_at on the body.                                 *)
ValidBody(b) ==
    CASE b.kind = "play_station" -> Bounded(b.station_id, 1, 128)
      [] b.kind = "play_stream" ->
             /\ IF b.source = "catalog"
                THEN /\ b.station_id # Absent /\ Bounded(b.station_id, 1, 128)
                     /\ b.station # Absent => ValidStation(b.station)
                ELSE b.station_id = Absent /\ b.station = Absent
             /\ ValidStreamUri(b.stream_uri)
      [] b.kind = "display" -> ValidPresentation(b.presentation)
      [] b.kind = "playback" -> b.action \in {"play", "pause", "stop", "next", "previous"}
      [] b.kind = "change" -> b.delta # 0
      [] b.kind = "actuator" -> (b.action = "set_value") <=> (b.value # Absent)
      [] OTHER -> TRUE

(* whole_seconds of a span in half seconds: it rounds towards zero.        *)
WholeSeconds(span) == IF span >= 0 THEN span \div 2 ELSE -((-span) \div 2)

ValidateAt(command, received) ==
    /\ command.entity = Absent \/ command.surface = Absent
    /\ command.deadline # Absent => WholeSeconds(command.deadline - received) \in 0..30
    /\ ValidBody(command.body)

OrNull(value) == IF value = Absent THEN Null ELSE value
WithoutAbsent(wire) == [f \in {g \in DOMAIN wire : wire[g] # Absent} |-> wire[f]]
VolumeFields == [set_level |-> "level", change |-> "delta", set_mute |-> "muted"]

PresentationWire(p) ==
    CASE p.view = "text" -> [name |-> <<"display", "show_text">>, text |-> p.text]
      [] p.view = "now_playing" ->
             [name |-> <<"display", "show_view">>, view |-> p.view, station_id |-> p.station_id,
              title |-> p.title, subtitle |-> OrNull(p.subtitle)]
      [] p.view = "sensor_grid" ->
             [name |-> <<"display", "show_view">>, view |-> p.view, title |-> p.title,
              items |-> p.items]

(* Serialize of a CommandBody.                                             *)
BodyWire(b) ==
    CASE b.kind = "play_station" ->
             [name |-> <<"station", "play_station">>, station_id |-> b.station_id]
      [] b.kind = "play_stream" ->
             WithoutAbsent([name |-> <<"station", "play_stream">>, source |-> b.source,
                            station_id |-> b.station_id, station |-> b.station,
                            stream_uri |-> b.stream_uri])
      [] b.kind = "playback" -> [name |-> <<"playback", b.action>>]
      [] b.kind \in DOMAIN VolumeFields ->
             [f \in {"name", VolumeFields[b.kind]} |->
                  IF f = "name" THEN <<"volume", b.kind>> ELSE b[f]]
      [] b.kind = "actuator" ->
             IF b.action = "set_value"
             THEN [name |-> <<"entity", b.action>>, value |-> OrNull(b.value)]
             ELSE [name |-> <<"entity", b.action>>]
      [] b.kind = "display" -> PresentationWire(b.presentation)
      [] b.kind = "unknown" -> b.payload

(* A key of a type that has no null.                                       *)
Given(w, f) == f \in DOMAIN w /\ w[f] # Null
Optional(w, f) == IF f \in DOMAIN w THEN w[f] ELSE Absent

PresentationOfWire(w) ==
    IF w.name[2] = "show_text"
    THEN IF Given(w, "text") THEN [view |-> "text", text |-> w.text] ELSE Absent
    ELSE CASE Given(w, "view") /\ w.view = "sensor_grid" /\ Given(w, "title") /\ Given(w, "items") ->
                  [view |-> w.view, title |-> w.title, items |-> w.items]
           [] Given(w, "view") /\ w.view = "now_playing" /\ Given(w, "station_id")
              /\ Given(w, "title") /\ Optional(w, "subtitle") # Null ->
                  [view |-> w.view, station_id |-> w.station_id, title |-> w.title,
                   subtitle |-> Optional(w, "subtitle")]
           [] OTHER -> Absent

StreamOfWire(w) ==
    IF \/ ~Given(w, "source") \/ ~Given(w, "stream_uri")
       \/ w.source = "catalog" /\ ~Given(w, "station_id")
       \/ w.source = "direct" /\ ("station_id" \in DOMAIN w \/ "station" \in DOMAIN w)
       \/ Optional(w, "station") = Null
    THEN Absent
    ELSE [kind |-> "play_stream", source |-> w.source, station_id |-> Optional(w, "station_id"),
          station |-> Optional(w, "station"), stream_uri |-> w.stream_uri]

(* Deserialize of a CommandBody.                                           *)
BodyOfWire(w) ==
    CASE w.name = <<"station", "play_station">> ->
             IF Given(w, "station_id")
             THEN [kind |-> "play_station", station_id |-> w.station_id] ELSE Absent
      [] w.name = <<"station", "play_stream">> -> StreamOfWire(w)
      [] w.name \in {<<"display", "show_text">>, <<"display", "show_view">>} ->
             LET p == PresentationOfWire(w) IN
             IF p = Absent THEN Absent ELSE [kind |-> "display", presentation |-> p]
      [] w.name[1] = "playback" -> [kind |-> "playback", action |-> w.name[2]]
      [] w.name[1] = "volume" /\ w.name[2] \in DOMAIN VolumeFields ->
             LET f == VolumeFields[w.name[2]] IN
             IF Given(w, f) THEN [g \in {"kind", f} |-> IF g = "kind" THEN w.name[2] ELSE w[f]]
             ELSE Absent
      [] w.name \in {<<"entity", "turn_on">>, <<"entity", "turn_off">>} ->
             [kind |-> "actuator", action |-> w.name[2], value |-> Absent]
      [] w.name = <<"entity", "set_value">> ->
             IF Given(w, "value") THEN [kind |-> "actuator", action |-> w.name[2], value |-> w.value]
             ELSE Absent
      [] OTHER -> IF w.name \in Namespaced THEN [kind |-> "unknown", name |-> w.name, payload |-> w]
                  ELSE Absent

-----------------------------------------------------------------------------
(* A command against the manifest of its target *)

DisplaySupported(p, c) ==
    CASE p.view = "text" -> p.text <= c.max_text_length
      [] p.view = "now_playing" -> "now_playing" \in Elements(c.views)
      [] p.view = "sensor_grid" -> "sensor_grid" \in Elements(c.views) /\ Len(p.items) <= c.max_items

(* require_role_capability looks among these.                              *)
RoleCapability(m, role, name) == {c \in Capability(m, name) : HasRole(m, role)}

(* validate_target; the error codes are not told apart.                    *)
ValidateTarget(command, m) ==
    LET b == command.body IN
    CASE b.kind = "play_station" \/ (b.kind = "play_stream" /\ b.source = "catalog") ->
             \E c \in RoleCapability(m, "player", "station") : "catalog" \in Elements(c.sources)
      [] b.kind = "play_stream" /\ b.source = "direct" ->
             \E c \in RoleCapability(m, "player", "station") : "direct" \in Elements(c.sources)
      [] b.kind = "playback" ->
             \E c \in RoleCapability(m, "player", "playback") : b.action \in Elements(c.actions)
      [] b.kind \in DOMAIN VolumeFields ->
             \E c \in RoleCapability(m, "player", "volume") : b.kind = "set_mute" => c.mute
      [] b.kind = "display" ->
             /\ command.surface # Absent
             /\ \E s \in Elements(m.surfaces) : s.id = command.surface /\ s.kind = "display"
             /\ \E c \in RoleCapability(m, "display_surface", "display") :
                    DisplaySupported(b.presentation, c)
      [] b.kind = "actuator" ->
             /\ command.entity # Absent
             /\ \E e \in Elements(m.entities) :
                    /\ e.id = command.entity /\ e.controllable
                    /\ b.action = "set_value" => /\ e.minimum # Absent => b.value >= e.minimum
                                                 /\ e.maximum # Absent => b.value <= e.maximum
             /\ \E c \in RoleCapability(m, "actuator", "actuator") : b.action \in Elements(c.commands)
      [] OTHER -> FALSE

-----------------------------------------------------------------------------
(* Observations of entities *)

(* EntityState::freshness_at, sensor_value of the intents.                 *)
FreshnessAt(state, now) ==
    IF state.received_at = Absent THEN "unknown"
    ELSE IF now > state.stale_after THEN "stale" ELSE "fresh"

(* validate_for; a value is a number or a text, whose length is not looked *)
(* at here.                                                                *)
ExpectedUnit == [temperature |-> "C", humidity |-> "%", co2 |-> "ppm"]
ValidFor(state, e) ==
    /\ state.id \in Namespaced /\ state.revision > 0
    /\ e.class \in DOMAIN ExpectedUnit => state.numeric /\ state.unit = ExpectedUnit[e.class]
    /\ state.numeric => /\ e.minimum # Absent => state.value >= e.minimum
                        /\ e.maximum # Absent => state.value <= e.maximum

-----------------------------------------------------------------------------
(* Properties *)

(* A valid capability that is stored with its manifest is read back as it  *)
(* was, one that this version does not know included.                      *)
CapabilityRoundTrip ==
    sample.of = "capability" =>
        LET c == sample.value IN ValidCapability(c) => CapabilityOfWire(CapabilityWire(c)) = c

UntitledNowPlaying(b) ==
    b.kind = "display" /\ b.presentation.view = "now_playing" /\ b.presentation.subtitle = Absent

(* A valid command that reserve_command stored is the command load_command *)
(* reads, and what the target is sent.  A now_playing view without a       *)
(* subtitle is the exception: it is written as null, and null is refused.  *)
CommandRoundTrip ==
    sample.of = "body" =>
        LET b == sample.value IN
        ValidBody(b) => BodyOfWire(BodyWire(b)) = IF UntitledNowPlaying(b) THEN Absent ELSE b

(* The hand-written serialisation of manifest.rs and command.rs is undone  *)
(* by the hand-written parsing.                                            *)
WireSafe == CapabilityRoundTrip /\ CommandRoundTrip
=============================================================================
