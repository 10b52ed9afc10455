------------------------- MODULE MCDomainSamples -------------------------
(***************************************************************************)
(* The values on which the pure operators of DeviceDomain and              *)
(* IntentResolution are checked: every kind of capability, body and        *)
(* intent, at and next to the bounds, and directories of two devices.      *)
(***************************************************************************)
EXTENDS IntentResolution

CONSTANTS d1, d2, s1, s2, e1, e2, home, long, vendor

Ids == {s1, s2, e1, e2, vendor, <<"vendor", "do">>}
TooLong == {long}

-----------------------------------------------------------------------------
(* Capabilities and manifests *)

Lists(S) == {<<>>} \cup {<<x>> : x \in S} \cup {<<x, y>> : x, y \in S}

Volumes == {[name |-> "volume", step |-> n, mute |-> b] : n \in {0, 5}, b \in BOOLEAN}
StationSources == {[name |-> "station", sources |-> l] : l \in Lists({"catalog", "direct"})}
Playbacks == {[name |-> "playback", actions |-> l] : l \in Lists({"play", "pause"})}
Displays == {[name |-> "display", views |-> l, max_items |-> n, max_text_length |-> t] :
                l \in Lists({"now_playing", "sensor_grid"}), n \in {0, 1, 32, 33}, t \in {0, 1, 1024}}
Actuators == {[name |-> "actuator", commands |-> l] : l \in Lists({"turn_on", "set_value"})}
Others == {[name |-> "chromecast", actions |-> <<"play">>, ttl |-> n] : n \in {4, 5, 300, 301}}
          \cup {[name |-> "relay", actions |-> l, modes |-> l] : l \in Lists({"x", "y"})}
          \cup {[name |-> "sensor", entity_classes |-> l] : l \in Lists({"co2"})}
          \cup {[name |-> "voice_input", formats |-> l] : l \in Lists({"pcm"})}
          \cup {[name |-> vendor, version |-> v, extra |-> [name |-> vendor, version |-> v, x |-> y]] :
                    v \in {0, 2}, y \in {Null, 1}}

TheCapabilities == Volumes \cup StationSources \cup Playbacks \cup Displays \cup Actuators \cup Others

Sensor(id, label) ==
    [id |-> id, domain |-> "sensor", class |-> "co2", label |-> label, readable |-> TRUE,
     controllable |-> FALSE, allowed_commands |-> <<>>, stale_after |-> 60,
     minimum |-> Absent, maximum |-> Absent, step |-> Absent]
Switch(class, commands, low, high) ==
    [id |-> e2, domain |-> "switch", class |-> class, label |-> 4, readable |-> TRUE,
     controllable |-> commands # <<>>, allowed_commands |-> commands, stale_after |-> 60,
     minimum |-> low, maximum |-> high, step |-> Absent]
Surface(id) == [id |-> id, kind |-> "display", label |-> 4, views |-> <<"now_playing", "sensor_grid">>]

Player == [revision |-> 1, roles |-> <<"player">>, entities |-> <<>>, surfaces |-> <<>>,
           capabilities |-> <<[name |-> "playback", actions |-> <<"play">>],
                              [name |-> "volume", step |-> 5, mute |-> FALSE],
                              [name |-> "station", sources |-> <<"catalog">>]>>]
Screen(surfaces, sensors, items) ==
    [revision |-> 1, roles |-> <<"player", "display_surface">>, entities |-> sensors, surfaces |-> surfaces,
     capabilities |-> <<[name |-> "volume", step |-> 5, mute |-> TRUE],
                        [name |-> "station", sources |-> <<"direct">>],
                        [name |-> "display", views |-> <<"now_playing", "sensor_grid">>,
                         max_items |-> items, max_text_length |-> 64]>>]
Plug(class, low, high, commands) ==
    [revision |-> 1, roles |-> <<"actuator">>, surfaces |-> <<>>,
     entities |-> <<Sensor(e1, 8), Switch(class, <<"turn_on", "set_value">>, low, high)>>,
     capabilities |-> <<[name |-> "actuator", commands |-> commands]>>]

Manifests ==
    {m \in {Player} \cup {Screen(surfaces, sensors, n) :
                     surfaces \in {<<Surface(s1)>>, <<Surface(s1), Surface(s2)>>},
                     sensors \in {<<Sensor(e1, 64)>>, <<Sensor(e1, 65)>>, <<Sensor(e1, 4), Sensor(e2, 4)>>},
                     n \in {1, 2}}
            \cup {Plug(class, low, 9, commands) : class \in {"outlet", "lock"}, low \in {Absent, 5},
                     commands \in {<<"turn_on">>, <<"turn_on", "set_value">>}} : ValidManifest(m)}

-----------------------------------------------------------------------------
(* Commands and intents *)

Uri(scheme, host, port) ==
    [length |-> 20, scheme |-> scheme, fragment |-> FALSE, userinfo |-> FALSE, host |-> host, port |-> port]
Uris == {Uri(s, h, p) : s \in {"http", "ftp"}, h \in {"public", "private"}, p \in {Absent, 0, 80}}
Good == Uri("http", "public", Absent)

MediaBodies == {[kind |-> "playback", action |-> a] : a \in {"play", "pause"}}
               \cup {[kind |-> "set_level", level |-> 0]}
               \cup {[kind |-> "change", delta |-> n] : n \in {-1, 0, 1}}
               \cup {[kind |-> "set_mute", muted |-> b] : b \in BOOLEAN}

TheBodies ==
    MediaBodies
    \cup {[kind |-> "play_station", station_id |-> n] : n \in {0, 1, 128, 129}}
    \cup {[kind |-> "play_stream", source |-> s, station_id |-> i, station |-> t, stream_uri |-> u] :
            s \in {"catalog", "direct"}, i \in {Absent, 0, 8}, u \in Uris,
            t \in {Absent, [name |-> 3, icon |-> Absent], [name |-> 3, icon |-> Good], [name |-> 0, icon |-> Absent]}}
    \cup {[kind |-> "actuator", action |-> a, value |-> v] :
            a \in {"turn_on", "turn_off", "set_value"}, v \in {Absent, 3}}
    \cup {[kind |-> "display", presentation |-> p] :
            p \in {[view |-> "text", text |-> n] : n \in {0, 1, 1024, 1025}}
                  \cup {[view |-> "now_playing", station_id |-> 8, title |-> 8, subtitle |-> t] :
                            t \in {Absent, 0, 256, 257}}
                  \cup {[view |-> "sensor_grid", title |-> 7,
                         items |-> <<[label |-> n, quality |-> q, freshness |-> f]>>] :
                            n \in {0, 64, 65}, q \in {"good", "unavailable"}, f \in {"fresh", "unknown"}}}
    \cup {[kind |-> "unknown", name |-> <<"vendor", "do">>, payload |-> [name |-> <<"vendor", "do">>, x |-> 1]]}

Targets == [device : {Absent, d1}, surface : {Absent, s2}, area : {Absent, home}]
           \cup [device : {Absent}, surface : {long, Absent}, area : {long, vendor}]

TheIntents ==
    {[intent |-> "play_radio", station_id |-> n, target |-> t] : n \in {8, 129}, t \in Targets}
    \cup {[intent |-> k, target |-> t] : k \in {"show_sensors", "show_now_playing"}, t \in Targets}
    \cup {[intent |-> "query_sensor", entity |-> e, target |-> t] : e \in {Absent, e1}, t \in Targets}
    \cup {[intent |-> "media", body |-> b, target |-> t] : b \in MediaBodies, t \in Targets}
    \cup {[intent |-> "actuator", device |-> d, entity |-> e, action |-> a, value |-> v] :
            d \in {d1, d2}, e \in {e2, long}, a \in {"turn_on", "turn_off", "set_value"}, v \in {Absent, 4, 5, 10}}

States == {[e \in {} |-> Absent],
           [e \in {e1} |-> [received_at |-> 1, stale_after |-> 3, quality |-> "good", length |-> 4]]}
PlaybackStates == {Absent, [status |-> "playing", station_id |-> 8], [status |-> "playing", station_id |-> Absent],
                   [status |-> "stopped", station_id |-> 8]}

First == {[id |-> d1, online |-> o, manifest |-> m, states |-> s, playback |-> p] :
              o \in BOOLEAN, m \in Manifests, s \in States, p \in PlaybackStates}
Second == {[id |-> d2, online |-> TRUE, manifest |-> m, states |-> s, playback |-> Absent] :
              m \in Manifests, s \in States}

AllScopes == {"media.control", "entity.state.read", "display.control", "actuator.control"}
Small == {Player, Screen(<<Surface(s1)>>, <<Sensor(e1, 4), Sensor(e2, 4)>>, 1),
          Plug("outlet", 5, 9, <<"turn_on", "set_value">>)}
TheRequests ==
    {[actor |-> "u", owner |-> "u", scopes |-> AllScopes, devices |-> {a, b}, current |-> c,
      areas |-> [x \in {home} |-> {d1}], now |-> 2] :
         a \in {x \in First : x.playback \in {Absent, [status |-> "playing", station_id |-> 8]}},
         b \in {x \in Second : x.manifest \in Small},
         c \in {[device |-> Absent, surface |-> Absent], [device |-> d2, surface |-> Absent],
                [device |-> d1, surface |-> s2]}}
=============================================================================
