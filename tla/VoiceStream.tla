---------------------------- MODULE VoiceStream ----------------------------
(***************************************************************************)
(* Voice sessions (http/voice.rs, http/voice/{device,protocol}.rs) and the *)
(* interpretation of what was said (voice/command.rs).  A session reads a  *)
(* start frame, audio and a commit; what was recognised becomes a search,  *)
(* a favourite or a command for the device itself.                         *)
(*                                                                         *)
(* A transcript is the set of the kinds of words in it.  The recogniser,   *)
(* the language model, the search and the router answer or fail; one step  *)
(* is the code up to the next await.                                       *)
(***************************************************************************)
EXTENDS Naturals, Sequences, FiniteSets

CONSTANTS
    VoiceSessions,  \* sockets; each is used once
    DeviceVoices,   \* those of authenticated devices that announce voice.main
    Chatty,         \* those whose client never lets the idle timer run out
    MaxVoice,       \* GLOBAL_VOICE_SESSIONS
    MaxAudio,       \* the limit of audio of a session, in frames
    Transcripts,    \* what may be recognised
    LlmReplies,     \* what the language model may return
    NoVoice

VARIABLES
    voiceAt,    \* where each session is
    voiceSlots, \* active_voice of PublicLimitState
    audio,      \* frames of audio so far
    heard,      \* the last final transcript
    sentTo,     \* frames sent to the client
    wall,       \* sessions older than STREAM_WALL_TIMEOUT
    orders,     \* command rows: NoVoice, or the result (or "pending")
    favourites, \* live records of the station, by the session that added it
                \* (NoVoice: another client)
    told        \* what the last frame of a session said of a command

voiceVars == <<voiceAt, voiceSlots, audio, heard, sentTo, wall, orders, favourites, told>>

Anonymous == VoiceSessions \ DeviceVoices
Terminal == {"answer", "failure"}
Opened == {"starting", "recognizer", "loop", "search", "interpret",
           "favourite", "add", "submit", "poll"}

VoiceTypeOK ==
    /\ voiceAt \in [VoiceSessions -> Opened \cup {"new", "upgrade", "ended"}]
    /\ voiceSlots \in 0..MaxVoice
    /\ audio \in [VoiceSessions -> 0..MaxAudio]
    /\ heard \in [VoiceSessions -> Transcripts \cup {NoVoice}]
    /\ \A v \in VoiceSessions : sentTo[v] \in Seq({"ready", "transcript"} \cup Terminal)
    /\ wall \subseteq VoiceSessions
    /\ orders \in [VoiceSessions -> {NoVoice, "pending", "succeeded", "failed", "timed_out"}]
    /\ told \in [VoiceSessions -> {NoVoice, "succeeded", "failed", "timed_out"}]

-----------------------------------------------------------------------------
(* What was said *)

Command(intent) == [intent |-> intent, query |-> FALSE, delta |-> NoVoice, level |-> NoVoice]

(* DeterministicCommandInterpreter: the first kind of word that is there.  *)
(* A transcript with a number has it as <<"number", n>>.                   *)
DeterministicInterpret(words) ==
    LET levels == {w \in words : w # <<>> /\ w[1] = "number" /\ w[2] <= 100} IN
    CASE <<"unsupported">> \in words -> Command("unknown")
      [] <<"unsupported">> \notin words /\ <<"volume">> \in words ->
             IF levels = {} THEN Command("unknown")
             ELSE [Command("set_volume") EXCEPT !.level = (CHOOSE w \in levels : TRUE)[2]]
      [] {<<"unsupported">>, <<"volume">>} \cap words = {} /\ <<"stop">> \in words -> Command("stop")
      [] OTHER -> [Command("play_radio") EXCEPT !.query = TRUE]

(* VoiceCommand::validate; query says that there is a criterion.           *)
ValidVoiceCommand(c) ==
    CASE c.intent = "play_radio" -> c.query /\ c.delta = NoVoice /\ c.level = NoVoice
      [] c.intent = "volume_change" -> ~c.query /\ c.delta \notin {NoVoice, 0} /\ c.level = NoVoice
      [] c.intent = "set_volume" ->
             ~c.query /\ c.delta = NoVoice /\ c.level # NoVoice /\ c.level <= 100
      [] OTHER -> ~c.query /\ c.delta = NoVoice /\ c.level = NoVoice

(* LlmCommandInterpreter: a reply that is no valid command falls back on   *)
(* the words, if one of the basic ones is there.                           *)
Interpret(words, reply) ==
    LET basic == \/ {<<"genre">>, <<"stop">>, <<"volume">>} \cap words # {}
                 \/ {<<"play">>, <<"metal">>} \subseteq words
    IN IF words = {} THEN NoVoice
       ELSE IF reply # NoVoice /\ ValidVoiceCommand(reply) THEN reply
       ELSE IF basic THEN DeterministicInterpret(words) ELSE NoVoice

(* device_user_intent: the media operation, or the error.                  *)
DeviceIntent(c) ==
    CASE c.intent \in {"stop", "resume", "next_station", "previous_station"} -> "media"
      [] c.intent = "volume_change" -> IF c.delta = NoVoice THEN "invalid_payload" ELSE "media"
      [] c.intent = "set_volume" -> IF c.level = NoVoice THEN "invalid_payload" ELSE "media"
      [] OTHER -> "unsupported_intent"

-----------------------------------------------------------------------------
(* The session *)

VoiceInit ==
    /\ voiceAt = [v \in VoiceSessions |-> "new"]
    /\ voiceSlots = 0 /\ wall = {} /\ favourites \in {{}, {NoVoice}}
    /\ audio = [v \in VoiceSessions |-> 0]
    /\ heard = [v \in VoiceSessions |-> NoVoice]
    /\ sentTo = [v \in VoiceSessions |-> <<>>]
    /\ orders = [v \in VoiceSessions |-> NoVoice]
    /\ told = [v \in VoiceSessions |-> NoVoice]

Send(v, frames) == sentTo' = [sentTo EXCEPT ![v] = @ \o frames]
At(v, from, to) == voiceAt[v] = from /\ voiceAt' = [voiceAt EXCEPT ![v] = to]

(* The task of the socket returns and drops its VoiceSlot.                 *)
Return(v) ==
    /\ voiceAt' = [voiceAt EXCEPT ![v] = "ended"]
    /\ voiceSlots' = IF v \in Anonymous THEN voiceSlots - 1 ELSE voiceSlots

Fail(v) ==
    Return(v) /\ Send(v, <<"failure">>) /\ UNCHANGED <<audio, heard, wall, orders, favourites, told>>

(* public_voice_stream and reserve_voice_slot; a device has no slot.       *)
ReserveSlot(v) ==
    /\ At(v, "new", "upgrade")
    /\ v \in Anonymous => voiceSlots < MaxVoice
    /\ voiceSlots' = IF v \in Anonymous THEN voiceSlots + 1 ELSE voiceSlots
    /\ UNCHANGED <<audio, heard, sentTo, wall, orders, favourites, told>>

(* The client completes the upgrade, or goes away before it.               *)
Upgrade(v) ==
    \/ At(v, "upgrade", "starting") /\ UNCHANGED <<voiceSlots, audio, heard, sentTo, wall, orders, favourites, told>>
    \/ voiceAt[v] = "upgrade" /\ Return(v) /\ UNCHANGED <<audio, heard, sentTo, wall, orders, favourites, told>>

(* The start frame, parse_stream_start and validate_device_voice_start:    *)
(* the device must be online and have declared the surface.                *)
StartFrame(v) ==
    \/ voiceAt[v] = "starting" /\ Fail(v)
    \/ /\ At(v, "starting", "recognizer")
       /\ UNCHANGED <<voiceSlots, audio, heard, sentTo, wall, orders, favourites, told>>

(* The recogniser starts, or fails, or times out.                          *)
StartRecognizer(v) ==
    \/ voiceAt[v] = "recognizer" /\ Fail(v)
    \/ /\ At(v, "recognizer", "loop")
       /\ Send(v, <<"ready">>)
       /\ UNCHANGED <<voiceSlots, audio, heard, wall, orders, favourites, told>>

InLoop(v) == voiceAt[v] = "loop" /\ v \notin wall

(* A binary frame: refused when malformed or over the limit; otherwise     *)
(* push_audio fails, or returns updates with or without a final one.       *)
AudioFrame(v) ==
    /\ InLoop(v)
    /\ \/ Fail(v)
       \/ /\ audio[v] < MaxAudio
          /\ audio' = [audio EXCEPT ![v] = @ + 1]
          /\ \/ UNCHANGED <<heard, sentTo>>
             \/ /\ Send(v, <<"transcript">>)
                /\ heard' \in {heard} \cup {[heard EXCEPT ![v] = t] : t \in Transcripts \ {{}}}
          /\ UNCHANGED <<voiceAt, voiceSlots, wall, orders, favourites, told>>

(* A plausible bug: the loop goes on after a cancel.                       *)
CancelFrameOn(v) ==
    /\ InLoop(v) /\ Len(sentTo[v]) < 4 /\ Send(v, <<"failure">>)
    /\ UNCHANGED <<voiceAt, voiceSlots, audio, heard, wall, orders, favourites, told>>

(* A cancel, or a text that is neither a cancel nor a commit.              *)
CancelFrame(v) == InLoop(v) /\ Fail(v)

(* A commit: finish() fails or returns updates; the newest final           *)
(* transcript is theirs, else the last one heard.                          *)
CommitFrame(v) ==
    /\ InLoop(v)
    /\ \/ Fail(v)
       \/ \E t \in {heard[v]} \cup (Transcripts \ {{}}) :
             IF t = NoVoice THEN Fail(v)
             ELSE /\ voiceAt' = [voiceAt EXCEPT ![v] = IF v \in DeviceVoices THEN "interpret" ELSE "search"]
                  /\ heard' = [heard EXCEPT ![v] = t]
                  /\ Send(v, <<"transcript">>)
                  /\ UNCHANGED <<voiceSlots, audio, wall, orders, favourites, told>>

(* The client closes or the socket breaks; nobody is left to answer.       *)
Closed(v) ==
    /\ voiceAt[v] \in {"starting", "recognizer", "loop"} /\ v \notin Chatty
    /\ Return(v)
    /\ UNCHANGED <<audio, heard, sentTo, wall, orders, favourites, told>>

(* STREAM_IDLE_TIMEOUT.                                                    *)
IdleTimeout(v) == voiceAt[v] = "loop" /\ v \notin Chatty \cup wall /\ Fail(v)

WallPasses(v) ==
    /\ voiceAt[v] = "loop" /\ v \notin wall
    /\ wall' = wall \cup {v}
    /\ UNCHANGED <<voiceAt, voiceSlots, audio, heard, sentTo, orders, favourites, told>>

(* A plausible bug: only an idle session is looked at again.               *)
WallTimeoutIdle(v) == voiceAt[v] = "loop" /\ v \in wall \ Chatty /\ Fail(v)

(* The loop is left once started_at.elapsed() reaches STREAM_WALL_TIMEOUT. *)
WallTimeout(v) == voiceAt[v] = "loop" /\ v \in wall /\ Fail(v)

(* A ping is answered and a pong ignored.                                  *)
Ping(v) == InLoop(v) /\ UNCHANGED voiceVars

(* finish_stream_search: fails, times out, finds nothing (a failure for a  *)
(* device, a result for the others) or answers.                            *)
FinishSearch(v) ==
    /\ voiceAt[v] = "search"
    /\ \/ Fail(v)
       \/ /\ Return(v) /\ Send(v, <<"answer">>)
          /\ UNCHANGED <<audio, heard, wall, orders, favourites, told>>

(* finish_device_voice up to the dispatch of the intent; resolve and the   *)
(* registry may refuse a media intent.                                     *)
InterpretStep(v) ==
    /\ voiceAt[v] = "interpret"
    /\ \E reply \in LlmReplies \cup {NoVoice} :
          LET c == Interpret(heard[v], reply)
              go(to) == /\ voiceAt' = [voiceAt EXCEPT ![v] = to]
                        /\ UNCHANGED <<voiceSlots, audio, heard, sentTo, wall, orders, favourites, told>>
          IN IF c = NoVoice THEN Fail(v)
             ELSE CASE c.intent = "add_favorite" -> go("favourite")
                    [] c.intent = "play_radio" -> go("search")
                    [] OTHER -> \/ DeviceIntent(c) = "media" /\ go("submit")
                                \/ Fail(v)

(* add_favourite_voice: the station must be known; the collection is read  *)
(* first.  A station that is there already is a success.                   *)
ReadFavourites(v) ==
    /\ voiceAt[v] = "favourite"
    /\ \/ Fail(v)
       \/ /\ favourites # {} /\ Return(v) /\ Send(v, <<"answer">>)
          /\ UNCHANGED <<audio, heard, wall, orders, favourites, told>>
       \/ /\ favourites = {} /\ At(v, "favourite", "add")
          /\ UNCHANGED <<voiceSlots, audio, heard, sentTo, wall, orders, favourites, told>>

(* The record is added and shown by the same transaction, or the store or  *)
(* the limit of favourites refuses it.                                     *)
AddFavourite(v) ==
    /\ voiceAt[v] = "add"
    /\ \/ Fail(v)
       \/ /\ favourites' = favourites \cup {v}
          /\ Return(v) /\ Send(v, <<"answer">>)
          /\ UNCHANGED <<audio, heard, wall, orders, told>>

(* Another client removes a favourite.                                     *)
RemoveFavourite == \E v \in favourites :
    /\ favourites' = favourites \ {v}
    /\ UNCHANGED <<voiceAt, voiceSlots, audio, heard, sentTo, wall, orders, told>>

(* submit of the router under a new command_id.                            *)
SubmitOrder(v) ==
    /\ voiceAt[v] = "submit"
    /\ \/ Fail(v)
       \/ /\ voiceAt' = [voiceAt EXCEPT ![v] = "poll"]
          /\ orders' = [orders EXCEPT ![v] = "pending"]
          /\ UNCHANGED <<voiceSlots, audio, heard, sentTo, wall, favourites, told>>

(* complete_command: the result of the target or of the deadline.          *)
OrderDecided(v) ==
    /\ orders[v] = "pending"
    /\ \E r \in {"succeeded", "failed", "timed_out"} : orders' = [orders EXCEPT ![v] = r]
    /\ UNCHANGED <<voiceAt, voiceSlots, audio, heard, sentTo, wall, favourites, told>>

(* load_command every 20 ms for at most 31 s: the stored result is the     *)
(* answer; a store error or the timeout is a failure.                      *)
PollOrder(v) ==
    /\ voiceAt[v] = "poll"
    /\ \/ Fail(v)
       \/ /\ orders[v] # "pending" /\ Return(v) /\ Send(v, <<"answer">>)
          /\ told' = [told EXCEPT ![v] = orders[v]]
          /\ UNCHANGED <<audio, heard, wall, orders, favourites>>

(* What tokio and its timers do, against what clients do.                  *)
ServerVoice(v) ==
    \/ StartFrame(v) \/ StartRecognizer(v) \/ IdleTimeout(v) \/ WallPasses(v) \/ WallTimeout(v)
    \/ FinishSearch(v) \/ InterpretStep(v) \/ ReadFavourites(v) \/ AddFavourite(v)
    \/ SubmitOrder(v) \/ PollOrder(v)
VoiceStep(v) ==
    \/ ServerVoice(v) \/ ReserveSlot(v) \/ Upgrade(v) \/ AudioFrame(v) \/ CancelFrame(v)
    \/ CommitFrame(v) \/ Closed(v) \/ Ping(v) \/ OrderDecided(v)
VoiceNext == RemoveFavourite \/ \E v \in VoiceSessions : VoiceStep(v)

-----------------------------------------------------------------------------
(* Properties *)

(* The process-wide count of anonymous sessions is what it should be on    *)
(* every way out of a session, a lost upgrade included, so slots neither   *)
(* leak nor are given out twice.                                           *)
SlotsAreSessions ==
    voiceSlots = Cardinality({v \in Anonymous : voiceAt[v] \in Opened \cup {"upgrade"}})

(* A client is given at most one terminal frame, nothing after it, and, if *)
(* it stays, exactly one when the session ends; audio is only recognised   *)
(* after the ready frame.                                                  *)
OneTerminalFrame ==
    \A v \in VoiceSessions : LET frames == sentTo[v] IN
        /\ \A i \in 1..Len(frames) : frames[i] \in Terminal => i = Len(frames) /\ voiceAt[v] = "ended"
        /\ \A i \in 1..Len(frames) : frames[i] = "transcript" => frames[1] = "ready"
        /\ voiceAt[v] = "ended" /\ v \in Chatty /\ frames # <<>> => frames[Len(frames)] \in Terminal

(* What a voice session says of a command is the result the router stored, *)
(* and stays it.                                                           *)
ToldIsStored == \A v \in VoiceSessions : told[v] # NoVoice => orders[v] = told[v]

(* The interpreters never hand a volume command without its number to the  *)
(* device flow, whatever was heard and the language model returned.        *)
VolumeIsGiven ==
    \A v \in VoiceSessions : voiceAt[v] = "interpret" =>
        \A reply \in LlmReplies \cup {NoVoice} :
            LET c == Interpret(heard[v], reply) IN
            c # NoVoice => DeviceIntent(c) # "invalid_payload" /\ (c.intent = "volume_change" => c.delta # 0)

(* Every session that was opened comes to an end, also when its client     *)
(* keeps the socket busy and never commits.                                *)
VoiceEnds == \A v \in VoiceSessions : voiceAt[v] \in Opened ~> voiceAt[v] = "ended"

(* What sessions of http/voice.rs keep whatever frames, timeouts and       *)
(* results meet: the slots, the frames of a session, the result of its     *)
(* command and the numbers of its orders.                                  *)
VoiceSafe == VoiceTypeOK /\ SlotsAreSessions /\ OneTerminalFrame /\ ToldIsStored /\ VolumeIsGiven
=============================================================================
