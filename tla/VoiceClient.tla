----------------------------- MODULE VoiceClient ----------------------------
(***************************************************************************)
(* Voice search in the browser: useVoiceSearch.ts, one VoiceSearchSession  *)
(* of voice.ts after the other, and the microphone of voiceBrowser.ts.     *)
(* JavaScript runs one callback at a time, so an action is one callback;   *)
(* what interleaves are the clicks of the user, the prompt and the capture *)
(* graph of the microphone, the socket, the audio and the wall timer.      *)
(*                                                                         *)
(* After each callback the fields terminalSeen and cancelled of a session  *)
(* follow from its state: both are only set together with "done".  The     *)
(* wall timer is armed from start() to "done".  The server may say what it *)
(* wants whenever the socket is open.                                      *)
(***************************************************************************)
EXTENDS Integers

CONSTANTS Attempts,   \* the sessions of one page
          NoAttempt,
          MaxSamples, \* MAX_SESSION_SAMPLES
          FrameSize,  \* CHUNK_SAMPLES
          MaxChunk    \* samples one callback of the microphone delivers

ASSUME VoiceClientAssumption ==
    /\ NoAttempt \notin Attempts
    /\ {MaxSamples, FrameSize, MaxChunk} \subseteq Nat \ {0}

VARIABLES tries,   \* the sessions
          session, \* sessionRef
          status,  \* what the panel shows
          output,  \* the session whose transcript or stations are shown
          left     \* the page was left and may have come back from the cache

clientVars == <<tries, session, status, output, left>>

-----------------------------------------------------------------------------
Phases == {"idle", "connecting", "recording", "processing", "done"}
Microphones == {"none", "asking", "opening", "open", "closed", "leaked"}
Sockets == {"none", "dialling", "open", "broken", "closed"}
Frames == {"nothing", "start", "audio", "commit", "cancel"}
Attempt == [phase : Phases, mic : Microphones, socket : Sockets,
            total : Nat, pending : Nat, \* totalSamples, pendingSamples
            sent : Nat, last : Frames,  \* what went out
            speech : {"none", "speech", "silence"}]

NewAttempt == [phase |-> "idle", mic |-> "none", socket |-> "none", total |-> 0,
               pending |-> 0, sent |-> 0, last |-> "nothing", speech |-> "none"]

ClientTypeOK ==
    /\ tries \in [Attempts -> Attempt]
    /\ {session, output} \subseteq Attempts \cup {NoAttempt}
    /\ status \in {"idle", "requesting", "recording", "processing", "result", "error"}
    /\ left \in BOOLEAN

ClientInit ==
    /\ tries = [a \in Attempts |-> NewAttempt]
    /\ session = NoAttempt /\ status = "idle" /\ output = NoAttempt /\ left = FALSE

InProgress(t) == t.phase \in {"connecting", "recording", "processing"}

-----------------------------------------------------------------------------
(* What the methods of a session do to it.  A socket that is not open      *)
(* drops what it is given.                                                 *)
Sends(t, frame) == IF t.socket = "open" THEN [t EXCEPT !.last = frame] ELSE t
SendRaw(t, n) ==
    IF n > 0 /\ t.socket = "open" THEN [t EXCEPT !.last = "audio", !.sent = @ + n] ELSE t

(* drainFrames: whole frames only.                                         *)
DrainFrames(t) ==
    [SendRaw(t, t.pending - (t.pending % FrameSize)) EXCEPT !.pending = t.pending % FrameSize]

ReleaseMicrophone(t) == [t EXCEPT !.mic = IF @ = "open" THEN "closed" ELSE @]

(* Mutant: the microphone is left to the garbage collector.                *)
FinishWithOpen(t) ==
    [t EXCEPT !.phase = "done", !.pending = 0,
              !.socket = IF @ = "none" THEN @ ELSE "closed"]

(* finishWith, and dispose for a session that has not ended.               *)
FinishWith(t) ==
    [ReleaseMicrophone(t) EXCEPT !.phase = "done", !.pending = 0,
                                 !.socket = IF @ = "none" THEN @ ELSE "closed"]

(* finish: the rest of the audio, then the commit.                         *)
Finish(t) ==
    LET drained == DrainFrames(ReleaseMicrophone(t))
        flushed == [SendRaw(drained, drained.pending) EXCEPT !.pending = 0]
    IN Sends([flushed EXCEPT !.phase = "processing"], "commit")

(* Mutant: the frame goes out in every state.                              *)
CancelAlways(t) == FinishWith(Sends(t, "cancel"))

(* cancel: the frame goes out unless the commit has.                       *)
Cancel(t) == FinishWith(IF t.phase = "recording" THEN Sends(t, "cancel") ELSE t)

-----------------------------------------------------------------------------
(* handleEvent: an event of a session changes the panel.  It does not ask  *)
(* which session it comes from.                                            *)
Becomes(a, t) == tries' = [tries EXCEPT ![a] = t]
PanelKept == UNCHANGED <<session, status, output, left>>
Ends(s, out) == status' = s /\ session' = NoAttempt /\ output' = out /\ UNCHANGED left

(* A session that fails: onEvent is called unless it has ended.            *)
FailsWith(a, t) ==
    IF tries[a].phase = "done"
    THEN Becomes(a, t) /\ PanelKept
    ELSE Becomes(a, FinishWith(t)) /\ Ends("error", output)

(* start of the hook and of the session, up to the prompt.                 *)
Start(a) ==
    /\ session = NoAttempt /\ tries[a].phase = "idle"
    /\ Becomes(a, [tries[a] EXCEPT !.phase = "connecting", !.mic = "asking"])
    /\ session' = a /\ status' = "requesting" /\ output' = NoAttempt /\ left' = FALSE

(* start in a browser that cannot record.                                  *)
Unsupported ==
    /\ session = NoAttempt
    /\ status' = "error" /\ output' = NoAttempt /\ left' = FALSE
    /\ UNCHANGED <<tries, session>>

(* The prompt is answered.  What follows it before the try block may throw *)
(* and leaves the tracks running.                                          *)
Granted(a) ==
    /\ tries[a].mic = "asking"
    /\ Becomes(a, [tries[a] EXCEPT !.mic = "opening"])
    /\ PanelKept

Denied(a) == tries[a].mic = "asking" /\ FailsWith(a, [tries[a] EXCEPT !.mic = "closed"])
GraphThrows(a) == tries[a].mic = "asking" /\ FailsWith(a, [tries[a] EXCEPT !.mic = "leaked"])
GraphFails(a) == tries[a].mic = "opening" /\ FailsWith(a, [tries[a] EXCEPT !.mic = "closed"])

(* The graph is built: start goes on, unless the session has ended.        *)
GraphReady(a) ==
    /\ tries[a].mic = "opening"
    /\ Becomes(a, IF tries[a].phase = "done" THEN [tries[a] EXCEPT !.mic = "closed"]
                  ELSE [tries[a] EXCEPT !.mic = "open", !.socket = "dialling"])
    /\ PanelKept

-----------------------------------------------------------------------------
SocketOpens(a) ==
    /\ tries[a].socket = "dialling"
    /\ Becomes(a, [tries[a] EXCEPT !.socket = "open", !.last = "start"])
    /\ PanelKept

(* The connection is lost, and the callback of the socket says so later.   *)
SocketBreaks(a) ==
    /\ tries[a].socket \in {"dialling", "open"}
    /\ Becomes(a, [tries[a] EXCEPT !.socket = "broken"])
    /\ PanelKept

Disconnected(a) ==
    /\ tries[a].socket = "broken" /\ InProgress(tries[a])
    /\ Becomes(a, FinishWith(tries[a])) /\ Ends("error", output)

(* finishAutomatically, for a session that records.                        *)
FinishAutomatically(a, t) ==
    \/ /\ t.speech = "silence"
       /\ Becomes(a, FinishWith(Sends(t, "cancel"))) /\ Ends("error", output)
    \/ /\ t.speech = "speech" \/ (t.speech = "none" /\ t.total >= MaxSamples)
       /\ Becomes(a, Finish(t)) /\ status' = "processing" /\ UNCHANGED <<session, output, left>>
    \/ /\ t.speech = "none" /\ t.total < MaxSamples
       /\ Becomes(a, t) /\ status' = "recording" /\ UNCHANGED <<session, output, left>>

(* The accepted part of a chunk is kept, and the detector is told.         *)
Accepted(t, n, s) ==
    [t EXCEPT !.total = @ + n, !.pending = @ + n, !.speech = s]

(* handleAudio, for n samples up to the limit; what the detector makes of  *)
(* them is s.                                                              *)
HandleAudio(a, n, s) ==
    LET t == tries[a] IN
    /\ t.mic \in {"opening", "open"} /\ t.phase \in {"connecting", "recording"}
    /\ n \in 1..MaxChunk /\ n <= MaxSamples - t.total
    /\ t.speech = "none" \/ s = t.speech
    /\ IF t.phase = "recording" THEN FinishAutomatically(a, DrainFrames(Accepted(t, n, s)))
       ELSE Becomes(a, Accepted(t, n, s)) /\ PanelKept

(* handleMessage, one action for each kind of message.                     *)
Ready(a) ==
    /\ tries[a].socket = "open" /\ tries[a].phase = "connecting"
    /\ FinishAutomatically(a, DrainFrames([tries[a] EXCEPT !.phase = "recording"]))

Transcript(a) ==
    /\ tries[a].socket = "open" /\ tries[a].phase \in {"recording", "processing"}
    /\ output' = a /\ UNCHANGED <<tries, session, status, left>>

Result(a) ==
    /\ tries[a].socket = "open" /\ InProgress(tries[a])
    /\ Becomes(a, FinishWith(tries[a])) /\ Ends("result", a)

ErrorMessage(a) ==
    /\ tries[a].socket = "open" /\ InProgress(tries[a])
    /\ Becomes(a, FinishWith(tries[a]))
    /\ Ends("error", output) \/ Ends("idle", NoAttempt)

(* The wall timer, armed while the session runs.                           *)
WallTimer(a) ==
    /\ InProgress(tries[a])
    /\ Becomes(a, FinishWith(tries[a])) /\ Ends("error", output)

(* The microphone button while a session runs.                             *)
Toggle ==
    /\ session # NoAttempt
    /\ Becomes(session, Cancel(tries[session])) /\ Ends("idle", NoAttempt)

(* teardown: the session is disposed of.                                   *)
Teardown ==
    /\ tries' = [a \in Attempts |-> IF a = session THEN FinishWith(tries[a]) ELSE tries[a]]
    /\ session' = NoAttempt

Dismiss ==
    /\ status # "idle" \/ left
    /\ Teardown /\ status' = "idle" /\ output' = NoAttempt /\ left' = FALSE

(* The page is left; it may come back as it was.                           *)
PageHide == session # NoAttempt /\ Teardown /\ left' = TRUE /\ UNCHANGED <<status, output>>

MicrophoneStep(a) ==
    \/ Granted(a) \/ Denied(a) \/ GraphThrows(a) \/ GraphFails(a) \/ GraphReady(a)
    \/ \E n \in 1..MaxChunk, s \in {"none", "speech", "silence"} : HandleAudio(a, n, s)
SocketStep(a) ==
    \/ SocketOpens(a) \/ SocketBreaks(a) \/ Disconnected(a)
    \/ Ready(a) \/ Transcript(a) \/ Result(a) \/ ErrorMessage(a)
ClientNext ==
    \/ \E a \in Attempts : Start(a) \/ MicrophoneStep(a) \/ SocketStep(a) \/ WallTimer(a)
    \/ Unsupported \/ Toggle \/ Dismiss \/ PageHide

ClientSpec == ClientInit /\ [][ClientNext]_clientVars

-----------------------------------------------------------------------------
(* A microphone that start() holds belongs to a session that still needs   *)
(* it, and to the only one: it is off as soon as the session has its audio *)
(* or has ended, whatever ended it.  A session that ended while the prompt *)
(* was open gets no socket, and nothing goes out for it.  (The tracks      *)
(* leaked by a constructor that throws are the exception of GraphThrows.)  *)
MicrophoneReleased ==
    \A a \in Attempts :
        /\ tries[a].mic = "open" => /\ tries[a].phase \in {"connecting", "recording"}
                                    /\ session = a
        /\ tries[a].socket \in {"dialling", "open", "broken"} => session = a
        /\ tries[a].mic \in {"asking", "opening"} => tries[a].last = "nothing"

(* Sessions do not overlap and the panel tells the truth: whatever order   *)
(* clicks, late prompts, messages and timers come in, the session in       *)
(* sessionRef is the one that runs, the panel shows its state, and what it *)
(* lists comes from the latest session; a cancel leaves nothing behind.    *)
PanelTellsTruth ==
    /\ \A a \in Attempts : InProgress(tries[a]) <=> session = a
    /\ session # NoAttempt =>
           /\ status = (IF tries[session].phase = "connecting" THEN "requesting"
                        ELSE tries[session].phase)
           /\ output \in {NoAttempt, session}
    /\ session = NoAttempt /\ ~left => status \in {"idle", "result", "error"}
    /\ status = "idle" => output = NoAttempt

(* The server gets the whole recording or no commit: the samples sent when *)
(* the commit is are all the samples taken, those from before "ready" and  *)
(* the last partial frame included, and never more than the limit.         *)
RecordingIsWhole ==
    \A a \in Attempts :
        /\ tries[a].last = "commit" => tries[a].sent = tries[a].total
        /\ tries[a].sent <= tries[a].total /\ tries[a].total <= MaxSamples
        /\ tries[a].sent > 0 => tries[a].last \notin {"nothing", "start"}

(* Nothing follows the commit or the cancel of a session, and an ended     *)
(* session sends nothing and stays ended.                                  *)
LastFrameIsLast ==
    [][\A a \in Attempts :
           tries[a].last \in {"commit", "cancel"} \/ tries[a].phase = "done"
           => /\ tries'[a].last = tries[a].last /\ tries'[a].sent = tries[a].sent
              /\ tries[a].phase = "done" => tries'[a].phase = "done"]_clientVars

(* The voice panel of the browser: the microphone is off when it should    *)
(* be, the panel shows the session that runs, and recordings are whole.    *)
PanelSafe == MicrophoneReleased /\ PanelTellsTruth /\ RecordingIsWhole
=============================================================================
