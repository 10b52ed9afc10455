------------------------ MODULE VoiceClient_proofs --------------------------
(***************************************************************************)
(* The voice panel of the browser for any number of sessions, any limit on *)
(* a recording and any size of frames and chunks.  PanelSafe does not      *)
(* survive a step by itself: that a recording is whole rests on how its    *)
(* microphone, its socket, its buffer and the last frame sent belong       *)
(* together in each phase, which is Shape.                                 *)
(***************************************************************************)
EXTENDS VoiceClient, TLAPS

(* The provers of a step, unless it names one, and their time.             *)
USE ZenonT(5), SMTT(30)

(* What a session is like in each phase.  While it records over an open    *)
(* socket every sample it took is sent or waits in the buffer; a socket    *)
(* that broke loses what the buffer gives it, but then no commit goes out. *)
Quiet(t) == t.sent = 0 /\ t.last = "nothing"
Idle(t) == t.phase = "idle" => t.mic = "none" /\ t.socket = "none" /\ t.pending = t.total
Connecting(t) ==
    t.phase = "connecting" =>
        /\ t.sent = 0 /\ t.pending = t.total /\ t.last \in {"nothing", "start"}
        /\ t.mic \in {"asking", "opening"} \/ (t.mic = "open" /\ t.socket # "none")
        /\ t.socket = "open" => t.last = "start"
        /\ t.socket # "closed"
Recording(t) ==
    t.phase = "recording" =>
        /\ t.mic = "open" /\ t.socket \in {"open", "broken"}
        /\ t.last \in {"start", "audio"}
        /\ t.socket = "open" => t.sent + t.pending = t.total
Processing(t) ==
    t.phase = "processing" =>
        /\ t.mic = "closed" /\ t.socket \in {"open", "broken"}
Done(t) == t.phase = "done" => t.mic # "open" /\ t.socket \in {"none", "closed"}
Counted(t) ==
    /\ t.sent + t.pending <= t.total /\ t.total <= MaxSamples
    /\ t.last \in {"commit", "cancel"} => t.phase \in {"processing", "done"}
    /\ t.last = "commit" => t.sent = t.total
    /\ t.sent > 0 => t.last \notin {"nothing", "start"}
    /\ t.mic \in {"asking", "opening"} => t.socket = "none"
    /\ t.socket \in {"none", "dialling"} => Quiet(t)
Shape(t) ==
    /\ Idle(t) /\ Connecting(t) /\ Recording(t) /\ Processing(t) /\ Done(t)
    /\ Counted(t)

ClientInv ==
    /\ ClientTypeOK
    /\ \A a \in Attempts : Shape(tries[a])
    /\ PanelTellsTruth

(* What LastFrameIsLast asks of the step of one session.                   *)
Kept(t, u) ==
    t.last \in {"commit", "cancel"} \/ t.phase = "done"
    => /\ u.last = t.last /\ u.sent = t.sent
       /\ t.phase = "done" => u.phase = "done"
Sound(t) == t \in Attempt /\ Shape(t)
Follows(t, u) == Sound(u) /\ Kept(t, u)

-----------------------------------------------------------------------------
(* Whole frames never exceed the buffer (drainFrames).                     *)
LEMMA RestOfFrames ==
    ASSUME NEW n \in Nat
    PROVE  n % FrameSize \in Nat /\ n % FrameSize <= n
<1>1. FrameSize \in Nat \ {0}
    BY VoiceClientAssumption
<1> QED BY <1>1, SMT

(* An update of one field leaves a session a session.                      *)
LEMMA FieldUpdates ==
    ASSUME NEW t \in Attempt
    PROVE  /\ \A v \in Phases : [t EXCEPT !.phase = v] \in Attempt
           /\ \A v \in Microphones : [t EXCEPT !.mic = v] \in Attempt
           /\ \A v \in Sockets : [t EXCEPT !.socket = v] \in Attempt
           /\ \A v \in Nat : [t EXCEPT !.total = v] \in Attempt
           /\ \A v \in Nat : [t EXCEPT !.pending = v] \in Attempt
           /\ \A v \in Nat : [t EXCEPT !.sent = v] \in Attempt
           /\ \A v \in Frames : [t EXCEPT !.last = v] \in Attempt
           /\ \A v \in {"none", "speech", "silence"} : [t EXCEPT !.speech = v] \in Attempt
<1>1. \A v \in Phases : [t EXCEPT !.phase = v] \in Attempt
    BY SMT DEF Attempt
<1>2. \A v \in Microphones : [t EXCEPT !.mic = v] \in Attempt
    BY SMT DEF Attempt
<1>3. \A v \in Sockets : [t EXCEPT !.socket = v] \in Attempt
    BY SMT DEF Attempt
<1>4. \A v \in Nat : [t EXCEPT !.total = v] \in Attempt
    BY SMT DEF Attempt
<1>5. \A v \in Nat : [t EXCEPT !.pending = v] \in Attempt
    BY SMT DEF Attempt
<1>6. \A v \in Nat : [t EXCEPT !.sent = v] \in Attempt
    BY SMT DEF Attempt
<1>7. \A v \in Frames : [t EXCEPT !.last = v] \in Attempt
    BY SMT DEF Attempt
<1>8. \A v \in {"none", "speech", "silence"} : [t EXCEPT !.speech = v] \in Attempt
    BY SMT DEF Attempt
<1> QED BY <1>1, <1>2, <1>3, <1>4, <1>5, <1>6, <1>7, <1>8

(* sendRaw: the buffer is not its business.                                *)
LEMMA SendRawFacts ==
    ASSUME NEW t \in Attempt, NEW n \in Nat, NEW r, r = SendRaw(t, n)
    PROVE  /\ r \in Attempt
           /\ r.phase = t.phase /\ r.mic = t.mic /\ r.socket = t.socket
           /\ r.total = t.total /\ r.pending = t.pending
           /\ r.sent = IF t.socket = "open" THEN t.sent + n ELSE t.sent
           /\ r.last = IF n > 0 /\ t.socket = "open" THEN "audio" ELSE t.last
<1>1. [t EXCEPT !.last = "audio", !.sent = t.sent + n] =
          [[t EXCEPT !.last = "audio"] EXCEPT !.sent = t.sent + n]
    BY SMT DEF Attempt
<1>2. t.sent \in Nat /\ t.sent + n \in Nat
    <2>1. t.sent \in Nat
        BY DEF Attempt
    <2> QED BY <2>1, SMT
<1>3. [[t EXCEPT !.last = "audio"] EXCEPT !.sent = t.sent + n] \in Attempt
    <2>1. [t EXCEPT !.last = "audio"] \in Attempt
        BY FieldUpdates DEF Frames
    <2> QED BY <1>2, <2>1, FieldUpdates
<1>4. r \in Attempt
    BY <1>1, <1>3 DEF SendRaw
<1>5. CASE n > 0 /\ t.socket = "open"
    BY <1>4, <1>5, SMT DEF SendRaw, Attempt
<1>6. CASE ~(n > 0 /\ t.socket = "open")
    BY <1>2, <1>4, <1>6, SMT DEF SendRaw
<1> QED BY <1>5, <1>6

(* send: the frame goes out over an open socket.                           *)
LEMMA SendsFacts ==
    ASSUME NEW t \in Attempt, NEW f \in Frames, NEW r, r = Sends(t, f)
    PROVE  /\ r \in Attempt
           /\ r.phase = t.phase /\ r.mic = t.mic /\ r.socket = t.socket
           /\ r.total = t.total /\ r.pending = t.pending /\ r.sent = t.sent
           /\ r.last = IF t.socket = "open" THEN f ELSE t.last
<1>1. r \in Attempt
    BY FieldUpdates DEF Sends
<1> QED BY <1>1, SMT DEF Sends, Attempt

(* releaseMicrophone.                                                      *)
LEMMA ReleaseFacts ==
    ASSUME NEW t \in Attempt, NEW r, r = ReleaseMicrophone(t)
    PROVE  /\ r \in Attempt
           /\ r.phase = t.phase /\ r.socket = t.socket
           /\ r.total = t.total /\ r.pending = t.pending /\ r.sent = t.sent
           /\ r.last = t.last
           /\ r.mic = IF t.mic = "open" THEN "closed" ELSE t.mic
<1>1. r \in Attempt
    BY SMT DEF ReleaseMicrophone, Attempt, Microphones
<1> QED BY <1>1, SMT DEF ReleaseMicrophone, Attempt

(* finishWith and dispose.                                                 *)
LEMMA FinishWithFacts ==
    ASSUME NEW t \in Attempt, NEW r, r = FinishWith(t)
    PROVE  /\ r \in Attempt
           /\ r.phase = "done" /\ r.total = t.total /\ r.pending = 0
           /\ r.sent = t.sent /\ r.last = t.last
           /\ r.mic = IF t.mic = "open" THEN "closed" ELSE t.mic
           /\ r.socket = IF t.socket = "none" THEN "none" ELSE "closed"
<1> DEFINE s == IF t.socket = "none" THEN "none" ELSE "closed"
<1>1. PICK u \in Attempt : u = ReleaseMicrophone(t)
    BY ReleaseFacts
<1>2. u.socket = t.socket
    BY <1>1, ReleaseFacts
<1>3. r = [u EXCEPT !.phase = "done", !.pending = 0, !.socket = s]
    BY <1>1, <1>2 DEF FinishWith
<1>4. s \in Sockets /\ "done" \in Phases /\ 0 \in Nat
    BY DEF Sockets, Phases
<1> HIDE DEF s
<1>5. r = [[[u EXCEPT !.phase = "done"] EXCEPT !.pending = 0] EXCEPT !.socket = s]
    BY <1>3, SMT DEF Attempt
<1>6. [u EXCEPT !.phase = "done"] \in Attempt
    BY <1>4, FieldUpdates
<1>7. [[u EXCEPT !.phase = "done"] EXCEPT !.pending = 0] \in Attempt
    BY <1>4, <1>6, FieldUpdates
<1>8. r \in Attempt
    <2>1. [[[u EXCEPT !.phase = "done"] EXCEPT !.pending = 0] EXCEPT !.socket = s] \in Attempt
        BY <1>4, <1>7, FieldUpdates
    <2> QED BY <1>5, <2>1
<1>9. /\ r.phase = "done" /\ r.total = u.total /\ r.pending = 0 /\ r.sent = u.sent
      /\ r.last = u.last /\ r.mic = u.mic /\ r.socket = s
    BY <1>3, SMT DEF Attempt
<1> QED BY <1>1, <1>8, <1>9, ReleaseFacts, SMT DEF s

(* drainFrames: what leaves the buffer is sent, over an open socket.       *)
LEMMA DrainFacts ==
    ASSUME NEW t \in Attempt, NEW r, r = DrainFrames(t)
    PROVE  /\ r \in Attempt
           /\ r.phase = t.phase /\ r.mic = t.mic /\ r.socket = t.socket
           /\ r.total = t.total
           /\ r.pending <= t.pending
           /\ r.sent = IF t.socket = "open" THEN t.sent + (t.pending - r.pending) ELSE t.sent
           /\ r.last = t.last \/ (r.last = "audio" /\ t.socket = "open")
           /\ r.sent > t.sent => r.last = "audio"
<1> DEFINE k == t.pending % FrameSize
           n == t.pending - k
<1>1. t.pending \in Nat /\ t.sent \in Nat
    BY DEF Attempt
<1>2. k \in Nat /\ k <= t.pending
    BY <1>1, RestOfFrames
<1> HIDE DEF k
<1>3. n \in Nat
    BY <1>1, <1>2, SMT
<1>4. r = [SendRaw(t, n) EXCEPT !.pending = k]
    BY DEF DrainFrames, k
<1> HIDE DEF n
<1>5. PICK u \in Attempt : u = SendRaw(t, n)
    BY <1>3, SendRawFacts
<1>6. /\ u.phase = t.phase /\ u.mic = t.mic /\ u.socket = t.socket
      /\ u.total = t.total
      /\ u.sent = IF t.socket = "open" THEN t.sent + n ELSE t.sent
      /\ u.last = IF n > 0 /\ t.socket = "open" THEN "audio" ELSE t.last
    BY <1>3, <1>5, SendRawFacts, SMT
<1>7. r \in Attempt
    <2>1. [u EXCEPT !.pending = k] \in Attempt
        BY <1>2, FieldUpdates
    <2> QED BY <1>4, <1>5, <2>1
<1>8. /\ r.phase = u.phase /\ r.mic = u.mic /\ r.socket = u.socket
      /\ r.total = u.total /\ r.sent = u.sent /\ r.last = u.last /\ r.pending = k
    BY <1>4, <1>5, SMT DEF Attempt
<1>9. r.pending <= t.pending
    BY <1>2, <1>8
<1>10. r.sent = IF t.socket = "open" THEN t.sent + (t.pending - r.pending) ELSE t.sent
    BY <1>6, <1>8 DEF n
<1>11. /\ r.last = t.last \/ (r.last = "audio" /\ t.socket = "open")
       /\ r.sent > t.sent => r.last = "audio"
    <2>1. CASE n > 0 /\ t.socket = "open"
        BY <1>6, <1>8, <2>1
    <2>2. CASE ~(n > 0) /\ t.socket = "open"
        <3>1. n = 0
            BY <1>3, <2>2, SMT
        <3>2. r.sent = t.sent
            BY <1>1, <1>6, <1>8, <2>2, <3>1, SMT
        <3> QED BY <1>1, <1>6, <1>8, <2>2, <3>2, SMT
    <2>3. CASE t.socket # "open"
        BY <1>1, <1>6, <1>8, <2>3, SMT
    <2> QED BY <2>1, <2>2, <2>3
<1> QED BY <1>6, <1>7, <1>8, <1>9, <1>10, <1>11

-----------------------------------------------------------------------------
(* The methods of a session keep its shape.  What is said of a session     *)
(* before its commit or cancel says nothing yet of its last frame.         *)
LEMMA EarlyKept ==
    ASSUME NEW t, NEW u, Sound(t), t.phase \in {"idle", "connecting", "recording"}
    PROVE  Kept(t, u)
<1>1. t.last \notin {"commit", "cancel"}
    BY DEF Sound, Shape, Counted
<1> QED BY <1>1 DEF Kept

(* A session that ends, whatever ends it, stays whole and silent.          *)
LEMMA FinishWithShape ==
    ASSUME NEW t, Sound(t)
    PROVE  Follows(t, FinishWith(t)) /\ FinishWith(t).phase = "done"
<1> DEFINE r == FinishWith(t)
<1>1. t \in Attempt
    BY DEF Sound
<1>2. /\ r \in Attempt
      /\ r.phase = "done" /\ r.total = t.total /\ r.pending = 0
      /\ r.sent = t.sent /\ r.last = t.last
      /\ r.mic = IF t.mic = "open" THEN "closed" ELSE t.mic
      /\ r.socket = IF t.socket = "none" THEN "none" ELSE "closed"
    BY <1>1, FinishWithFacts
<1>3. t.sent \in Nat /\ t.pending \in Nat /\ t.total \in Nat
    BY <1>1 DEF Attempt
<1>4. MaxSamples \in Nat
    BY VoiceClientAssumption
<1> HIDE DEF r
<1>5. Idle(r) /\ Connecting(r) /\ Recording(r) /\ Processing(r)
    BY <1>2 DEF Idle, Connecting, Recording, Processing
<1>6. Done(r)
    BY <1>2 DEF Done
<1>7. Counted(t)
    BY DEF Sound, Shape
<1>8. r.sent + r.pending <= r.total
    BY <1>2, <1>3, <1>7, SMT DEF Counted
<1>9. Counted(r)
    BY <1>2, <1>7, <1>8 DEF Counted, Quiet
<1> QED BY <1>2, <1>5, <1>6, <1>9 DEF Follows, Sound, Shape, Kept, r

(* A session that records still records after drainFrames, and has lost    *)
(* nothing if its socket is open.                                          *)
LEMMA DrainShape ==
    ASSUME NEW t, Sound(t), t.phase = "recording"
    PROVE  Sound(DrainFrames(t)) /\ DrainFrames(t).phase = "recording"
<1> DEFINE r == DrainFrames(t)
<1>1. t \in Attempt
    BY DEF Sound
<1>2. /\ r \in Attempt
      /\ r.phase = t.phase /\ r.mic = t.mic /\ r.socket = t.socket
      /\ r.total = t.total /\ r.pending <= t.pending
      /\ r.sent = IF t.socket = "open" THEN t.sent + (t.pending - r.pending) ELSE t.sent
      /\ r.last = t.last \/ (r.last = "audio" /\ t.socket = "open")
      /\ r.sent > t.sent => r.last = "audio"
    BY <1>1, DrainFacts
<1> HIDE DEF r
<1>3. /\ t.sent \in Nat /\ t.pending \in Nat /\ t.total \in Nat
      /\ r.sent \in Nat /\ r.pending \in Nat
    BY <1>1, <1>2 DEF Attempt
<1>4. Counted(t) /\ Recording(t)
    BY DEF Sound, Shape
<1>5. /\ t.mic = "open" /\ t.socket \in {"open", "broken"} /\ t.last \in {"start", "audio"}
      /\ t.socket = "open" => t.sent + t.pending = t.total
    BY <1>4 DEF Recording
<1>6. /\ t.sent + t.pending <= t.total /\ t.total <= MaxSamples
      /\ t.sent > 0 => t.last \notin {"nothing", "start"}
    BY <1>4 DEF Counted
<1>7. t.socket = "open" => r.sent + r.pending = r.total
    BY <1>2, <1>3, <1>5, SMT
<1>8. r.sent + r.pending <= r.total /\ r.total <= MaxSamples
    BY <1>2, <1>3, <1>6, SMT
<1>9. r.sent > 0 => r.last \notin {"nothing", "start"}
    <2>1. CASE r.sent > t.sent
        BY <1>2, <2>1
    <2>2. CASE ~(r.sent > t.sent)
        <3>1. r.sent > 0 => t.sent > 0
            BY <1>3, <2>2, SMT
        <3> QED BY <1>2, <1>6, <3>1
    <2> QED BY <2>1, <2>2
<1>10. Recording(r)
    BY <1>2, <1>5, <1>7 DEF Recording
<1>11. Counted(r)
    BY <1>2, <1>5, <1>8, <1>9 DEF Counted
<1>12. Idle(r) /\ Connecting(r) /\ Processing(r) /\ Done(r)
    BY <1>2 DEF Idle, Connecting, Processing, Done
<1> QED BY <1>2, <1>10, <1>11, <1>12 DEF Sound, Shape, r

(* finish: the microphone is released, the whole buffer goes out and the   *)
(* commit follows it, or the socket is broken and nothing goes out.        *)
LEMMA FinishShape ==
    ASSUME NEW t, Sound(t), t.phase = "recording"
    PROVE  Sound(Finish(t)) /\ Finish(t).phase = "processing"
<1> DEFINE a == ReleaseMicrophone(t)
           b == DrainFrames(a)
           c == SendRaw(b, b.pending)
           d == [c EXCEPT !.pending = 0]
           e == [d EXCEPT !.phase = "processing"]
           r == Sends(e, "commit")
<1>0. Finish(t) = r
    BY DEF Finish
<1>1. t \in Attempt /\ Counted(t) /\ Recording(t)
    BY DEF Sound, Shape
<1>2. /\ a \in Attempt /\ a.phase = t.phase /\ a.socket = t.socket
      /\ a.total = t.total /\ a.pending = t.pending /\ a.sent = t.sent
      /\ a.last = t.last /\ a.mic = "closed"
    BY <1>1, ReleaseFacts DEF Recording
<1> HIDE DEF a
<1>3. /\ b \in Attempt
      /\ b.mic = a.mic /\ b.socket = a.socket /\ b.total = a.total
      /\ b.pending <= a.pending
      /\ b.sent = IF a.socket = "open" THEN a.sent + (a.pending - b.pending) ELSE a.sent
      /\ b.last = a.last \/ (b.last = "audio" /\ a.socket = "open")
      /\ b.sent > a.sent => b.last = "audio"
    BY <1>2, DrainFacts
<1> HIDE DEF b
<1>4. b.pending \in Nat /\ b.sent \in Nat
    BY <1>3 DEF Attempt
<1>5. /\ c \in Attempt
      /\ c.mic = b.mic /\ c.socket = b.socket /\ c.total = b.total
      /\ c.sent = IF b.socket = "open" THEN b.sent + b.pending ELSE b.sent
      /\ c.last = IF b.pending > 0 /\ b.socket = "open" THEN "audio" ELSE b.last
    BY <1>3, <1>4, SendRawFacts, ZenonT(40)
<1> HIDE DEF c
<1>6. /\ d \in Attempt
      /\ d.mic = c.mic /\ d.socket = c.socket /\ d.total = c.total /\ d.sent = c.sent
      /\ d.last = c.last /\ d.pending = 0
    <2>1. 0 \in Nat
        BY SMT
    <2>2. d \in Attempt
        BY <1>5, <2>1, FieldUpdates
    <2> QED BY <1>5, <2>2, SMT DEF Attempt
<1> HIDE DEF d
<1>7. /\ e \in Attempt
      /\ e.mic = d.mic /\ e.socket = d.socket /\ e.total = d.total /\ e.sent = d.sent
      /\ e.last = d.last /\ e.pending = d.pending /\ e.phase = "processing"
    <2>1. e \in Attempt
        BY <1>6, FieldUpdates DEF Phases
    <2> QED BY <1>6, <2>1, SMT DEF Attempt
<1> HIDE DEF e
<1>8. /\ r \in Attempt
      /\ r.phase = "processing" /\ r.mic = e.mic /\ r.socket = e.socket
      /\ r.total = e.total /\ r.pending = e.pending /\ r.sent = e.sent
      /\ r.last = IF e.socket = "open" THEN "commit" ELSE e.last
    <2>1. "commit" \in Frames
        BY DEF Frames
    <2> QED BY <1>7, <2>1, SendsFacts, ZenonT(40)
<1> HIDE DEF r
<1>9. /\ t.sent \in Nat /\ t.pending \in Nat /\ t.total \in Nat
    BY <1>1 DEF Attempt
<1>10. /\ t.sent + t.pending <= t.total /\ t.total <= MaxSamples
       /\ t.socket \in {"open", "broken"} /\ t.last \in {"start", "audio"}
       /\ t.socket = "open" => t.sent + t.pending = t.total
       /\ t.sent > 0 => t.last \notin {"nothing", "start"}
    BY <1>1 DEF Counted, Recording
<1>11. r.mic = "closed" /\ r.socket = t.socket /\ r.total = t.total /\ r.pending = 0
    BY <1>2, <1>3, <1>5, <1>6, <1>7, <1>8, SMT
<1>12. CASE t.socket = "open"
    <2>1. r.last = "commit"
        BY <1>2, <1>3, <1>5, <1>6, <1>7, <1>8, <1>12
    <2>2. r.sent = b.sent + b.pending /\ b.sent = t.sent + (t.pending - b.pending)
        BY <1>2, <1>3, <1>5, <1>6, <1>7, <1>8, <1>12, SMT
    <2>3. r.sent = r.total /\ r.sent + r.pending <= r.total /\ r.total <= MaxSamples
        BY <1>4, <1>9, <1>10, <1>11, <1>12, <2>2, SMT
    <2>4. Counted(r)
        BY <1>8, <1>11, <1>12, <2>1, <2>3 DEF Counted
    <2>5. Idle(r) /\ Connecting(r) /\ Recording(r) /\ Processing(r) /\ Done(r)
        BY <1>8, <1>11, <1>12 DEF Idle, Connecting, Recording, Processing, Done
    <2> QED BY <1>0, <1>8, <2>4, <2>5 DEF Sound, Shape
<1>13. CASE t.socket = "broken"
    <2>1. r.last = t.last /\ r.sent = t.sent
        BY <1>2, <1>3, <1>5, <1>6, <1>7, <1>8, <1>13, SMT
    <2>2. r.sent + r.pending <= r.total /\ r.total <= MaxSamples
        BY <1>9, <1>10, <1>11, <2>1, SMT
    <2>3. Counted(r)
        BY <1>8, <1>10, <1>11, <1>13, <2>1, <2>2 DEF Counted
    <2>4. Idle(r) /\ Connecting(r) /\ Recording(r) /\ Processing(r) /\ Done(r)
        BY <1>8, <1>11, <1>13 DEF Idle, Connecting, Recording, Processing, Done
    <2> QED BY <1>0, <1>8, <2>3, <2>4 DEF Sound, Shape
<1> QED BY <1>10, <1>12, <1>13

(* A session that records may send a cancel and end.                       *)
LEMMA CancelledShape ==
    ASSUME NEW t, Sound(t), t.phase = "recording"
    PROVE  LET r == FinishWith(Sends(t, "cancel")) IN Sound(r) /\ r.phase = "done"
<1> DEFINE u == Sends(t, "cancel")
           r == FinishWith(u)
<1>1. t \in Attempt /\ Counted(t) /\ Recording(t)
    BY DEF Sound, Shape
<1>2. /\ u \in Attempt
      /\ u.mic = t.mic /\ u.socket = t.socket
      /\ u.total = t.total /\ u.sent = t.sent
      /\ u.last = IF t.socket = "open" THEN "cancel" ELSE t.last
    BY <1>1, SendsFacts DEF Frames
<1> HIDE DEF u
<1>3. /\ r \in Attempt
      /\ r.phase = "done" /\ r.total = u.total /\ r.pending = 0
      /\ r.sent = u.sent /\ r.last = u.last
      /\ r.mic = IF u.mic = "open" THEN "closed" ELSE u.mic
      /\ r.socket = IF u.socket = "none" THEN "none" ELSE "closed"
    BY <1>2, FinishWithFacts
<1> HIDE DEF r
<1>4. /\ t.sent \in Nat /\ t.pending \in Nat /\ t.total \in Nat
    BY <1>1 DEF Attempt
<1>5. /\ t.sent + t.pending <= t.total /\ t.total <= MaxSamples
      /\ t.mic = "open" /\ t.socket \in {"open", "broken"} /\ t.last \in {"start", "audio"}
      /\ t.sent > 0 => t.last \notin {"nothing", "start"}
    BY <1>1 DEF Counted, Recording
<1>6. r.sent + r.pending <= r.total /\ r.total <= MaxSamples
    BY <1>2, <1>3, <1>4, <1>5, SMT
<1>7. /\ r.last \in {"cancel", "start", "audio"} /\ r.mic = "closed" /\ r.socket = "closed"
      /\ r.sent > 0 => r.last \notin {"nothing", "start"}
    BY <1>2, <1>3, <1>5
<1>8. Counted(r)
    BY <1>3, <1>6, <1>7 DEF Counted
<1>9. Idle(r) /\ Connecting(r) /\ Recording(r) /\ Processing(r) /\ Done(r)
    BY <1>3, <1>7 DEF Idle, Connecting, Recording, Processing, Done
<1> QED BY <1>3, <1>8, <1>9 DEF Sound, Shape, r, u

(* cancel, in any phase: the frame goes out only while it records.         *)
LEMMA CancelShape ==
    ASSUME NEW t, Sound(t)
    PROVE  Follows(t, Cancel(t)) /\ Cancel(t).phase = "done"
<1>1. CASE t.phase = "recording"
    <2>1. Cancel(t) = FinishWith(Sends(t, "cancel"))
        BY <1>1 DEF Cancel
    <2>2. Sound(Cancel(t)) /\ Cancel(t).phase = "done"
        BY <1>1, <2>1, CancelledShape
    <2>3. Kept(t, Cancel(t))
        BY <1>1, EarlyKept
    <2> QED BY <2>2, <2>3 DEF Follows
<1>2. CASE t.phase # "recording"
    BY <1>2, FinishWithShape DEF Cancel
<1> QED BY <1>1, <1>2

(* A microphone that is refused or cannot be opened: nothing has been sent *)
(* for the session, and it ends unless it has ended already.               *)
LEMMA FailedShape ==
    ASSUME NEW t, Sound(t), t.mic \in {"asking", "opening"},
           NEW m \in {"closed", "leaked"}, NEW u, u = [t EXCEPT !.mic = m]
    PROVE  /\ t.phase \in {"connecting", "done"}
           /\ t.phase = "done" => Follows(t, u) /\ u.phase = "done"
           /\ Follows(t, FinishWith(u)) /\ FinishWith(u).phase = "done"
<1> DEFINE r == FinishWith(u)
<1>1. t \in Attempt /\ Counted(t)
    BY DEF Sound, Shape
<1>2. /\ u \in Attempt
      /\ u.phase = t.phase /\ u.mic = m /\ u.socket = t.socket /\ u.total = t.total
      /\ u.pending = t.pending /\ u.sent = t.sent /\ u.last = t.last
    <2>1. u \in Attempt
        BY <1>1, FieldUpdates DEF Microphones
    <2> QED BY <1>1, <2>1, SMT DEF Attempt
<1>3. /\ r \in Attempt
      /\ r.phase = "done" /\ r.total = u.total /\ r.pending = 0
      /\ r.sent = u.sent /\ r.last = u.last
      /\ r.mic = IF u.mic = "open" THEN "closed" ELSE u.mic
      /\ r.socket = IF u.socket = "none" THEN "none" ELSE "closed"
    BY <1>2, FinishWithFacts
<1> HIDE DEF r
<1>4. t.socket = "none" /\ t.sent = 0 /\ t.last = "nothing"
    BY <1>1 DEF Counted, Quiet
<1>5. t.phase \in {"connecting", "done"}
    <2>1. t.phase \in Phases
        BY <1>1 DEF Attempt
    <2>2. t.phase \notin {"idle", "recording", "processing"}
        BY DEF Sound, Shape, Idle, Recording, Processing
    <2> QED BY <2>1, <2>2 DEF Phases
<1>6. /\ t.total \in Nat /\ t.pending \in Nat
      /\ t.sent + t.pending <= t.total /\ t.total <= MaxSamples
    BY <1>1 DEF Attempt, Counted
<1>7. r.sent + r.pending <= r.total /\ r.total <= MaxSamples /\ ~(r.sent > 0)
    BY <1>2, <1>3, <1>4, <1>6, SMT
<1>8. Counted(r)
    BY <1>2, <1>3, <1>4, <1>7 DEF Counted, Quiet
<1>9. Idle(r) /\ Connecting(r) /\ Recording(r) /\ Processing(r) /\ Done(r)
    BY <1>2, <1>3, <1>4 DEF Idle, Connecting, Recording, Processing, Done
<1>10. Kept(t, r)
    BY <1>2, <1>3 DEF Kept
<1>11. ASSUME t.phase = "done" PROVE Follows(t, u)
    <2>1. ~(u.sent > 0)
        BY <1>2, <1>4, SMT
    <2>2. Counted(u)
        BY <1>2, <1>4, <1>6, <2>1 DEF Counted, Quiet
    <2>3. Idle(u) /\ Connecting(u) /\ Recording(u) /\ Processing(u) /\ Done(u)
        BY <1>2, <1>4, <1>11 DEF Idle, Connecting, Recording, Processing, Done
    <2> QED BY <1>2, <2>2, <2>3 DEF Follows, Sound, Shape, Kept
<1> QED BY <1>2, <1>3, <1>5, <1>8, <1>9, <1>10, <1>11 DEF Follows, Sound, Shape, r

-----------------------------------------------------------------------------
(* What a callback does to the sessions and to the panel.                  *)
AllKept == \A b \in Attempts : Kept(tries[b], tries'[b])

(* A callback changes its own session only.                                *)
LEMMA OneSession ==
    ASSUME ClientInv, NEW a \in Attempts, NEW u, Becomes(a, u), Follows(tries[a], u)
    PROVE  /\ tries' \in [Attempts -> Attempt]
           /\ \A b \in Attempts : Shape(tries'[b])
           /\ AllKept
           /\ tries'[a] = u
           /\ \A b \in Attempts : b # a => tries'[b] = tries[b]
<1>1. tries \in [Attempts -> Attempt] /\ \A b \in Attempts : Shape(tries[b])
    BY DEF ClientInv, ClientTypeOK
<1>2. u \in Attempt /\ Shape(u) /\ Kept(tries[a], u)
    BY DEF Follows, Sound
<1>3. /\ tries' \in [Attempts -> Attempt] /\ tries'[a] = u
      /\ \A b \in Attempts : b # a => tries'[b] = tries[b]
    BY <1>1, <1>2 DEF Becomes
<1>4. \A b \in Attempts : Shape(tries'[b])
    BY <1>1, <1>2, <1>3
<1>5. \A b \in Attempts : Kept(tries[b], tries'[b])
    BY <1>2, <1>3 DEF Kept
<1> QED BY <1>3, <1>4, <1>5 DEF AllKept

(* An event that ends the session that runs empties sessionRef.            *)
LEMMA EndsStep ==
    ASSUME ClientInv, NEW a \in Attempts, NEW u, Becomes(a, u), Follows(tries[a], u),
           u.phase = "done", session = a,
           NEW s \in {"idle", "result", "error"}, NEW out \in {output, NoAttempt, a},
           Ends(s, out), s = "idle" => out = NoAttempt
    PROVE  ClientInv' /\ AllKept
<1>1. /\ tries' \in [Attempts -> Attempt]
      /\ \A b \in Attempts : Shape(tries'[b])
      /\ AllKept
      /\ tries'[a] = u
      /\ \A b \in Attempts : b # a => tries'[b] = tries[b]
    BY OneSession
<1>2. ClientTypeOK /\ PanelTellsTruth
    BY DEF ClientInv
<1>3. status' = s /\ session' = NoAttempt /\ output' = out /\ left' = left
    BY DEF Ends
<1>4. ClientTypeOK'
    BY <1>1, <1>2, <1>3 DEF ClientTypeOK
<1>5. \A b \in Attempts : ~InProgress(tries'[b])
    <2>1. ~InProgress(u)
        BY DEF InProgress
    <2>2. \A b \in Attempts : b # a => ~InProgress(tries[b])
        BY <1>2 DEF PanelTellsTruth
    <2> QED BY <1>1, <2>1, <2>2 DEF InProgress
<1>6. \A b \in Attempts : session' # b
    BY <1>3, VoiceClientAssumption
<1>7. PanelTellsTruth'
    BY <1>3, <1>5, <1>6 DEF PanelTellsTruth, InProgress
<1> QED BY <1>1, <1>4, <1>7 DEF ClientInv

(* A callback that the panel does not hear of leaves its phase alone.      *)
LEMMA QuietStep ==
    ASSUME ClientInv, NEW a \in Attempts, NEW u, Becomes(a, u), Follows(tries[a], u),
           u.phase = tries[a].phase, PanelKept
    PROVE  ClientInv' /\ AllKept
<1>1. /\ tries' \in [Attempts -> Attempt]
      /\ \A b \in Attempts : Shape(tries'[b])
      /\ AllKept
      /\ tries'[a] = u
      /\ \A b \in Attempts : b # a => tries'[b] = tries[b]
    BY OneSession
<1>2. ClientTypeOK /\ PanelTellsTruth
    BY DEF ClientInv
<1>3. session' = session /\ status' = status /\ output' = output /\ left' = left
    BY DEF PanelKept
<1>4. ClientTypeOK'
    BY <1>1, <1>2, <1>3 DEF ClientTypeOK
<1>5. \A b \in Attempts : tries'[b].phase = tries[b].phase
    BY <1>1
<1>6. session # NoAttempt => session \in Attempts
    BY <1>2 DEF ClientTypeOK
<1>7. PanelTellsTruth'
    BY <1>2, <1>3, <1>5, <1>6 DEF PanelTellsTruth, InProgress
<1> QED BY <1>1, <1>4, <1>7 DEF ClientInv

(* A session that starts or stops recording tells the panel.               *)
LEMMA MovesStep ==
    ASSUME ClientInv, NEW a \in Attempts, NEW u, Becomes(a, u), Follows(tries[a], u),
           session = a, u.phase \in {"recording", "processing"},
           status' = u.phase, UNCHANGED <<session, output, left>>
    PROVE  ClientInv' /\ AllKept
<1>1. /\ tries' \in [Attempts -> Attempt]
      /\ \A b \in Attempts : Shape(tries'[b])
      /\ AllKept
      /\ tries'[a] = u
      /\ \A b \in Attempts : b # a => tries'[b] = tries[b]
    BY OneSession
<1>2. ClientTypeOK /\ PanelTellsTruth
    BY DEF ClientInv
<1>3. session' = a /\ status' = u.phase /\ output' = output /\ left' = left
    OBVIOUS
<1>4. ClientTypeOK'
    BY <1>1, <1>2, <1>3 DEF ClientTypeOK
<1>5. \A b \in Attempts : InProgress(tries'[b]) <=> session' = b
    <2>1. InProgress(u)
        BY DEF InProgress
    <2>2. \A b \in Attempts : b # a => ~InProgress(tries[b])
        BY <1>2 DEF PanelTellsTruth
    <2> QED BY <1>1, <1>3, <2>1, <2>2 DEF InProgress
<1>6. session' # NoAttempt
    BY <1>3, VoiceClientAssumption
<1>7. output \in {NoAttempt, a}
    BY <1>2, VoiceClientAssumption DEF PanelTellsTruth
<1>8. PanelTellsTruth'
    BY <1>1, <1>3, <1>5, <1>6, <1>7 DEF PanelTellsTruth, InProgress
<1> QED BY <1>1, <1>4, <1>8 DEF ClientInv

(* A session of the invariant, and the session that runs.                  *)
LEMMA SessionFacts ==
    ASSUME ClientInv, NEW a \in Attempts
    PROVE  /\ Sound(tries[a])
           /\ InProgress(tries[a]) <=> session = a
<1>1. tries[a] \in Attempt
    BY DEF ClientInv, ClientTypeOK
<1> QED BY <1>1 DEF ClientInv, Sound, PanelTellsTruth

-----------------------------------------------------------------------------
(* start of a session.                                                     *)
LEMMA StartStep ==
    ASSUME ClientInv, NEW a \in Attempts, Start(a)
    PROVE  ClientInv' /\ AllKept
<1> DEFINE t == tries[a]
           u == [t EXCEPT !.phase = "connecting", !.mic = "asking"]
<1>1. session = NoAttempt /\ t.phase = "idle" /\ Becomes(a, u)
    BY DEF Start
<1>2. session' = a /\ status' = "requesting" /\ output' = NoAttempt /\ left' = FALSE
    BY DEF Start
<1>3. Sound(t) /\ t \in Attempt /\ Counted(t)
    BY SessionFacts DEF Sound, Shape
<1>4. t.mic = "none" /\ t.socket = "none" /\ t.pending = t.total /\ t.sent = 0
      /\ t.last = "nothing"
    BY <1>1, <1>3 DEF Sound, Shape, Idle, Counted, Quiet
<1> HIDE DEF t
<1>5. u \in Attempt
    <2>1. u = [[t EXCEPT !.phase = "connecting"] EXCEPT !.mic = "asking"]
        BY <1>3, SMT DEF Attempt
    <2>2. [t EXCEPT !.phase = "connecting"] \in Attempt
        BY <1>3, FieldUpdates DEF Phases
    <2> QED BY <2>1, <2>2, FieldUpdates DEF Microphones
<1>6. /\ u.phase = "connecting" /\ u.mic = "asking" /\ u.socket = t.socket
      /\ u.total = t.total /\ u.pending = t.pending /\ u.sent = t.sent /\ u.last = t.last
    BY <1>3, SMT DEF Attempt
<1> HIDE DEF u
<1>7. Follows(t, u)
    <2>1. /\ u.sent + u.pending <= u.total /\ u.total <= MaxSamples
          /\ u.sent > 0 => u.last \notin {"nothing", "start"}
        BY <1>3, <1>6 DEF Counted
    <2>2. Counted(u)
        BY <1>4, <1>6, <2>1 DEF Counted, Quiet
    <2>3. Idle(u) /\ Connecting(u) /\ Recording(u) /\ Processing(u) /\ Done(u)
        BY <1>4, <1>6 DEF Idle, Connecting, Recording, Processing, Done
    <2>4. Kept(t, u)
        BY <1>1, <1>3, EarlyKept
    <2> QED BY <1>5, <2>2, <2>3, <2>4 DEF Follows, Sound, Shape
<1>8. /\ tries' \in [Attempts -> Attempt]
      /\ \A b \in Attempts : Shape(tries'[b])
      /\ AllKept
      /\ tries'[a] = u
      /\ \A b \in Attempts : b # a => tries'[b] = tries[b]
    BY <1>1, <1>7, OneSession DEF t
<1>9. ClientTypeOK'
    BY <1>2, <1>8 DEF ClientTypeOK
<1>10. \A b \in Attempts : InProgress(tries'[b]) <=> session' = b
    <2>1. \A b \in Attempts : ~InProgress(tries[b])
        BY <1>1, SessionFacts, VoiceClientAssumption
    <2> QED BY <1>2, <1>6, <1>8, <2>1 DEF InProgress
<1>11. session' # NoAttempt
    BY <1>2, VoiceClientAssumption
<1>12. PanelTellsTruth'
    BY <1>2, <1>6, <1>8, <1>10, <1>11 DEF PanelTellsTruth
<1> QED BY <1>8, <1>9, <1>12 DEF ClientInv

(* A refused microphone and a capture graph that fails.                    *)
LEMMA FailsStep ==
    ASSUME ClientInv, NEW a \in Attempts, tries[a].mic \in {"asking", "opening"},
           NEW m \in {"closed", "leaked"}, FailsWith(a, [tries[a] EXCEPT !.mic = m])
    PROVE  ClientInv' /\ AllKept
<1> DEFINE t == tries[a]
           u == [t EXCEPT !.mic = m]
<1>1. Sound(t)
    BY SessionFacts
<1>2. /\ t.phase \in {"connecting", "done"}
      /\ t.phase = "done" => Follows(t, u) /\ u.phase = "done"
      /\ Follows(t, FinishWith(u)) /\ FinishWith(u).phase = "done"
    <2> HIDE DEF t
    <2>1. t.mic \in {"asking", "opening"}
        BY DEF t
    <2> QED BY <1>1, <2>1, FailedShape
<1>3. CASE t.phase = "done"
    <2>1. Becomes(a, u) /\ PanelKept
        BY <1>3 DEF FailsWith
    <2> QED BY <1>2, <1>3, <2>1, QuietStep
<1>4. CASE t.phase # "done"
    <2>1. Becomes(a, FinishWith(u)) /\ Ends("error", output)
        BY <1>4 DEF FailsWith
    <2>2. session = a
        BY <1>2, <1>4, SessionFacts DEF InProgress
    <2> QED BY <1>2, <2>1, <2>2, EndsStep
<1> QED BY <1>3, <1>4

(* A session whose microphone is being opened, or is open before it talks, *)
(* is changed in fields that its phase does not look at.                   *)
LEMMA GrantedStep ==
    ASSUME ClientInv, NEW a \in Attempts, Granted(a)
    PROVE  ClientInv' /\ AllKept
<1> DEFINE t == tries[a]
           u == [t EXCEPT !.mic = "opening"]
<1>1. t.mic = "asking" /\ Becomes(a, u) /\ PanelKept
    BY DEF Granted
<1>2. Sound(t) /\ t \in Attempt
    BY SessionFacts DEF Sound
<1> HIDE DEF t
<1>3. /\ u \in Attempt
      /\ u.phase = t.phase /\ u.mic = "opening" /\ u.socket = t.socket
      /\ u.total = t.total /\ u.pending = t.pending /\ u.sent = t.sent /\ u.last = t.last
    <2>1. u \in Attempt
        BY <1>2, FieldUpdates DEF Microphones
    <2> QED BY <1>2, <2>1, SMT DEF Attempt
<1> HIDE DEF u
<1>4. Counted(u)
    BY <1>1, <1>2, <1>3 DEF Sound, Shape, Counted, Quiet
<1>5. Idle(u) /\ Connecting(u)
    BY <1>1, <1>2, <1>3 DEF Sound, Shape, Idle, Connecting
<1>6. Recording(u) /\ Processing(u) /\ Done(u)
    BY <1>1, <1>2, <1>3 DEF Sound, Shape, Recording, Processing, Done
<1>7. Follows(t, u)
    BY <1>3, <1>4, <1>5, <1>6 DEF Follows, Sound, Shape, Kept
<1> QED BY <1>1, <1>3, <1>7, QuietStep DEF t

(* The capture graph is ready: the session dials, or has ended and lets    *)
(* the microphone go.                                                      *)
LEMMA GraphReadyStep ==
    ASSUME ClientInv, NEW a \in Attempts, GraphReady(a)
    PROVE  ClientInv' /\ AllKept
<1> DEFINE t == tries[a]
           u == [t EXCEPT !.mic = "open", !.socket = "dialling"]
           v == [t EXCEPT !.mic = "closed"]
<1>1. t.mic = "opening" /\ PanelKept /\ Becomes(a, IF t.phase = "done" THEN v ELSE u)
    BY DEF GraphReady
<1>2. Sound(t) /\ t \in Attempt /\ Counted(t)
    BY SessionFacts DEF Sound, Shape
<1> HIDE DEF t
<1>3. /\ t.phase \in {"connecting", "done"}
      /\ t.phase = "done" => Follows(t, v) /\ v.phase = "done"
    BY <1>1, <1>2, FailedShape
<1>4. CASE t.phase = "done"
    BY <1>1, <1>3, <1>4, QuietStep DEF t
<1>5. CASE t.phase = "connecting"
    <2>1. u \in Attempt
        <3>1. u = [[t EXCEPT !.mic = "open"] EXCEPT !.socket = "dialling"]
            BY <1>2, SMT DEF Attempt
        <3>2. [t EXCEPT !.mic = "open"] \in Attempt
            BY <1>2, FieldUpdates DEF Microphones
        <3> QED BY <3>1, <3>2, FieldUpdates DEF Sockets
    <2>2. /\ u.phase = t.phase /\ u.mic = "open" /\ u.socket = "dialling"
          /\ u.total = t.total /\ u.pending = t.pending /\ u.sent = t.sent
          /\ u.last = t.last
        BY <1>2, SMT DEF Attempt
    <2> HIDE DEF u
    <2>3. t.sent = 0 /\ t.last = "nothing" /\ t.pending = t.total
        BY <1>1, <1>2, <1>5 DEF Sound, Shape, Connecting, Counted, Quiet
    <2>4. Counted(u)
        BY <1>2, <1>5, <2>2, <2>3 DEF Counted, Quiet
    <2>5. Idle(u) /\ Connecting(u) /\ Recording(u) /\ Processing(u) /\ Done(u)
        BY <1>5, <2>2, <2>3 DEF Idle, Connecting, Recording, Processing, Done
    <2>6. Kept(t, u)
        BY <1>2, <1>5, EarlyKept
    <2>7. Follows(t, u)
        BY <2>1, <2>4, <2>5, <2>6 DEF Follows, Sound, Shape
    <2>8. Becomes(a, u)
        BY <1>1, <1>5
    <2> QED BY <1>1, <2>2, <2>7, <2>8, QuietStep DEF t
<1> QED BY <1>3, <1>4, <1>5

(* The socket opens and the start frame goes out.                          *)
LEMMA SocketOpensStep ==
    ASSUME ClientInv, NEW a \in Attempts, SocketOpens(a)
    PROVE  ClientInv' /\ AllKept
<1> DEFINE t == tries[a]
           u == [t EXCEPT !.socket = "open", !.last = "start"]
<1>1. t.socket = "dialling" /\ Becomes(a, u) /\ PanelKept
    BY DEF SocketOpens
<1>2. Sound(t) /\ t \in Attempt /\ Counted(t)
    BY SessionFacts DEF Sound, Shape
<1> HIDE DEF t
<1>3. t.phase = "connecting"
    <2>1. t.phase \in Phases
        BY <1>2 DEF Attempt
    <2>2. t.phase \notin {"idle", "recording", "processing", "done"}
        BY <1>1, <1>2 DEF Sound, Shape, Idle, Recording, Processing, Done
    <2> QED BY <2>1, <2>2 DEF Phases
<1>4. t.sent = 0 /\ t.pending = t.total /\ t.mic = "open"
    BY <1>1, <1>2, <1>3 DEF Sound, Shape, Connecting, Counted
<1>5. u \in Attempt
    <2>1. u = [[t EXCEPT !.socket = "open"] EXCEPT !.last = "start"]
        BY <1>2, SMT DEF Attempt
    <2>2. [t EXCEPT !.socket = "open"] \in Attempt
        BY <1>2, FieldUpdates DEF Sockets
    <2> QED BY <2>1, <2>2, FieldUpdates DEF Frames
<1>6. /\ u.phase = t.phase /\ u.mic = t.mic /\ u.socket = "open" /\ u.last = "start"
      /\ u.total = t.total /\ u.pending = t.pending /\ u.sent = t.sent
    BY <1>2, SMT DEF Attempt
<1> HIDE DEF u
<1>7. ~(u.sent > 0)
    BY <1>4, <1>6, SMT
<1>8. Counted(u)
    BY <1>2, <1>4, <1>6, <1>7 DEF Counted
<1>9. Idle(u) /\ Connecting(u) /\ Recording(u) /\ Processing(u) /\ Done(u)
    BY <1>3, <1>4, <1>6 DEF Idle, Connecting, Recording, Processing, Done
<1>10. Kept(t, u)
    BY <1>2, <1>3, EarlyKept
<1>11. Follows(t, u)
    BY <1>5, <1>8, <1>9, <1>10 DEF Follows, Sound, Shape
<1> QED BY <1>1, <1>6, <1>11, QuietStep DEF t

(* The connection is lost: what is in the buffer will not go out.          *)
LEMMA SocketBreaksStep ==
    ASSUME ClientInv, NEW a \in Attempts, SocketBreaks(a)
    PROVE  ClientInv' /\ AllKept
<1> DEFINE t == tries[a]
           u == [t EXCEPT !.socket = "broken"]
<1>1. t.socket \in {"dialling", "open"} /\ Becomes(a, u) /\ PanelKept
    BY DEF SocketBreaks
<1>2. Sound(t) /\ t \in Attempt /\ Counted(t)
    BY SessionFacts DEF Sound, Shape
<1> HIDE DEF t
<1>3. /\ u \in Attempt
      /\ u.phase = t.phase /\ u.mic = t.mic /\ u.socket = "broken"
      /\ u.total = t.total /\ u.pending = t.pending /\ u.sent = t.sent /\ u.last = t.last
    <2>1. u \in Attempt
        BY <1>2, FieldUpdates DEF Sockets
    <2> QED BY <1>2, <2>1, SMT DEF Attempt
<1> HIDE DEF u
<1>4. Counted(u)
    BY <1>1, <1>2, <1>3 DEF Counted
<1>5. Idle(u) /\ Connecting(u)
    BY <1>1, <1>2, <1>3 DEF Sound, Shape, Idle, Connecting, Counted
<1>6. Recording(u) /\ Processing(u) /\ Done(u)
    BY <1>1, <1>2, <1>3 DEF Sound, Shape, Recording, Processing, Done
<1>7. Follows(t, u)
    BY <1>3, <1>4, <1>5, <1>6 DEF Follows, Sound, Shape, Kept
<1> QED BY <1>1, <1>3, <1>7, QuietStep DEF t

(* Everything that ends a session which runs: a lost connection, a result, *)
(* an error of the server, the wall timer.                                 *)
LEMMA EndingStep ==
    ASSUME ClientInv, NEW a \in Attempts,
           Disconnected(a) \/ Result(a) \/ ErrorMessage(a) \/ WallTimer(a)
    PROVE  ClientInv' /\ AllKept
<1>1. InProgress(tries[a]) /\ Becomes(a, FinishWith(tries[a]))
    BY DEF Disconnected, Result, ErrorMessage, WallTimer
<1>2. Sound(tries[a]) /\ session = a
    BY <1>1, SessionFacts
<1>3. Follows(tries[a], FinishWith(tries[a])) /\ FinishWith(tries[a]).phase = "done"
    BY <1>2, FinishWithShape
<1>4. Ends("error", output) \/ Ends("result", a) \/ Ends("idle", NoAttempt)
    BY DEF Disconnected, Result, ErrorMessage, WallTimer
<1>5. CASE Ends("error", output)
    BY <1>1, <1>2, <1>3, <1>5, EndsStep
<1>6. CASE Ends("result", a)
    BY <1>1, <1>2, <1>3, <1>6, EndsStep
<1>7. CASE Ends("idle", NoAttempt)
    BY <1>1, <1>2, <1>3, <1>7, EndsStep
<1> QED BY <1>4, <1>5, <1>6, <1>7

(* finishAutomatically: the recording goes on, is committed or is dropped. *)
LEMMA AutomaticStep ==
    ASSUME ClientInv, NEW a \in Attempts, NEW t, Sound(t), t.phase = "recording",
           tries[a].phase \in {"connecting", "recording"}, FinishAutomatically(a, t)
    PROVE  ClientInv' /\ AllKept
<1>1. Sound(tries[a]) /\ session = a
    BY SessionFacts DEF InProgress
<1>2. \A u : Kept(tries[a], u)
    BY <1>1, EarlyKept
<1>3. CASE Becomes(a, FinishWith(Sends(t, "cancel"))) /\ Ends("error", output)
    <2> DEFINE u == FinishWith(Sends(t, "cancel"))
    <2>1. Sound(u) /\ u.phase = "done"
        BY CancelledShape
    <2>2. Follows(tries[a], u)
        BY <1>2, <2>1 DEF Follows
    <2> QED BY <1>1, <1>3, <2>1, <2>2, EndsStep
<1>4. CASE /\ Becomes(a, Finish(t)) /\ status' = "processing"
           /\ UNCHANGED <<session, output, left>>
    <2>1. Sound(Finish(t)) /\ Finish(t).phase = "processing"
        BY FinishShape
    <2>2. Follows(tries[a], Finish(t))
        BY <1>2, <2>1 DEF Follows
    <2> QED BY <1>1, <1>4, <2>1, <2>2, MovesStep
<1>5. CASE Becomes(a, t) /\ status' = "recording" /\ UNCHANGED <<session, output, left>>
    <2>1. Follows(tries[a], t)
        BY <1>2 DEF Follows
    <2> QED BY <1>1, <1>5, <2>1, MovesStep
<1> QED BY <1>3, <1>4, <1>5 DEF FinishAutomatically

(* The part of a chunk that handleAudio accepts.                           *)
LEMMA AcceptedShape ==
    ASSUME NEW t, Sound(t), t.phase \in {"connecting", "recording"},
           NEW n \in 1 .. MaxChunk, n <= MaxSamples - t.total,
           NEW s \in {"none", "speech", "silence"}
    PROVE  Sound(Accepted(t, n, s)) /\ Accepted(t, n, s).phase = t.phase
<1> DEFINE u == Accepted(t, n, s)
           total == t.total + n
           pend == t.pending + n
<1>1. t \in Attempt /\ Counted(t) /\ MaxSamples \in Nat /\ MaxChunk \in Nat
    BY VoiceClientAssumption DEF Sound, Shape
<1>2. t.total \in Nat /\ t.pending \in Nat /\ t.sent \in Nat
    BY <1>1 DEF Attempt
<1>3. total \in Nat /\ pend \in Nat /\ total <= MaxSamples
    BY <1>1, <1>2, SMT
<1>4. u = [t EXCEPT !.total = total, !.pending = pend, !.speech = s]
    BY DEF Accepted
<1>5. /\ t.sent + t.pending <= t.total => t.sent + pend <= total
      /\ t.sent + t.pending = t.total => t.sent + pend = total
      /\ t.pending = t.total => pend = total
    BY <1>1, <1>2, SMT
<1> HIDE DEF total, pend, u
<1>6. u \in Attempt
    <2>1. u = [[[t EXCEPT !.total = total] EXCEPT !.pending = pend] EXCEPT !.speech = s]
        BY <1>1, <1>4, SMT DEF Attempt
    <2>2. [t EXCEPT !.total = total] \in Attempt
        BY <1>1, <1>3, FieldUpdates
    <2>3. [[t EXCEPT !.total = total] EXCEPT !.pending = pend] \in Attempt
        BY <1>3, <2>2, FieldUpdates
    <2> QED BY <2>1, <2>3, FieldUpdates
<1>7. /\ u.phase = t.phase /\ u.mic = t.mic /\ u.socket = t.socket /\ u.last = t.last
      /\ u.total = total /\ u.pending = pend /\ u.sent = t.sent
    BY <1>1, <1>4, SMT DEF Attempt
<1>8. Counted(u)
    BY <1>1, <1>3, <1>5, <1>7 DEF Counted, Quiet
<1>9. Idle(u) /\ Processing(u) /\ Done(u)
    BY <1>7 DEF Idle, Processing, Done
<1>10. Connecting(u)
    BY <1>5, <1>7 DEF Sound, Shape, Connecting
<1>11. Recording(u)
    BY <1>5, <1>7 DEF Sound, Shape, Recording
<1> QED BY <1>6, <1>7, <1>8, <1>9, <1>10, <1>11 DEF Sound, Shape, u

(* Audio before "ready" is kept, audio after it is sent on.                *)
LEMMA HandleAudioStep ==
    ASSUME ClientInv, NEW a \in Attempts, NEW n \in 1 .. MaxChunk,
           NEW s \in {"none", "speech", "silence"}, HandleAudio(a, n, s)
    PROVE  ClientInv' /\ AllKept
<1> DEFINE t == tries[a]
           u == Accepted(t, n, s)
<1>1. t.phase \in {"connecting", "recording"} /\ n <= MaxSamples - t.total
    BY DEF HandleAudio
<1>2. Sound(t)
    BY SessionFacts
<1>3. Sound(u) /\ u.phase = t.phase
    BY <1>1, <1>2, AcceptedShape
<1>4. CASE t.phase = "recording"
    <2>1. FinishAutomatically(a, DrainFrames(u))
        BY <1>4 DEF HandleAudio
    <2>2. Sound(DrainFrames(u)) /\ DrainFrames(u).phase = "recording"
        BY <1>3, <1>4, DrainShape
    <2> QED BY <1>1, <2>1, <2>2, AutomaticStep
<1>5. CASE t.phase # "recording"
    <2>1. Becomes(a, u) /\ PanelKept
        BY <1>5 DEF HandleAudio
    <2>2. Kept(t, u)
        BY <1>1, <1>2, EarlyKept
    <2>3. Follows(t, u)
        BY <1>3, <2>2 DEF Follows
    <2> QED BY <1>3, <2>1, <2>3, QuietStep
<1> QED BY <1>4, <1>5

(* "ready": what was recorded before it goes out first.                    *)
LEMMA ReadyStep ==
    ASSUME ClientInv, NEW a \in Attempts, Ready(a)
    PROVE  ClientInv' /\ AllKept
<1> DEFINE t == tries[a]
           u == [t EXCEPT !.phase = "recording"]
<1>1. /\ t.socket = "open" /\ t.phase = "connecting"
      /\ FinishAutomatically(a, DrainFrames(u))
    BY DEF Ready
<1>2. Sound(t) /\ t \in Attempt /\ Counted(t)
    BY SessionFacts DEF Sound, Shape
<1> HIDE DEF t
<1>3. /\ u \in Attempt
      /\ u.phase = "recording" /\ u.mic = t.mic /\ u.socket = t.socket
      /\ u.total = t.total /\ u.pending = t.pending /\ u.sent = t.sent /\ u.last = t.last
    <2>1. u \in Attempt
        BY <1>2, FieldUpdates DEF Phases
    <2> QED BY <1>2, <2>1, SMT DEF Attempt
<1>4. t.mic = "open" /\ t.last = "start" /\ t.sent = 0 /\ t.pending = t.total
    BY <1>1, <1>2 DEF Sound, Shape, Connecting, Counted
<1>5. t.total \in Nat
    BY <1>2 DEF Attempt
<1>6. t.sent + t.pending = t.total
    BY <1>4, <1>5, SMT
<1> HIDE DEF u
<1>7. Recording(u)
    BY <1>1, <1>3, <1>4, <1>6 DEF Recording
<1>8. Counted(u)
    BY <1>1, <1>2, <1>3, <1>4 DEF Counted
<1>9. Sound(u)
    BY <1>3, <1>7, <1>8 DEF Sound, Shape, Idle, Connecting, Processing, Done
<1>10. Sound(DrainFrames(u)) /\ DrainFrames(u).phase = "recording"
    BY <1>3, <1>9, DrainShape
<1> QED BY <1>1, <1>10, AutomaticStep DEF t

(* A transcript is shown, and it is of the session that runs.              *)
LEMMA TranscriptStep ==
    ASSUME ClientInv, NEW a \in Attempts, Transcript(a)
    PROVE  ClientInv' /\ AllKept
<1>1. /\ tries[a].phase \in {"recording", "processing"} /\ output' = a
      /\ tries' = tries /\ session' = session /\ status' = status /\ left' = left
    BY DEF Transcript
<1>2. session = a
    BY <1>1, SessionFacts DEF InProgress
<1>3. ClientTypeOK /\ PanelTellsTruth
    BY DEF ClientInv
<1>4. a # NoAttempt
    BY VoiceClientAssumption
<1>5. status # "idle"
    <2>1. status = tries[a].phase
        BY <1>1, <1>2, <1>3, <1>4 DEF PanelTellsTruth
    <2> QED BY <1>1, <2>1
<1>6. ClientTypeOK'
    BY <1>1, <1>3 DEF ClientTypeOK
<1>7. PanelTellsTruth'
    BY <1>1, <1>2, <1>3, <1>4, <1>5 DEF PanelTellsTruth
<1>8. \A b \in Attempts : Shape(tries'[b])
    BY <1>1 DEF ClientInv
<1>9. AllKept
    BY <1>1 DEF AllKept, Kept
<1> QED BY <1>6, <1>7, <1>8, <1>9 DEF ClientInv

(* A browser that cannot record: only the panel changes.                   *)
LEMMA UnsupportedStep ==
    ASSUME ClientInv, Unsupported
    PROVE  ClientInv' /\ AllKept
<1>1. /\ session = NoAttempt /\ status' = "error" /\ output' = NoAttempt
      /\ left' = FALSE /\ tries' = tries /\ session' = session
    BY DEF Unsupported
<1>2. ClientTypeOK /\ PanelTellsTruth
    BY DEF ClientInv
<1>3. ClientTypeOK'
    BY <1>1, <1>2 DEF ClientTypeOK
<1>4. PanelTellsTruth'
    BY <1>1, <1>2 DEF PanelTellsTruth
<1>5. \A b \in Attempts : Shape(tries'[b])
    BY <1>1 DEF ClientInv
<1>6. AllKept
    BY <1>1 DEF AllKept, Kept
<1> QED BY <1>3, <1>4, <1>5, <1>6 DEF ClientInv

(* The microphone button: the session is cancelled.                        *)
LEMMA ToggleStep ==
    ASSUME ClientInv, Toggle
    PROVE  ClientInv' /\ AllKept
<1>1. PICK a \in Attempts : a = session
    BY DEF Toggle, ClientInv, ClientTypeOK
<1>2. Becomes(a, Cancel(tries[a])) /\ Ends("idle", NoAttempt)
    BY <1>1 DEF Toggle
<1>3. Follows(tries[a], Cancel(tries[a])) /\ Cancel(tries[a]).phase = "done"
    BY SessionFacts, CancelShape
<1> QED BY <1>1, <1>2, <1>3, EndsStep

(* teardown: after it no session runs.                                     *)
LEMMA TeardownFacts ==
    ASSUME ClientInv, Teardown
    PROVE  /\ tries' \in [Attempts -> Attempt]
           /\ \A b \in Attempts : Shape(tries'[b]) /\ ~InProgress(tries'[b])
           /\ AllKept
<1>1. \A b \in Attempts : Follows(tries[b], tries'[b]) /\ ~InProgress(tries'[b])
    <2> SUFFICES ASSUME NEW b \in Attempts
                 PROVE  Follows(tries[b], tries'[b]) /\ ~InProgress(tries'[b])
        OBVIOUS
    <2>1. Sound(tries[b]) /\ (InProgress(tries[b]) <=> session = b)
        BY SessionFacts
    <2>2. tries'[b] = IF b = session THEN FinishWith(tries[b]) ELSE tries[b]
        BY DEF Teardown
    <2>3. CASE b = session
        BY <2>1, <2>2, <2>3, FinishWithShape DEF InProgress
    <2>4. CASE b # session
        BY <2>1, <2>2, <2>4 DEF Follows, Kept
    <2> QED BY <2>3, <2>4
<1>2. tries' = [b \in Attempts |-> tries'[b]]
    BY DEF Teardown
<1>3. \A b \in Attempts : tries'[b] \in Attempt /\ Shape(tries'[b])
    BY <1>1 DEF Follows, Sound
<1>4. tries' \in [Attempts -> Attempt]
    BY <1>2, <1>3
<1> QED BY <1>1, <1>3, <1>4 DEF AllKept, Follows

(* The panel is dismissed, or the page is left.                            *)
LEMMA LeavingStep ==
    ASSUME ClientInv, Dismiss \/ PageHide
    PROVE  ClientInv' /\ AllKept
<1>1. /\ tries' \in [Attempts -> Attempt]
      /\ \A b \in Attempts : Shape(tries'[b]) /\ ~InProgress(tries'[b])
      /\ AllKept
    BY TeardownFacts DEF Dismiss, PageHide
<1>2. session' = NoAttempt
    BY DEF Dismiss, PageHide, Teardown
<1>3. ClientTypeOK /\ PanelTellsTruth
    BY DEF ClientInv
<1>4. \/ status' = "idle" /\ output' = NoAttempt /\ left' = FALSE
      \/ status' = status /\ output' = output /\ left' = TRUE
    BY DEF Dismiss, PageHide
<1>5. ClientTypeOK'
    BY <1>1, <1>2, <1>3, <1>4 DEF ClientTypeOK
<1>6. \A b \in Attempts : InProgress(tries'[b]) <=> session' = b
    BY <1>1, <1>2, VoiceClientAssumption
<1>7. PanelTellsTruth'
    BY <1>2, <1>3, <1>4, <1>6 DEF PanelTellsTruth
<1> QED BY <1>1, <1>5, <1>7 DEF ClientInv

-----------------------------------------------------------------------------
(* No session has started: the page has just been loaded.                  *)
LEMMA ClientInitially ==
    ASSUME ClientInit
    PROVE  ClientInv
<1>1. /\ tries = [a \in Attempts |-> NewAttempt]
      /\ session = NoAttempt /\ status = "idle" /\ output = NoAttempt /\ left = FALSE
    BY DEF ClientInit
<1>2. NewAttempt \in Attempt
    BY SMT DEF NewAttempt, Attempt, Phases, Microphones, Sockets, Frames
<1>3. /\ NewAttempt.phase = "idle" /\ NewAttempt.mic = "none" /\ NewAttempt.socket = "none"
      /\ NewAttempt.total = 0 /\ NewAttempt.pending = 0 /\ NewAttempt.sent = 0
      /\ NewAttempt.last = "nothing"
    BY DEF NewAttempt
<1>4. /\ NewAttempt.sent + NewAttempt.pending <= NewAttempt.total
      /\ NewAttempt.total <= MaxSamples /\ ~(NewAttempt.sent > 0)
    BY <1>3, VoiceClientAssumption, SMT
<1>5. Counted(NewAttempt)
    BY <1>3, <1>4 DEF Counted, Quiet
<1>6. Shape(NewAttempt)
    BY <1>3, <1>5 DEF Shape, Idle, Connecting, Recording, Processing, Done
<1>7. ClientTypeOK
    BY <1>1, <1>2 DEF ClientTypeOK
<1>8. PanelTellsTruth
    BY <1>1, <1>3, VoiceClientAssumption DEF PanelTellsTruth, InProgress
<1> QED BY <1>1, <1>6, <1>7, <1>8 DEF ClientInv

(* Every callback keeps the invariant and what has been sent last.         *)
LEMMA ClientStep ==
    ASSUME ClientInv, [ClientNext]_clientVars
    PROVE  ClientInv' /\ AllKept
<1>1. CASE UNCHANGED clientVars
    <2>1. /\ tries' = tries /\ session' = session /\ status' = status
          /\ output' = output /\ left' = left
        BY <1>1 DEF clientVars
    <2>2. ClientTypeOK' /\ PanelTellsTruth'
        BY <2>1 DEF ClientInv, ClientTypeOK, PanelTellsTruth
    <2>3. \A b \in Attempts : Shape(tries'[b])
        BY <2>1 DEF ClientInv
    <2> QED BY <2>1, <2>2, <2>3 DEF ClientInv, AllKept, Kept
<1>2. ASSUME NEW a \in Attempts, Start(a)
      PROVE  ClientInv' /\ AllKept
    BY <1>2, StartStep
<1>3. ASSUME NEW a \in Attempts, MicrophoneStep(a)
      PROVE  ClientInv' /\ AllKept
    <2>1. CASE Granted(a)
        BY <2>1, GrantedStep
    <2>2. CASE Denied(a)
        BY <2>2, FailsStep DEF Denied
    <2>3. CASE GraphThrows(a)
        BY <2>3, FailsStep DEF GraphThrows
    <2>4. CASE GraphFails(a)
        BY <2>4, FailsStep DEF GraphFails
    <2>5. CASE GraphReady(a)
        BY <2>5, GraphReadyStep
    <2>6. CASE \E n \in 1 .. MaxChunk, s \in {"none", "speech", "silence"} :
                   HandleAudio(a, n, s)
        BY <2>6, HandleAudioStep
    <2> QED BY <1>3, <2>1, <2>2, <2>3, <2>4, <2>5, <2>6 DEF MicrophoneStep
<1>4. ASSUME NEW a \in Attempts, SocketStep(a)
      PROVE  ClientInv' /\ AllKept
    <2>1. CASE SocketOpens(a)
        BY <2>1, SocketOpensStep
    <2>2. CASE SocketBreaks(a)
        BY <2>2, SocketBreaksStep
    <2>3. CASE Disconnected(a) \/ Result(a) \/ ErrorMessage(a)
        BY <2>3, EndingStep
    <2>4. CASE Ready(a)
        BY <2>4, ReadyStep
    <2>5. CASE Transcript(a)
        BY <2>5, TranscriptStep
    <2> QED BY <1>4, <2>1, <2>2, <2>3, <2>4, <2>5 DEF SocketStep
<1>5. ASSUME NEW a \in Attempts, WallTimer(a)
      PROVE  ClientInv' /\ AllKept
    BY <1>5, EndingStep
<1>6. CASE Unsupported
    BY <1>6, UnsupportedStep
<1>7. CASE Toggle
    BY <1>7, ToggleStep
<1>8. CASE Dismiss \/ PageHide
    BY <1>8, LeavingStep
<1> QED BY <1>1, <1>2, <1>3, <1>4, <1>5, <1>6, <1>7, <1>8 DEF ClientNext

(* The invariant is enough for the promise of the panel.                   *)
LEMMA ClientInvSafe ==
    ASSUME ClientInv
    PROVE  PanelSafe
<1>1. ASSUME NEW a \in Attempts
      PROVE  /\ tries[a].mic = "open" => /\ tries[a].phase \in {"connecting", "recording"}
                                         /\ session = a
             /\ tries[a].socket \in {"dialling", "open", "broken"} => session = a
             /\ tries[a].mic \in {"asking", "opening"} => tries[a].last = "nothing"
    <2>1. Sound(tries[a]) /\ (InProgress(tries[a]) <=> session = a)
        BY SessionFacts
    <2>2. tries[a].phase \in Phases
        BY <2>1 DEF Sound, Attempt
    <2>3. tries[a].mic = "open" => tries[a].phase \in {"connecting", "recording"}
        BY <2>1, <2>2 DEF Sound, Shape, Idle, Processing, Done, Phases
    <2>4. tries[a].socket \in {"dialling", "open", "broken"} => InProgress(tries[a])
        BY <2>1, <2>2 DEF Sound, Shape, Idle, Done, Phases, InProgress
    <2>5. tries[a].mic \in {"asking", "opening"} => tries[a].last = "nothing"
        BY <2>1 DEF Sound, Shape, Counted, Quiet
    <2> QED BY <2>1, <2>3, <2>4, <2>5 DEF InProgress
<1>2. ASSUME NEW a \in Attempts
      PROVE  /\ tries[a].last = "commit" => tries[a].sent = tries[a].total
             /\ tries[a].sent <= tries[a].total /\ tries[a].total <= MaxSamples
             /\ tries[a].sent > 0 => tries[a].last \notin {"nothing", "start"}
    <2>1. tries[a] \in Attempt /\ Counted(tries[a])
        BY SessionFacts DEF Sound, Shape
    <2>2. tries[a].sent \in Nat /\ tries[a].pending \in Nat /\ tries[a].total \in Nat
        BY <2>1 DEF Attempt
    <2>3. tries[a].sent + tries[a].pending <= tries[a].total
        BY <2>1 DEF Counted
    <2>4. tries[a].sent <= tries[a].total
        BY <2>2, <2>3, SMT
    <2> QED BY <2>1, <2>4 DEF Counted
<1> QED BY <1>1, <1>2 DEF ClientInv, PanelSafe, MicrophoneReleased, RecordingIsWhole

(* Whatever order clicks, prompts, messages, audio and timers come in, the *)
(* microphone is off when it should be, the panel shows the session that   *)
(* runs, and a commit stands for the whole recording (useVoiceSearch.ts,   *)
(* voice.ts).                                                              *)
THEOREM PanelAlwaysSafe == ClientSpec => []PanelSafe
<1>1. ClientInit => ClientInv
    BY ClientInitially
<1>2. ClientInv /\ [ClientNext]_clientVars => ClientInv'
    BY ClientStep
<1>3. ClientInv => PanelSafe
    BY ClientInvSafe
<1> QED BY <1>1, <1>2, <1>3, PTL DEF ClientSpec

(* Nothing follows the commit or the cancel of a session, and an ended     *)
(* session sends nothing and stays ended (finish, cancel, finishWith of    *)
(* voice.ts).                                                              *)
THEOREM NothingAfterLastFrame == ClientSpec => LastFrameIsLast
<1> DEFINE Act == \A a \in Attempts :
               tries[a].last \in {"commit", "cancel"} \/ tries[a].phase = "done"
               => /\ tries'[a].last = tries[a].last /\ tries'[a].sent = tries[a].sent
                  /\ tries[a].phase = "done" => tries'[a].phase = "done"
<1>1. ClientInit => ClientInv
    BY ClientInitially
<1>2. ClientInv /\ [ClientNext]_clientVars => ClientInv' /\ Act
    <2> SUFFICES ASSUME ClientInv, [ClientNext]_clientVars PROVE ClientInv' /\ Act
        OBVIOUS
    <2>1. ClientInv' /\ AllKept
        BY ClientStep
    <2> QED BY <2>1 DEF AllKept, Kept
<1>3. ClientSpec => [][Act]_clientVars
    <2> HIDE DEF Act
    <2> QED BY <1>1, <1>2, PTL DEF ClientSpec
<1> QED BY <1>3 DEF LastFrameIsLast
=============================================================================
