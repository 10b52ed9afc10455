------------------------ MODULE CommandRouter_steps -------------------------
(***************************************************************************)
(* Proofs about CommandRouter, for every set of devices, connections,      *)
(* commands and calls, every capacity and every kind of environment event. *)
(*                                                                         *)
(* The inductive invariant says that as long as anything in memory still   *)
(* works on a command (a submit, an entry, a finish, a timer, a scan, a    *)
(* replay) its record is in the database and inside the replay window.     *)
(* Reserving the same command_id can then only replay or conflict, so at   *)
(* most one submit works on a command and nothing is overwritten.          *)
(***************************************************************************)
EXTENDS CommandRouter, TLAPS

Live(m) == row[m] # NoRow /\ row[m].fresh

(* Call k has reserved m and has not delivered it.                         *)
Submitting(k, m) ==
    /\ pc[k] # "idle" /\ req[k].cmd = m
    /\ pc[k] \in {"capacity", "reject", "insert", "notify", "resolve",
                       "dispatch"}

(* Generations: what the registry guarantees about the connections that    *)
(* calls, scans and entries hold on to.                                    *)
InvReg ==
    /\ \A d \in Devices : active[d] # NoConn =>
         DeviceOf[active[d]] = d /\ Registered(active[d])
    /\ \A c \in Conns : cleaning[c] # NoConn =>
         Registered(cleaning[c]) /\ ~IsActive(cleaning[c])

Routed(k) ==
    pc[k] # "idle" /\ pc[k] \notin {"route", "done"} =>
        /\ bound[k] \in Conns
        /\ DeviceOf[bound[k]] = req[k].target
        /\ Registered(bound[k])

InvRouted == \A k \in Calls : Routed(k)

InvSubmit ==
    \A k \in Calls, m \in Cmds : Submitting(k, m) =>
        /\ Live(m) /\ deliveries[m] = 0
        /\ row[m].target = req[k].target /\ row[m].body = req[k].body
        /\ \A k2 \in Calls : Submitting(k2, m) => k2 = k

InvInsert ==
    \A k \in Calls, m \in Cmds : Inserting(k, m) =>
        /\ row[m].status = "reserved"
        /\ inFlight[m] = NoEntry
        /\ \A f \in fin : f.cmd # m

InvBound ==
    \A k \in Calls, m \in Cmds : Submitting(k, m) =>
        /\ inFlight[m] # NoEntry =>
             inFlight[m].ctl = req[k].ctl /\ inFlight[m].tgt = bound[k]
        /\ ~Inserting(k, m) /\ inFlight[m] = NoEntry => ~IsActive(bound[k])

Notified(k) ==
    pc[k] \in {"resolve", "dispatch"} =>
        ReceivedFrame(req[k].cmd) \in told[req[k].ctl]

InvNotified == \A k \in Calls : Notified(k)

InvEntry ==
    \A m \in Cmds : inFlight[m] # NoEntry =>
        /\ Live(m) /\ row[m].status = "reserved"
        /\ row[m].target = DeviceOf[inFlight[m].tgt]
        /\ Registered(inFlight[m].tgt)
        /\ deliveries[m] > 0 => ReceivedFrame(m) \in told[inFlight[m].ctl]

InvFin ==
    \A f \in fin :
        /\ Live(f.cmd) /\ row[f.cmd].target = f.target
        /\ inFlight[f.cmd] = NoEntry
        /\ f.stage = "complete" => row[f.cmd].status = "reserved"
        /\ f.stage = "send" => row[f.cmd].status = f.result
        /\ \A g \in fin : g.cmd = f.cmd => g = f

Replaying(k) ==
    pc[k] # "idle" =>
        /\ pc[k] \in {"load", "replay", "tell"} => Live(req[k].cmd)
        /\ pc[k] \in {"replay", "tell"} /\ loaded[k] \in Results =>
             row[req[k].cmd].status = loaded[k]
        /\ pc[k] = "tell" => loaded[k] \in Results

InvReplay == \A k \in Calls : Replaying(k)

InvTimer == \A m \in timer : Live(m) /\ deliveries[m] > 0

InvScan ==
    \A c \in Conns : \A m \in todo[c] :
        /\ Live(m)
        /\ \A k \in Calls : ~Inserting(k, m)
        /\ inFlight[m] # NoEntry => ~IsActive(inFlight[m].tgt)

IInv ==
    /\ TypeOK /\ InvReg /\ InvRouted /\ InvSubmit /\ InvInsert /\ InvBound
    /\ InvNotified /\ InvEntry /\ InvFin /\ InvReplay /\ InvTimer /\ InvScan
    /\ AtMostOneDelivery /\ ToldResultIsStored /\ AcceptedAfterReceived
-----------------------------------------------------------------------------
USE RouterAssumption, DeviceOfAssumption, NoConnAssumption

(* The provers of a step, unless it names one, and their time.             *)
USE ZenonT(5), SMTT(30)

(* The three kinds of frames are frames, and they differ unless they are   *)
(* of the same kind and about the same command (and result).               *)
LEMMA FrameFacts ==
  /\ \A m \in Cmds :
       /\ ReceivedFrame(m) \in Frame /\ ReceivedFrame(m).cmd = m
       /\ AcceptedFrame(m) \in Frame /\ AcceptedFrame(m).cmd = m
  /\ \A m, n \in Cmds :
       /\ ReceivedFrame(m) # AcceptedFrame(n)
       /\ ReceivedFrame(m) = ReceivedFrame(n) => m = n
       /\ AcceptedFrame(m) = AcceptedFrame(n) => m = n
  /\ \A m, n \in Cmds, r \in Results :
       /\ ResultFrame(m, r) \in Frame /\ ResultFrame(m, r).cmd = m
       /\ ResultFrame(m, r) # ReceivedFrame(n)
       /\ ResultFrame(m, r) # AcceptedFrame(n)
  /\ \A m, n \in Cmds, r, q \in Results :
       ResultFrame(m, r) = ResultFrame(n, q) => m = n /\ r = q
<1>1. \A m \in Cmds :
       /\ ReceivedFrame(m) \in Frame /\ ReceivedFrame(m).cmd = m
       /\ AcceptedFrame(m) \in Frame /\ AcceptedFrame(m).cmd = m
  BY DEF ReceivedFrame, AcceptedFrame, Frame
<1>2. \A m, n \in Cmds :
       /\ ReceivedFrame(m) # AcceptedFrame(n)
       /\ ReceivedFrame(m) = ReceivedFrame(n) => m = n
       /\ AcceptedFrame(m) = AcceptedFrame(n) => m = n
  BY DEF ReceivedFrame, AcceptedFrame
<1>3. \A m, n \in Cmds, r \in Results :
       /\ ResultFrame(m, r) \in Frame /\ ResultFrame(m, r).cmd = m
       /\ ResultFrame(m, r) # ReceivedFrame(n)
       /\ ResultFrame(m, r) # AcceptedFrame(n)
  BY DEF ReceivedFrame, AcceptedFrame, ResultFrame, Frame
<1>4. \A m, n \in Cmds, r, q \in Results :
       ResultFrame(m, r) = ResultFrame(n, q) => m = n /\ r = q
  BY DEF ResultFrame
<1> QED BY <1>1, <1>2, <1>3, <1>4

(* What SendFrame does: at most one frame is added, to one history, and it *)
(* is added when the queue takes it.                                       *)
LEMMA SendFrameEffect ==
  ASSUME TypeOK, NEW c \in Conns, NEW frame \in Frame, SendFrame(c, frame)
  PROVE  /\ queued' \in [Conns -> 0..OutCap]
         /\ told' \in [Conns -> SUBSET Frame]
         /\ \A e \in Conns : \A g : g \in told[e] => g \in told'[e]
         /\ \A e \in Conns : \A g :
               g \in told'[e] => g \in told[e] \/ (e = c /\ g = frame)
         /\ SendOk(c) => frame \in told'[c]
  BY DEF TypeOK, SendFrame, SendOk, Enqueue

(* The terminal results, and two words that are none.                      *)
LEMMA ResultFacts ==
  /\ Failures \subseteq Results /\ "target_result" \in Results
  /\ "reserved" \notin Results /\ "none" \notin Results
  /\ Statuses = {"reserved"} \cup Results
  BY DEF Results, Failures, Statuses

(* The fields of records of calls, entries, finishers and rows.            *)
LEMMA FieldTypes ==
  ASSUME TypeOK
  PROVE  /\ \A k \in Calls : pc[k] # "idle" =>
               /\ req[k].cmd \in Cmds /\ req[k].body \in Bodies
               /\ req[k].ctl \in Conns /\ req[k].target \in Devices
         /\ \A m \in Cmds : inFlight[m] # NoEntry =>
               inFlight[m].ctl \in Conns /\ inFlight[m].tgt \in Conns
         /\ \A f \in fin :
               /\ f.cmd \in Cmds /\ f.result \in Results
               /\ f.ctl \in Conns /\ f.target \in Devices
         /\ \A m \in Cmds : row[m] # NoRow => row[m] \in Row
  BY DEF TypeOK, Request, Entry, Finisher

(* What finish does first: it takes the entry of m, if there is one, and   *)
(* becomes a finisher of its target.                                       *)
LEMMA StartFinishEffect ==
  ASSUME TypeOK, NEW m \in Cmds, NEW res \in Results,
         NEW by \in Calls \cup Conns \cup {"timer"}, StartFinish(m, res, by)
  PROVE  /\ inFlight' \in [Cmds -> Entry \cup {NoEntry}]
         /\ fin' \subseteq Finisher
         /\ inFlight'[m] = NoEntry
         /\ \A n \in Cmds : n # m => inFlight'[n] = inFlight[n]
         /\ \A f \in fin' : \/ f \in fin
                             \/ /\ f.cmd = m /\ f.stage = "complete"
                                /\ inFlight[m] # NoEntry
                                /\ f.target = DeviceOf[inFlight[m].tgt]
         /\ \A f, g \in fin' : f \notin fin /\ g \notin fin => f = g
<1>1. CASE inFlight[m] = NoEntry
  BY <1>1 DEF TypeOK, StartFinish
<1>2. CASE inFlight[m] # NoEntry
  <2> DEFINE f == [cmd |-> m, result |-> res, ctl |-> inFlight[m].ctl,
                   target |-> DeviceOf[inFlight[m].tgt], by |-> by,
                   stage |-> "complete"]
  <2>1. f \in Finisher /\ f.cmd = m /\ f.stage = "complete"
        /\ f.target = DeviceOf[inFlight[m].tgt]
    BY <1>2, FieldTypes DEF Finisher
  <2>2. fin' = fin \cup {f} /\ inFlight' = [inFlight EXCEPT ![m] = NoEntry]
    BY <1>2 DEF StartFinish
  <2> QED BY <1>2, <2>1, <2>2 DEF TypeOK
<1> QED BY <1>1, <1>2

(* complete changes a record only by giving a reserved one its result.     *)
LEMMA CompleteEffect ==
  ASSUME TypeOK, NEW m \in Cmds, NEW target \in Devices, NEW res \in Results,
         NEW outcome, Complete(m, target, res, outcome)
  PROVE  /\ row' \in [Cmds -> Row \cup {NoRow}]
         /\ \A n \in Cmds : row'[n] # row[n] =>
              /\ n = m /\ row[n] # NoRow /\ row[n].status = "reserved"
              /\ row'[n] # NoRow /\ row'[n].status = res
              /\ row'[n].target = row[n].target /\ row'[n].body = row[n].body
              /\ row'[n].fresh = row[n].fresh
         /\ outcome = "accepted" => row'[m] # NoRow /\ row'[m].status = res
<1> DEFINE new == WithResult(row[m], res)
           stored == CompleteOutcome(row[m], Owned(target), target, res)
<1>1. CASE stored = "accepted"
  <2>1. row[m] # NoRow /\ row[m].status = "reserved" /\ row[m] \in Row
    BY <1>1, FieldTypes DEF CompleteOutcome
  <2>2. /\ new \in Row /\ new.status = res /\ new.target = row[m].target
        /\ new.body = row[m].body /\ new.fresh = row[m].fresh /\ new # NoRow
    BY <2>1, ResultFacts DEF WithResult, Row
  <2>3. row' = [row EXCEPT ![m] = new] \/ (row' = row /\ outcome = "conflict")
    BY <1>1 DEF Complete
  <2> HIDE DEF new
  <2> QED BY <2>1, <2>2, <2>3 DEF TypeOK
<1>2. CASE stored # "accepted"
  BY <1>2 DEF Complete, TypeOK
<1> QED BY <1>1, <1>2

-----------------------------------------------------------------------------
(***************************************************************************)
(* Kinds of steps.  Most actions of the router either only move a call,    *)
(* or only tell a controller something, or take an entry, or only concern  *)
(* the registry.                                                           *)
(***************************************************************************)

(* The step does not touch call k.                                         *)
Kept(k) ==
    /\ pc'[k] = pc[k] /\ req'[k] = req[k]
    /\ bound'[k] = bound[k] /\ loaded'[k] = loaded[k]

(* Call k moves on without reserving anything: it is on its way to a       *)
(* delivery only if it was, with the same request.                         *)
Moved(k) ==
    /\ \A m \in Cmds : Submitting(k, m)' =>
         /\ Submitting(k, m)
         /\ Inserting(k, m)' <=> Inserting(k, m)
         /\ req'[k] = req[k] /\ bound'[k] = bound[k]
    /\ Routed(k)' /\ Notified(k)' /\ Replaying(k)'

CallsMove == \A k \in Calls : Kept(k) \/ Moved(k)

(* Controllers are told more, and only what is right.                      *)
ToldMore ==
    /\ \A e \in Conns : \A g : g \in told[e] => g \in told'[e]
    /\ ToldResultIsStored' /\ AcceptedAfterReceived'

(* A frame that may be sent to c now keeps what controllers are told       *)
(* right: command.received always, command.accepted after it, and a        *)
(* result that is stored.                                                  *)
LEMMA TellStep ==
  ASSUME IInv, NEW c \in Conns, NEW m \in Cmds, NEW frame, SendFrame(c, frame),
         row' = row,
         \/ frame = ReceivedFrame(m)
         \/ frame = AcceptedFrame(m) /\ ReceivedFrame(m) \in told[c]
         \/ \E res \in Results : /\ frame = ResultFrame(m, res)
                                 /\ row[m].status = res
  PROVE  /\ queued' \in [Conns -> 0..OutCap]
         /\ told' \in [Conns -> SUBSET Frame]
         /\ ToldMore
         /\ SendOk(c) => frame \in told'[c]
<1> USE DEF IInv
<1>1. frame \in Frame
  BY FrameFacts
<1>2. /\ queued' \in [Conns -> 0..OutCap]
      /\ told' \in [Conns -> SUBSET Frame]
      /\ \A e \in Conns : \A g : g \in told[e] => g \in told'[e]
      /\ \A e \in Conns : \A g :
            g \in told'[e] => g \in told[e] \/ (e = c /\ g = frame)
      /\ SendOk(c) => frame \in told'[c]
  BY <1>1, SendFrameEffect
<1>3. ToldResultIsStored'
  BY <1>2, FrameFacts DEF ToldResultIsStored
<1>4. AcceptedAfterReceived'
  BY <1>2, FrameFacts DEF AcceptedAfterReceived
<1> QED BY <1>2, <1>3, <1>4 DEF ToldMore

(* What a call that moves or is left alone satisfies is what the invariant *)
(* says of each call: the parts of it that are about calls only.           *)
LEMMA CallsMoveEffect ==
  ASSUME IInv, TypeOK', UNCHANGED <<sess, row, deliveries>>, CallsMove,
         \A e \in Conns : \A g : g \in told[e] => g \in told'[e]
  PROVE  /\ InvRouted' /\ InvNotified' /\ InvReplay' /\ InvSubmit'
         /\ \A k \in Calls, m \in Cmds : Submitting(k, m)' =>
              /\ Submitting(k, m)
              /\ Inserting(k, m)' <=> Inserting(k, m)
              /\ req'[k] = req[k] /\ bound'[k] = bound[k]
         /\ \A k \in Calls, m \in Cmds : Inserting(k, m)' => Inserting(k, m)
<1> USE DEF IInv
<1>1. ASSUME NEW k \in Calls, Kept(k)
      PROVE  Routed(k)' /\ Replaying(k)'
  BY <1>1 DEF Kept, InvRouted, Routed, Registered, InvReplay, Replaying, Live
<1>2. ASSUME NEW k \in Calls, Kept(k)
      PROVE  Notified(k)'
  <2>1. Notified(k) /\ (pc[k] \in {"resolve", "dispatch"} => req[k].ctl \in Conns)
    BY FieldTypes DEF InvNotified
  <2> QED BY <1>2, <2>1 DEF Kept, Notified, ReceivedFrame
<1>3. InvRouted' /\ InvNotified' /\ InvReplay'
  BY <1>1, <1>2 DEF CallsMove, Moved, InvRouted, InvNotified, InvReplay
<1>4. ASSUME NEW k \in Calls, NEW m \in Cmds, Submitting(k, m)'
      PROVE  /\ Submitting(k, m)
             /\ Inserting(k, m)' <=> Inserting(k, m)
             /\ req'[k] = req[k] /\ bound'[k] = bound[k]
  <2>1. CASE Kept(k)
    BY <1>4, <2>1 DEF Kept, Submitting, Inserting
  <2>2. CASE Moved(k)
    BY <1>4, <2>2 DEF Moved
  <2> QED BY <2>1, <2>2 DEF CallsMove
<1>5. InvSubmit'
  BY <1>4 DEF InvSubmit, Live
<1>6. \A k \in Calls, m \in Cmds : Inserting(k, m)' => Inserting(k, m)
  BY <1>4 DEF Submitting, Inserting
<1> QED BY <1>3, <1>4, <1>5, <1>6

(* Steps that move calls, tell controllers something, or drop a finisher   *)
(* or a deadline.                                                          *)
LEMMA MoveStep ==
  ASSUME IInv, TypeOK', CallsMove, ToldMore,
         UNCHANGED <<active, sess, cleaning, row, inFlight, todo, deliveries>>,
         fin' \subseteq fin, timer' \subseteq timer
  PROVE  IInv'
<1> USE DEF IInv
<1>1. /\ InvRouted' /\ InvNotified' /\ InvReplay' /\ InvSubmit'
      /\ \A k \in Calls, m \in Cmds : Submitting(k, m)' =>
           /\ Submitting(k, m)
           /\ Inserting(k, m)' <=> Inserting(k, m)
           /\ req'[k] = req[k] /\ bound'[k] = bound[k]
      /\ \A k \in Calls, m \in Cmds : Inserting(k, m)' => Inserting(k, m)
  BY CallsMoveEffect DEF ToldMore
<1>2. InvReg' /\ AtMostOneDelivery' /\ InvTimer'
  BY DEF InvReg, IsActive, Registered, AtMostOneDelivery, InvTimer, Live
<1>3. InvInsert'
  BY <1>1 DEF InvInsert
<1>4. InvBound'
  BY <1>1 DEF InvBound, IsActive
<1>5. InvEntry'
  BY FieldTypes DEF InvEntry, Live, Registered, ToldMore
<1>6. InvFin'
  BY DEF InvFin, Live
<1>7. InvScan'
  BY <1>1 DEF TypeOK, InvScan, Live, IsActive
<1> QED BY <1>1, <1>2, <1>3, <1>4, <1>5, <1>6, <1>7 DEF ToldMore

(* Steps that begin a finish: the entry of m, if there is one, becomes a   *)
(* finisher.  No call is left that would deliver m to an active            *)
(* generation.                                                             *)
LEMMA TakeStep ==
  ASSUME IInv, TypeOK', NEW m \in Cmds, NEW res \in Results,
         NEW by \in Calls \cup Conns \cup {"timer"}, StartFinish(m, res, by),
         CallsMove,
         UNCHANGED <<active, sess, cleaning, row, told, deliveries>>,
         timer' \subseteq timer,
         \A c \in Conns : todo'[c] \subseteq todo[c],
         \A k \in Calls : Submitting(k, m)' /\ inFlight[m] # NoEntry =>
            ~IsActive(bound[k])
  PROVE  IInv'
<1> USE DEF IInv
<1>1. /\ InvRouted' /\ InvNotified' /\ InvReplay' /\ InvSubmit'
      /\ \A k \in Calls, n \in Cmds : Submitting(k, n)' =>
           /\ Submitting(k, n)
           /\ Inserting(k, n)' <=> Inserting(k, n)
           /\ req'[k] = req[k] /\ bound'[k] = bound[k]
      /\ \A k \in Calls, n \in Cmds : Inserting(k, n)' => Inserting(k, n)
  BY CallsMoveEffect
<1>2. /\ inFlight'[m] = NoEntry
      /\ \A n \in Cmds : n # m => inFlight'[n] = inFlight[n]
      /\ \A f \in fin' : \/ f \in fin
                         \/ /\ f.cmd = m /\ f.stage = "complete"
                            /\ inFlight[m] # NoEntry
                            /\ f.target = DeviceOf[inFlight[m].tgt]
      /\ \A f, g \in fin' : f \notin fin /\ g \notin fin => f = g
  BY StartFinishEffect
<1>3. /\ InvReg' /\ AtMostOneDelivery' /\ InvTimer'
      /\ ToldResultIsStored' /\ AcceptedAfterReceived'
  BY DEF InvReg, IsActive, Registered, AtMostOneDelivery, InvTimer, Live,
         ToldResultIsStored, AcceptedAfterReceived
<1>4. InvInsert'
  BY <1>1, <1>2 DEF InvInsert
<1>5. InvBound'
  BY <1>1, <1>2 DEF InvBound, IsActive
<1>6. InvEntry'
  BY <1>2 DEF InvEntry, Live, Registered
<1>7. InvFin'
  BY <1>2, FieldTypes DEF InvFin, InvEntry, Live
<1>8. InvScan'
  <2>1. SUFFICES ASSUME NEW c \in Conns, NEW n \in todo'[c]
                 PROVE  /\ Live(n)'
                        /\ \A k \in Calls : ~Inserting(k, n)'
                        /\ (inFlight[n] # NoEntry => ~IsActive(inFlight[n].tgt))'
    BY DEF InvScan
  <2>2. n \in todo[c] /\ n \in Cmds
    BY <2>1 DEF TypeOK
  <2>3. /\ Live(n)
        /\ \A k \in Calls : ~Inserting(k, n)
        /\ inFlight[n] # NoEntry => ~IsActive(inFlight[n].tgt)
    BY <2>2 DEF InvScan
  <2>4. Live(n)'
    BY <2>3 DEF Live
  <2>5. \A k \in Calls : ~Inserting(k, n)'
    BY <1>1, <2>2, <2>3
  <2>6. (inFlight[n] # NoEntry => ~IsActive(inFlight[n].tgt))'
    BY <1>2, <2>2, <2>3 DEF IsActive
  <2> QED BY <2>4, <2>5, <2>6
<1> QED BY <1>1, <1>3, <1>4, <1>5, <1>6, <1>7, <1>8

(* Steps of the registry: a registered generation stays registered and     *)
(* does not become active again.                                           *)
LEMMA RegistryStep ==
  ASSUME IInv, RegTypeOK', InvReg', UNCHANGED routerVars,
         \A c \in Conns : Registered(c) =>
            Registered(c)' /\ (IsActive(c)' => IsActive(c))
  PROVE  IInv'
<1> USE DEF IInv, routerVars, callVars
<1>1. TypeOK'
  BY DEF TypeOK
<1>2. InvRouted'
  BY DEF InvRouted, Routed
<1>3. InvBound'
  <2>1. ASSUME NEW k \in Calls, NEW m \in Cmds, Submitting(k, m)
        PROVE  bound[k] \in Conns /\ Registered(bound[k])
    BY <2>1 DEF InvRouted, Routed, Submitting
  <2>2. ASSUME NEW k \in Calls, NEW m \in Cmds
        PROVE  /\ Submitting(k, m)' <=> Submitting(k, m)
               /\ Inserting(k, m)' <=> Inserting(k, m)
    BY DEF Submitting, Inserting
  <2> QED BY <2>1, <2>2 DEF InvBound
<1>4. InvEntry'
  BY FieldTypes DEF InvEntry, Live
<1>5. InvScan'
  <2>1. ASSUME NEW m \in Cmds, inFlight[m] # NoEntry
        PROVE  inFlight[m].tgt \in Conns /\ Registered(inFlight[m].tgt)
    BY <2>1, FieldTypes DEF InvEntry
  <2> QED BY <2>1 DEF TypeOK, InvScan, Live, Inserting
<1>6. InvSubmit' /\ InvInsert' /\ InvNotified' /\ InvFin'
  <2>1. InvSubmit'
    BY DEF InvSubmit, Submitting, Live
  <2>2. InvInsert'
    BY DEF InvInsert, Inserting
  <2>3. InvNotified'
    BY DEF InvNotified, Notified
  <2>4. InvFin'
    BY DEF InvFin, Live
  <2> QED BY <2>1, <2>2, <2>3, <2>4
<1>7. InvReplay' /\ InvTimer' /\ AtMostOneDelivery'
  <2>1. InvReplay'
    BY DEF InvReplay, Replaying, Live
  <2>2. InvTimer' /\ AtMostOneDelivery'
    BY DEF InvTimer, Live, AtMostOneDelivery
  <2> QED BY <2>1, <2>2
<1>8. ToldResultIsStored' /\ AcceptedAfterReceived'
  BY DEF ToldResultIsStored, AcceptedAfterReceived
<1> QED BY <1>1, <1>2, <1>3, <1>4, <1>5, <1>6, <1>7, <1>8

(* finish decides a reserved command, or loses its result.                 *)
LEMMA FinishCompleteStep ==
  ASSUME IInv, NEW f \in fin, FinishComplete(f)
  PROVE  IInv'
<1> USE DEF IInv
<1>1a. /\ f.cmd \in Cmds /\ f.result \in Results /\ f.target \in Devices
       /\ f \in Finisher /\ f.stage = "complete"
  BY FieldTypes DEF FinishComplete, TypeOK
<1>1b. /\ Sending(f) \in Finisher /\ Sending(f).cmd = f.cmd
       /\ Sending(f).result = f.result /\ Sending(f).target = f.target
       /\ Sending(f).stage = "send"
  BY <1>1a DEF Sending, Finisher
<1> PICK outcome \in {"accepted", "replay", "conflict", "not_owned"} :
        /\ Complete(f.cmd, f.target, f.result, outcome)
        /\ fin' = (fin \ {f}) \cup
                  (IF outcome = "accepted" THEN {Sending(f)} ELSE {})
  BY DEF FinishComplete
<1>a. /\ row' \in [Cmds -> Row \cup {NoRow}]
      /\ \A n \in Cmds : row'[n] # row[n] =>
           /\ n = f.cmd /\ row[n] # NoRow /\ row[n].status = "reserved"
           /\ row'[n] # NoRow /\ row'[n].status = f.result
           /\ row'[n].target = row[n].target /\ row'[n].body = row[n].body
           /\ row'[n].fresh = row[n].fresh
      /\ outcome = "accepted" => row'[f.cmd] # NoRow /\ row'[f.cmd].status = f.result
  BY <1>1a, CompleteEffect
<1>b. \A g \in fin' : \/ g \in fin /\ g # f
                      \/ g = Sending(f) /\ outcome = "accepted"
  OBVIOUS
<1>u. UNCHANGED <<inFlight, sess, active, cleaning, told, deliveries, pc, req,
                  bound, loaded, timer, todo>>
  BY DEF FinishComplete, regVars, callVars
<1>l. \A n \in Cmds : /\ Live(n) => Live(n)'
                     /\ n # f.cmd => row'[n] = row[n]
  BY <1>a DEF Live
<1>1. TypeOK'
  BY <1>a, <1>b, <1>1b DEF TypeOK, RegTypeOK, FinishComplete, regVars, callVars
<1>2. InvSubmit'
  <2> SUFFICES ASSUME NEW k \in Calls, NEW m \in Cmds, Submitting(k, m)
               PROVE  /\ Live(m)' /\ deliveries[m] = 0
                      /\ row'[m].target = req[k].target
                      /\ row'[m].body = req[k].body
                      /\ \A k2 \in Calls : Submitting(k2, m) => k2 = k
    BY <1>u DEF InvSubmit, Submitting
  <2>1. /\ Live(m) /\ deliveries[m] = 0
        /\ row[m].target = req[k].target /\ row[m].body = req[k].body
        /\ \A k2 \in Calls : Submitting(k2, m) => k2 = k
    BY DEF InvSubmit
  <2> QED BY <1>a, <1>l, <2>1 DEF Live
<1>3. InvInsert'
  <2> SUFFICES ASSUME NEW k \in Calls, NEW m \in Cmds, Inserting(k, m)
               PROVE  /\ row'[m].status = "reserved" /\ inFlight[m] = NoEntry
                      /\ \A g \in fin' : g.cmd # m
    BY <1>u DEF InvInsert, Inserting
  <2>1. /\ row[m].status = "reserved" /\ inFlight[m] = NoEntry
        /\ \A g \in fin : g.cmd # m
    BY DEF InvInsert
  <2>2. \A g \in fin' : g.cmd # m
    BY <1>b, <1>1b, <2>1
  <2>3. m # f.cmd
    BY <2>1
  <2> QED BY <1>a, <2>1, <2>2, <2>3
<1>4. InvEntry'
  <2> SUFFICES ASSUME NEW m \in Cmds, inFlight[m] # NoEntry
               PROVE  /\ Live(m)' /\ row'[m].status = "reserved"
                      /\ row'[m].target = DeviceOf[inFlight[m].tgt]
                      /\ Registered(inFlight[m].tgt)
                      /\ deliveries[m] > 0 => ReceivedFrame(m) \in told[inFlight[m].ctl]
    BY <1>u DEF InvEntry, Registered
  <2>1. m # f.cmd
    BY DEF InvFin
  <2>2. row'[m] = row[m]
    BY <1>a, <2>1
  <2> QED BY <2>2 DEF InvEntry, Live
<1>5. InvFin'
  <2>1. /\ Live(f.cmd) /\ row[f.cmd].target = f.target
        /\ inFlight[f.cmd] = NoEntry
        /\ \A g \in fin : g.cmd = f.cmd => g = f
    BY DEF InvFin
  <2>2. row'[f.cmd].target = f.target
    BY <1>a, <1>1a, <2>1
  <2> SUFFICES ASSUME NEW g \in fin'
               PROVE  /\ Live(g.cmd)' /\ row'[g.cmd].target = g.target
                      /\ inFlight[g.cmd] = NoEntry
                      /\ g.stage = "complete" => row'[g.cmd].status = "reserved"
                      /\ g.stage = "send" => row'[g.cmd].status = g.result
                      /\ \A h \in fin' : h.cmd = g.cmd => h = g
    BY <1>u DEF InvFin, Live
  <2>3. CASE g \in fin /\ g # f
    <3>1. g.cmd \in Cmds /\ g.cmd # f.cmd
      BY <2>1, <2>3, FieldTypes
    <3>2. Live(g.cmd)' /\ row'[g.cmd] = row[g.cmd]
      BY <1>a, <2>3, <3>1 DEF InvFin, Live
    <3>3. \A h \in fin' : h.cmd = g.cmd => h = g
      BY <1>b, <1>1b, <2>3, <3>1 DEF InvFin
    <3> QED BY <2>3, <3>2, <3>3 DEF InvFin
  <2>4. CASE g = Sending(f) /\ outcome = "accepted"
    <3>1. \A h \in fin' : h.cmd = g.cmd => h = g
      BY <1>b, <1>1b, <2>1, <2>4
    <3> QED BY <1>a, <1>1a, <1>1b, <1>l, <2>1, <2>2, <2>4, <3>1 DEF Live
  <2> QED BY <1>b, <2>3, <2>4
<1>6. InvReplay'
  <2> SUFFICES ASSUME NEW k \in Calls, pc[k] # "idle" PROVE Replaying(k)'
    BY <1>u DEF InvReplay, Replaying
  <2>1. req[k].cmd \in Cmds /\ Replaying(k)
    BY FieldTypes DEF InvReplay
  <2>2. \A res \in Results : res # "reserved"
    BY ResultFacts
  <2> QED BY <1>a, <1>u, <2>1, <2>2 DEF Replaying, Live
<1>7. InvTimer'
  <2>1. \A m \in timer : m \in Cmds
    BY DEF TypeOK
  <2> QED BY <1>a, <1>u, <2>1 DEF InvTimer, Live
<1>8. InvScan'
  <2>1. \A c \in Conns : \A m \in todo[c] : m \in Cmds
    BY DEF TypeOK
  <2> SUFFICES ASSUME NEW c \in Conns, NEW m \in todo[c]
               PROVE  /\ Live(m)'
                      /\ \A k \in Calls : ~Inserting(k, m)
                      /\ inFlight[m] # NoEntry => ~IsActive(inFlight[m].tgt)
    BY <1>u DEF InvScan, Inserting, IsActive
  <2>2. m \in Cmds /\ Live(m)
    BY <2>1 DEF InvScan
  <2>3. Live(m)'
    BY <1>a, <2>2 DEF Live
  <2> QED BY <2>3 DEF InvScan
<1>9. ToldResultIsStored'
  <2>1. ASSUME NEW n \in Cmds, row'[n] # NoRow
        PROVE  \/ row[n] # NoRow /\ row'[n].status = row[n].status
               \/ row[n] # NoRow /\ row[n].status = "reserved"
    BY <1>a, <2>1
  <2>2. \A res \in Results : res # "reserved"
    BY ResultFacts
  <2> QED BY <1>u, <2>1, <2>2 DEF ToldResultIsStored
<1>10. InvReg' /\ InvRouted'
  BY <1>u DEF InvReg, IsActive, Registered, InvRouted, Routed
<1>11. InvBound' /\ InvNotified'
  BY <1>u DEF InvBound, IsActive, Submitting, Inserting, InvNotified, Notified
<1>12. AtMostOneDelivery' /\ AcceptedAfterReceived'
  BY <1>u DEF AtMostOneDelivery, AcceptedAfterReceived
<1> QED BY <1>1, <1>2, <1>3, <1>4, <1>5, <1>6, <1>7, <1>8, <1>9, <1>10, <1>11, <1>12

-----------------------------------------------------------------------------
(***************************************************************************)
(* The two steps of a call that create the work on a command.              *)
(***************************************************************************)

(* The insert creates the one entry of a reserved command: no entry is     *)
(* overwritten.                                                            *)
LEMMA InsertStep ==
  ASSUME IInv, NEW k \in Calls, pc[k] # "idle", InsertInFlight(k)
  PROVE  IInv'
<1> USE DEF IInv
<1> DEFINE entry == [ctl |-> req[k].ctl, tgt |-> bound[k]]
<1>a. req[k].cmd \in Cmds /\ req[k].ctl \in Conns /\ bound[k] \in Conns
  BY FieldTypes DEF InsertInFlight, InvRouted, Routed
<1>b. /\ entry \in Entry /\ entry # NoEntry
      /\ entry.ctl = req[k].ctl /\ entry.tgt = bound[k]
  BY <1>a DEF Entry
<1>c. inFlight' = [inFlight EXCEPT ![req[k].cmd] = entry]
  BY DEF InsertInFlight
<1> HIDE DEF entry
<1>1. TypeOK'
  BY <1>a, <1>b, <1>c DEF TypeOK, RegTypeOK, InsertInFlight, Goto, regVars, CallPCs
<1>2. InvRouted'
  BY <1>a, <1>b, <1>c DEF TypeOK, InvRouted, Routed, Registered, InsertInFlight, Goto, regVars
<1>3. InvSubmit'
  BY <1>a, <1>b, <1>c DEF TypeOK, InvSubmit, Submitting, Live, InsertInFlight, Goto, regVars
<1>4. InvInsert'
  BY <1>a, <1>b, <1>c DEF TypeOK, InvInsert, Inserting, InsertInFlight, Goto, regVars, InvSubmit, Submitting
<1>5. InvBound'
  <2> SUFFICES ASSUME NEW j \in Calls, NEW n \in Cmds, Submitting(j, n)'
               PROVE  /\ inFlight'[n] # NoEntry =>
                           inFlight'[n].ctl = req[j].ctl /\ inFlight'[n].tgt = bound[j]
                      /\ ~Inserting(j, n)' /\ inFlight'[n] = NoEntry => ~IsActive(bound[j])
    BY DEF InvBound, IsActive, InsertInFlight, Goto, regVars
  <2>1. Submitting(k, req[k].cmd) /\ Submitting(j, n)
    BY DEF TypeOK, Submitting, InsertInFlight, Goto
  <2>2. CASE j = k
    <3>1. n = req[k].cmd
      BY <2>1, <2>2 DEF Submitting
    <3> QED BY <1>a, <1>b, <1>c, <2>2, <3>1 DEF TypeOK
  <2>3. CASE j # k
    <3>1. n # req[k].cmd
      BY <1>a, <2>1, <2>3 DEF InvSubmit
    <3>2. inFlight'[n] = inFlight[n] /\ (Inserting(j, n)' <=> Inserting(j, n))
      BY <1>c, <2>3, <3>1 DEF TypeOK, Inserting, InsertInFlight, Goto
    <3> QED BY <2>1, <3>2 DEF InvBound
  <2> QED BY <2>2, <2>3
<1>6. InvNotified'
  BY <1>a, <1>b, <1>c DEF TypeOK, InvNotified, Notified, InsertInFlight, Goto, regVars
<1>7. InvEntry'
  BY <1>a, <1>b, <1>c DEF TypeOK, InvEntry, Live, Registered, InsertInFlight, Goto, regVars, InvSubmit, InvInsert, Submitting, Inserting, InvRouted, Routed
<1>8. InvFin'
  BY <1>a, <1>b, <1>c DEF TypeOK, InvFin, Live, InsertInFlight, Goto, regVars, InvInsert, Inserting
<1>9. InvReplay'
  BY <1>a, <1>b, <1>c DEF TypeOK, InvReplay, Replaying, Live, InsertInFlight, Goto, regVars
<1>10. InvScan'
  BY <1>a, <1>b, <1>c DEF TypeOK, InvScan, Inserting, Live, IsActive, InsertInFlight, Goto, regVars
<1>11. InvReg' /\ InvTimer' /\ AtMostOneDelivery' /\ ToldResultIsStored' /\ AcceptedAfterReceived'
  BY DEF InvReg, IsActive, Registered, InvTimer, Live, AtMostOneDelivery, ToldResultIsStored, AcceptedAfterReceived, InsertInFlight, Goto, regVars
<1> QED BY <1>1, <1>2, <1>3, <1>4, <1>5, <1>6, <1>7, <1>8, <1>9, <1>10, <1>11

(* The first and only delivery of a reservation.                           *)
LEMMA DeliverStep ==
  ASSUME IInv, NEW k \in Calls, pc[k] # "idle", pc[k] = "dispatch", SendOk(bound[k]), Dispatch(k)
  PROVE  IInv'
<1> USE DEF IInv
<1>a. req[k].cmd \in Cmds /\ bound[k] \in Conns
  BY FieldTypes DEF InvRouted, Routed
<1>b. /\ Submitting(k, req[k].cmd)
      /\ ReceivedFrame(req[k].cmd) \in told[req[k].ctl]
  BY DEF Submitting, InvNotified, Notified
<1>u. /\ UNCHANGED <<row, inFlight, fin, todo, sess, active, cleaning, told, req,
                     bound, loaded>>
      /\ timer' = timer \cup {req[k].cmd}
      /\ pc' = [pc EXCEPT ![k] = "done"]
      /\ deliveries' = [deliveries EXCEPT ![req[k].cmd] = @ + 1]
  BY DEF Dispatch, Goto, Enqueue, regVars
<1>t. deliveries \in [Cmds -> Nat] /\ pc \in [Calls -> CallPCs]
  BY DEF TypeOK
<1>1. TypeOK'
  <2>1. queued' \in [Conns -> 0..OutCap]
    BY <1>a DEF TypeOK, Dispatch, Enqueue, SendOk
  <2>2. deliveries' \in [Cmds -> Nat] /\ pc' \in [Calls -> CallPCs] /\ timer' \subseteq Cmds
    BY <1>a, <1>u, <1>t DEF TypeOK, CallPCs
  <2>3. RegTypeOK' /\ restarts' = restarts
    BY DEF TypeOK, RegTypeOK, Dispatch, regVars
  <2>4. \A j \in Calls : pc'[j] # "idle" => req[j] \in Request
    BY <1>u, <1>t DEF TypeOK
  <2> QED BY <1>u, <2>1, <2>2, <2>3, <2>4 DEF TypeOK
<1>2. InvRouted' /\ InvReg'
  BY <1>u, <1>t DEF InvRouted, Routed, Registered, InvReg, IsActive
<1>3. InvSubmit'
  BY <1>a, <1>b, <1>u, <1>t DEF InvSubmit, Submitting, Live
<1>4. InvInsert'
  BY <1>u, <1>t DEF InvInsert, Inserting
<1>5. InvBound'
  BY <1>u, <1>t DEF InvBound, Submitting, Inserting, IsActive
<1>6. InvNotified'
  BY <1>u, <1>t DEF InvNotified, Notified
<1>7. InvEntry'
  <2> SUFFICES ASSUME NEW m \in Cmds, inFlight[m] # NoEntry
               PROVE  /\ Live(m) /\ row[m].status = "reserved"
                      /\ row[m].target = DeviceOf[inFlight[m].tgt]
                      /\ Registered(inFlight[m].tgt)
                      /\ deliveries'[m] > 0 => ReceivedFrame(m) \in told[inFlight[m].ctl]
    BY <1>u DEF InvEntry, Live, Registered
  <2>1. m = req[k].cmd => inFlight[m].ctl = req[k].ctl
    BY <1>b DEF InvBound
  <2>2. m # req[k].cmd => deliveries'[m] = deliveries[m]
    BY <1>a, <1>u, <1>t
  <2> QED BY <1>b, <2>1, <2>2 DEF InvEntry
<1>8. InvReplay'
  BY <1>u, <1>t DEF InvReplay, Replaying, Live
<1>9. InvTimer'
  <2>1. Live(req[k].cmd) /\ deliveries'[req[k].cmd] > 0
    BY <1>a, <1>b, <1>u, <1>t DEF InvSubmit
  <2>2. \A n \in timer : Live(n) /\ deliveries'[n] > 0
    BY <1>a, <1>u, <1>t DEF TypeOK, InvTimer
  <2> QED BY <1>u, <2>1, <2>2 DEF InvTimer, Live
<1>10. InvScan'
  BY <1>u, <1>t DEF InvScan, Inserting, Live, IsActive
<1>11. AtMostOneDelivery'
  <2>1. deliveries[req[k].cmd] = 0
    BY <1>a, <1>b DEF InvSubmit
  <2> QED BY <1>a, <1>u, <1>t, <2>1 DEF AtMostOneDelivery
<1>12. InvFin' /\ ToldResultIsStored' /\ AcceptedAfterReceived'
  BY <1>u DEF InvFin, Live, ToldResultIsStored, AcceptedAfterReceived
<1> QED BY <1>1, <1>2, <1>3, <1>4, <1>5, <1>6, <1>7, <1>8, <1>9, <1>10, <1>11, <1>12

-----------------------------------------------------------------------------
(***************************************************************************)
(* The actions of CommandRouter preserve the invariant.  First those that  *)
(* are of one of the kinds of steps above: they move a call, tell a        *)
(* controller something, take an entry, or concern the registry only.      *)
(***************************************************************************)

(* Draining a queue preserves the invariant.                               *)
LEMMA DrainStep ==
  ASSUME IInv, NEW c \in Conns, Drain(c)
  PROVE  IInv'
<1>1. TypeOK'
  BY DEF IInv, TypeOK, RegTypeOK, Drain, regVars, callVars
<1>2. CallsMove
  BY DEF CallsMove, Kept, Drain, callVars
<1>3. ToldMore
  BY DEF IInv, ToldMore, ToldResultIsStored, AcceptedAfterReceived, Drain
<1> QED BY <1>1, <1>2, <1>3, MoveStep DEF Drain, regVars

(* A step that changes nothing preserves the invariant.                    *)
LEMMA StutterStep ==
  ASSUME IInv, UNCHANGED vars
  PROVE  IInv'
<1> USE DEF vars, regVars, routerVars, callVars
<1>1. TypeOK'
  BY DEF IInv, TypeOK, RegTypeOK
<1>2. CallsMove
  BY DEF CallsMove, Kept
<1>3. ToldMore
  BY DEF IInv, ToldMore, ToldResultIsStored, AcceptedAfterReceived
<1> QED BY <1>1, <1>2, <1>3, MoveStep

(* A new call of submit has reserved nothing yet.                          *)
LEMMA SubmitStep ==
  ASSUME IInv, NEW k \in Calls, NEW via \in {"loop", "voice"}, NEW m \in Cmds,
         NEW body \in Bodies, NEW ctl \in Conns, NEW target \in Devices,
         Submit(k, via, m, body, ctl, target)
  PROVE  IInv'
<1>1. TypeOK'
  BY DEF IInv, TypeOK, RegTypeOK, Submit, regVars, Request, CallPCs
<1>2. CallsMove
  BY DEF IInv, TypeOK, CallsMove, Kept, Moved, Submitting, Inserting, Routed,
         Notified, Replaying, Submit
<1>3. ToldMore
  BY DEF IInv, ToldMore, ToldResultIsStored, AcceptedAfterReceived, Submit
<1> QED BY <1>1, <1>2, <1>3, MoveStep DEF Submit, regVars

(* The generation a call is bound to is one of its target device.          *)
LEMMA RouteStep ==
  ASSUME IInv, NEW k \in Calls, pc[k] # "idle", Route(k)
  PROVE  IInv'
<1>1. TypeOK'
  BY FieldTypes DEF IInv, TypeOK, RegTypeOK, Route, regVars, CallPCs
<1>2. Routed(k)'
  BY FieldTypes DEF IInv, TypeOK, RegTypeOK, InvReg, Routed, Registered, Route,
                    regVars
<1>3. CallsMove
  BY <1>2 DEF IInv, TypeOK, CallsMove, Kept, Moved, Submitting, Inserting,
              Notified, Replaying, Route
<1>4. ToldMore
  BY DEF IInv, ToldMore, ToldResultIsStored, AcceptedAfterReceived, Route
<1> QED BY <1>1, <1>3, <1>4, MoveStep DEF Route, regVars

(* A replay loads the status of a record that stays in the window.         *)
LEMMA LoadStep ==
  ASSUME IInv, NEW k \in Calls, pc[k] # "idle", Load(k)
  PROVE  IInv'
<1>1. TypeOK'
  BY FieldTypes DEF IInv, TypeOK, RegTypeOK, Load, Goto, regVars, CallPCs,
                    LoadStatus, Row
<1>2. Replaying(k)'
  BY ResultFacts DEF IInv, TypeOK, InvReplay, Replaying, Live, Load, Goto,
                     LoadStatus
<1>3. Routed(k)'
  BY DEF IInv, TypeOK, InvRouted, Routed, Registered, Load, Goto, regVars
<1>4. CallsMove
  BY <1>2, <1>3 DEF IInv, TypeOK, CallsMove, Kept, Moved, Submitting, Inserting,
                    Notified, Load, Goto
<1>5. ToldMore
  BY DEF IInv, ToldMore, ToldResultIsStored, AcceptedAfterReceived, Load
<1> QED BY <1>1, <1>4, <1>5, MoveStep DEF Load, regVars

(* A call that only goes from one program point to another.                *)
LEMMA GotoStep ==
  ASSUME IInv, NEW k \in Calls, pc[k] # "idle", NEW label \in CallPCs \ {"idle"},
         Goto(k, label),
         UNCHANGED <<regVars, row, inFlight, fin, timer, todo, queued, told,
                     deliveries, restarts>>,
         pc[k] \notin {"route", "done"},
         \/ label \in {"done", "load"}
         \/ pc[k] = "capacity" /\ label \in {"reject", "insert"}
         \/ pc[k] = "resolve" /\ label = "dispatch",
         label = "load" => Live(req[k].cmd)
  PROVE  IInv'
<1>1. TypeOK'
  BY DEF IInv, TypeOK, RegTypeOK, Goto, regVars
<1>2. Routed(k)'
  BY DEF IInv, TypeOK, InvRouted, Routed, Registered, Goto, regVars
<1>3. /\ pc'[k] = label /\ req'[k] = req[k]
      /\ label = "dispatch" => pc[k] = "resolve"
      /\ label \notin {"resolve", "replay", "tell"}
  BY DEF IInv, TypeOK, Goto
<1>a. Notified(k)'
  BY <1>3 DEF IInv, InvNotified, Notified, ReceivedFrame
<1>b. Replaying(k)'
  BY <1>3 DEF Replaying, Live
<1>4. CallsMove
  BY <1>2, <1>a, <1>b DEF IInv, TypeOK, CallsMove, Kept, Moved, Submitting,
                          Inserting, Goto
<1>5. ToldMore
  BY DEF IInv, ToldMore, ToldResultIsStored, AcceptedAfterReceived
<1> QED BY <1>1, <1>4, <1>5, MoveStep DEF regVars

(* Counting the entries only moves the call.                               *)
LEMMA CapacityStep ==
  ASSUME IInv, NEW k \in Calls, pc[k] # "idle", CheckCapacity(k)
  PROVE  IInv'
<1> DEFINE label == IF OverCapacity(req[k].ctl, req[k].target)
                    THEN "reject" ELSE "insert"
<1>1. label \in CallPCs \ {"idle"} /\ label \in {"reject", "insert"}
  BY DEF CallPCs
<1>2. /\ Goto(k, label) /\ pc[k] = "capacity"
      /\ UNCHANGED <<regVars, row, inFlight, fin, timer, todo, queued, told,
                     deliveries, restarts>>
  BY DEF CheckCapacity
<1> HIDE DEF label
<1> QED BY <1>1, <1>2, GotoStep

(* The return of a failed submit only moves the call.                      *)
LEMMA ReturnStep ==
  ASSUME IInv, NEW k \in Calls, pc[k] # "idle", ReturnFinished(k)
  PROVE  IInv'
<1>1. "done" \in CallPCs \ {"idle"}
  BY DEF CallPCs
<1>2. /\ Goto(k, "done") /\ pc[k] = "finish"
      /\ UNCHANGED <<regVars, row, inFlight, fin, timer, todo, queued, told,
                     deliveries, restarts>>
  BY DEF ReturnFinished
<1> QED BY <1>1, <1>2, GotoStep

(* A resolved station moves the call to dispatch.                          *)
LEMMA ResolvedStep ==
  ASSUME IInv, NEW k \in Calls, pc[k] = "resolve", Goto(k, "dispatch"),
         UNCHANGED <<regVars, row, inFlight, fin, timer, todo, queued, told,
                     deliveries, restarts>>
  PROVE  IInv'
<1>1. "dispatch" \in CallPCs \ {"idle"}
  BY DEF CallPCs
<1> QED BY <1>1, GotoStep

(* A reservation that is not accepted changes no record.                   *)
LEMMA ReserveOtherStep ==
  ASSUME IInv, NEW k \in Calls, pc[k] # "idle", pc[k] = "reserve",
         NEW label \in {"load", "done"},
         label = "load" => Live(req[k].cmd), Goto(k, label),
         UNCHANGED <<row, told, deliveries>>,
         UNCHANGED <<regVars, inFlight, fin, timer, todo, queued, restarts>>
  PROVE  IInv'
<1>1. label \in CallPCs \ {"idle"}
  BY DEF CallPCs
<1> QED BY <1>1, GotoStep

(* A call that sends its controller a frame and moves on: to dispatch      *)
(* after command.received, to the result of a replay, or out.              *)
LEMMA CallTellStep ==
  ASSUME IInv, NEW k \in Calls, pc[k] \in {"notify", "replay", "tell"},
         NEW frame, SendFrame(req[k].ctl, frame),
         \/ frame = ReceivedFrame(req[k].cmd)
         \/ \E res \in Results : /\ frame = ResultFrame(req[k].cmd, res)
                                 /\ row[req[k].cmd].status = res,
         NEW label \in {"done", "tell", "resolve", "dispatch"}, Goto(k, label),
         label = "tell" => pc[k] = "replay" /\ loaded[k] \in Results,
         label \in {"resolve", "dispatch"} =>
            /\ pc[k] = "notify" /\ SendOk(req[k].ctl)
            /\ frame = ReceivedFrame(req[k].cmd),
         UNCHANGED <<regVars, row, inFlight, fin, timer, todo, deliveries,
                     restarts>>
  PROVE  IInv'
<1>1. req[k].cmd \in Cmds /\ req[k].ctl \in Conns
  BY FieldTypes DEF IInv
<1>2. /\ queued' \in [Conns -> 0..OutCap]
      /\ told' \in [Conns -> SUBSET Frame]
      /\ ToldMore
      /\ SendOk(req[k].ctl) => frame \in told'[req[k].ctl]
  BY <1>1, TellStep
<1>3. TypeOK'
  BY <1>2 DEF IInv, TypeOK, RegTypeOK, Goto, regVars, CallPCs
<1>4. Routed(k)'
  BY DEF IInv, TypeOK, InvRouted, Routed, Registered, Goto, regVars
<1>5. Notified(k)'
  BY <1>2 DEF IInv, TypeOK, Notified, Goto
<1>6. Replaying(k)'
  BY DEF IInv, TypeOK, InvReplay, Replaying, Live, Goto, regVars
<1>7. CallsMove
  BY <1>4, <1>5, <1>6 DEF IInv, TypeOK, CallsMove, Kept, Moved, Submitting,
                          Inserting, Goto
<1> QED BY <1>2, <1>3, <1>7, MoveStep DEF regVars

(* command.received is queued before the call goes on to dispatch.         *)
LEMMA NotifyStep ==
  ASSUME IInv, NEW k \in Calls, pc[k] # "idle", Notify(k)
  PROVE  IInv'
<1> DEFINE label == IF ~SendOk(req[k].ctl) THEN "done"
                    ELSE IF req[k].body \in StationBodies THEN "resolve"
                    ELSE "dispatch"
<1>1. /\ label \in {"done", "tell", "resolve", "dispatch"} /\ label # "tell"
      /\ label \in {"resolve", "dispatch"} => SendOk(req[k].ctl)
  OBVIOUS
<1>2. /\ pc[k] = "notify" /\ Goto(k, label)
      /\ SendFrame(req[k].ctl, ReceivedFrame(req[k].cmd))
      /\ UNCHANGED <<regVars, row, inFlight, fin, timer, todo, deliveries,
                     restarts>>
  BY DEF Notify
<1> HIDE DEF label
<1> QED BY <1>1, <1>2, CallTellStep

(* A replay first repeats command.received.                                *)
LEMMA ReplayReceivedStep ==
  ASSUME IInv, NEW k \in Calls, pc[k] # "idle", ReplayReceived(k)
  PROVE  IInv'
<1> DEFINE label == IF SendOk(req[k].ctl) /\ loaded[k] \in Results
                    THEN "tell" ELSE "done"
<1>1. /\ label \in {"done", "tell", "resolve", "dispatch"}
      /\ label \notin {"resolve", "dispatch"}
      /\ label = "tell" => loaded[k] \in Results
  OBVIOUS
<1>2. /\ pc[k] = "replay" /\ Goto(k, label)
      /\ SendFrame(req[k].ctl, ReceivedFrame(req[k].cmd))
      /\ UNCHANGED <<regVars, row, inFlight, fin, timer, todo, deliveries,
                     restarts>>
  BY DEF ReplayReceived
<1> HIDE DEF label
<1> QED BY <1>1, <1>2, CallTellStep

(* A replay tells the result that is in the database.                      *)
LEMMA ReplayResultStep ==
  ASSUME IInv, NEW k \in Calls, pc[k] # "idle", ReplayResult(k)
  PROVE  IInv'
<1>1. /\ pc[k] = "tell" /\ Goto(k, "done")
      /\ SendFrame(req[k].ctl, ResultFrame(req[k].cmd, loaded[k]))
      /\ UNCHANGED <<regVars, row, inFlight, fin, timer, todo, deliveries,
                     restarts>>
  BY DEF ReplayResult
<1>2. loaded[k] \in Results /\ row[req[k].cmd].status = loaded[k]
  BY <1>1 DEF IInv, InvReplay, Replaying
<1> QED BY <1>1, <1>2, CallTellStep

(* command.accepted is queued only after command.received.                 *)
LEMMA AcceptedStep ==
  ASSUME IInv, NEW c \in Conns, NEW m \in Cmds, Accepted(c, m)
  PROVE  IInv'
<1>1. /\ inFlight[m].ctl \in Conns /\ row' = row
      /\ ReceivedFrame(m) \in told[inFlight[m].ctl]
  BY FieldTypes DEF IInv, InvEntry, Accepted, FromTarget
<1>2. SendFrame(inFlight[m].ctl, AcceptedFrame(m))
  BY DEF Accepted
<1>3. /\ queued' \in [Conns -> 0..OutCap]
      /\ told' \in [Conns -> SUBSET Frame]
      /\ ToldMore
  BY <1>1, <1>2, TellStep
<1>4. TypeOK'
  BY <1>3 DEF IInv, TypeOK, RegTypeOK, Accepted, regVars, callVars
<1>5. CallsMove
  BY DEF CallsMove, Kept, Accepted, callVars
<1> QED BY <1>3, <1>4, <1>5, MoveStep DEF Accepted, regVars

(* finish tells the result it has stored.                                  *)
LEMMA FinishSendStep ==
  ASSUME IInv, NEW f \in fin, FinishSend(f)
  PROVE  IInv'
<1>1. /\ f.cmd \in Cmds /\ f.result \in Results /\ f.ctl \in Conns
      /\ row' = row /\ row[f.cmd].status = f.result
  BY FieldTypes DEF IInv, InvFin, FinishSend
<1>2. SendFrame(f.ctl, ResultFrame(f.cmd, f.result))
  BY DEF FinishSend
<1>3. /\ queued' \in [Conns -> 0..OutCap]
      /\ told' \in [Conns -> SUBSET Frame]
      /\ ToldMore
  BY <1>1, <1>2, TellStep
<1>4. TypeOK'
  BY <1>3 DEF IInv, TypeOK, RegTypeOK, FinishSend, regVars, callVars
<1>5. CallsMove
  BY DEF CallsMove, Kept, FinishSend, callVars
<1> QED BY <1>3, <1>4, <1>5, MoveStep DEF FinishSend, regVars
-----------------------------------------------------------------------------
(* A deadline takes the entry of a delivered command, or nothing.          *)
LEMMA TimeoutStep ==
  ASSUME IInv, NEW m \in Cmds, Timeout(m)
  PROVE  IInv'
<1>1. "command_timeout" \in Results /\ "timer" \in Calls \cup Conns \cup {"timer"}
  BY ResultFacts DEF Failures
<1>2. StartFinish(m, "command_timeout", "timer")
  BY DEF Timeout
<1>3. TypeOK'
  BY <1>1, <1>2, StartFinishEffect
     DEF IInv, TypeOK, RegTypeOK, Timeout, regVars, callVars
<1>4. CallsMove
  BY DEF CallsMove, Kept, Timeout, callVars
<1>5. \A k \in Calls : ~Submitting(k, m)'
  BY DEF IInv, InvTimer, InvSubmit, Submitting, Timeout, callVars
<1> QED BY <1>1, <1>2, <1>3, <1>4, <1>5, TakeStep DEF Timeout, regVars

(* A result frame takes the entry of a delivered command.                  *)
LEMMA TargetResultStep ==
  ASSUME IInv, NEW c \in Conns, NEW m \in Cmds, TargetResult(c, m)
  PROVE  IInv'
<1>1. "target_result" \in Results /\ c \in Calls \cup Conns \cup {"timer"}
  BY ResultFacts DEF Results
<1>2. StartFinish(m, "target_result", c)
  BY DEF TargetResult
<1>3. TypeOK'
  BY <1>1, <1>2, StartFinishEffect
     DEF IInv, TypeOK, RegTypeOK, TargetResult, regVars, callVars
<1>4. CallsMove
  BY DEF CallsMove, Kept, TargetResult, callVars
<1>5. \A k \in Calls : ~Submitting(k, m)'
  BY DEF IInv, InvSubmit, Submitting, TargetResult, FromTarget, callVars
<1> QED BY <1>1, <1>2, <1>3, <1>4, <1>5, TakeStep DEF TargetResult, regVars

(* A disconnect scan takes entries bound to a generation that is gone.     *)
LEMMA ScanStepStep ==
  ASSUME IInv, NEW c \in Conns, NEW m \in Cmds, ScanStep(c, m)
  PROVE  IInv'
<1>1. "target_offline" \in Results /\ c \in Calls \cup Conns \cup {"timer"}
  BY ResultFacts DEF Failures
<1>2. StartFinish(m, "target_offline", c)
  BY DEF ScanStep
<1>3. TypeOK'
  BY <1>1, <1>2, StartFinishEffect
     DEF IInv, TypeOK, RegTypeOK, ScanStep, regVars, callVars
<1>4. CallsMove
  BY DEF CallsMove, Kept, ScanStep, callVars
<1>5. ASSUME NEW k \in Calls, Submitting(k, m)', inFlight[m] # NoEntry
      PROVE  ~IsActive(bound[k])
  BY <1>5 DEF IInv, InvScan, InvBound, Submitting, ScanStep, callVars
<1>6. \A d \in Conns : todo'[d] \subseteq todo[d]
  BY DEF IInv, TypeOK, ScanStep
<1> QED BY <1>1, <1>2, <1>3, <1>4, <1>5, <1>6, TakeStep DEF ScanStep, regVars

(* A call that fails takes its own entry, if a scan has not.               *)
LEMMA FailStep ==
  ASSUME IInv, NEW k \in Calls, pc[k] \in {"resolve", "dispatch"},
         NEW res \in Failures, StartFinish(req[k].cmd, res, k), Goto(k, "finish"),
         UNCHANGED <<regVars, row, timer, todo, queued, told, deliveries, restarts>>
  PROVE  IInv'
<1>1. /\ req[k].cmd \in Cmds /\ res \in Results
      /\ k \in Calls \cup Conns \cup {"timer"}
  BY FieldTypes, ResultFacts DEF IInv
<1>2. PICK m \in Cmds : m = req[k].cmd
  BY <1>1
<1>3. StartFinish(m, res, k)
  BY <1>2
<1>4. TypeOK'
  <2>1. TypeOK BY DEF IInv
  <2>2. /\ inFlight' \in [Cmds -> Entry \cup {NoEntry}]
        /\ fin' \subseteq Finisher
    BY <1>1, <1>3, <2>1, StartFinishEffect
  <2>3. RegTypeOK'
    BY <2>1 DEF TypeOK, RegTypeOK, regVars
  <2>4. pc' \in [Calls -> CallPCs]
    BY <2>1 DEF TypeOK, Goto, CallPCs
  <2> QED BY <2>1, <2>2, <2>3, <2>4 DEF TypeOK, Goto
<1>5. Routed(k)'
  BY DEF IInv, TypeOK, InvRouted, Routed, Registered, Goto, regVars
<1>6. CallsMove
  BY <1>5 DEF IInv, TypeOK, CallsMove, Kept, Moved, Submitting, Inserting,
              Notified, Replaying, Goto
<1>7. \A j \in Calls : ~Submitting(j, m)'
  BY <1>2 DEF IInv, TypeOK, InvSubmit, Submitting, Goto
<1>8. /\ UNCHANGED <<active, sess, cleaning, row, told, deliveries>>
      /\ timer' \subseteq timer /\ \A c \in Conns : todo'[c] \subseteq todo[c]
  BY DEF regVars
<1> QED BY <1>1, <1>3, <1>4, <1>6, <1>7, <1>8, TakeStep

-----------------------------------------------------------------------------
(* Sessions: the manifest is stored.                                       *)
LEMMA AdmitStep ==
  ASSUME IInv, NEW c \in Conns, Admit(c), UNCHANGED routerVars
  PROVE  IInv'
<1>0. RegTypeOK /\ InvReg
  BY DEF IInv, TypeOK
<1>1. RegTypeOK'
  BY <1>0 DEF RegTypeOK, SessStates, Admit
<1>2. InvReg'
  BY <1>0 DEF RegTypeOK, InvReg, IsActive, Registered, Admit
<1>3. \A e \in Conns :
         Registered(e) => Registered(e)' /\ (IsActive(e)' => IsActive(e))
  BY <1>0 DEF RegTypeOK, IsActive, Registered, Admit
<1> QED BY <1>1, <1>2, <1>3, RegistryStep

(* Sessions: a generation that has registered before never becomes active  *)
(* again.                                                                  *)
LEMMA RegisterStep ==
  ASSUME IInv, NEW c \in Conns, Register(c), UNCHANGED routerVars
  PROVE  IInv'
<1>0. RegTypeOK /\ InvReg
  BY DEF IInv, TypeOK
<1>1. RegTypeOK'
  BY <1>0 DEF RegTypeOK, SessStates, Register
<1>2. InvReg'
  BY <1>0 DEF RegTypeOK, InvReg, IsActive, Registered, Register
<1>3. \A e \in Conns :
         Registered(e) => Registered(e)' /\ (IsActive(e)' => IsActive(e))
  BY <1>0 DEF RegTypeOK, IsActive, Registered, Register
<1> QED BY <1>1, <1>2, <1>3, RegistryStep

(* Sessions: the handshake is over.                                        *)
LEMMA EnterLoopStep ==
  ASSUME IInv, NEW c \in Conns, EnterLoop(c), UNCHANGED routerVars
  PROVE  IInv'
<1>0. RegTypeOK /\ InvReg
  BY DEF IInv, TypeOK
<1>1. RegTypeOK'
  BY <1>0 DEF RegTypeOK, SessStates, EnterLoop
<1>2. InvReg'
  BY <1>0 DEF RegTypeOK, InvReg, IsActive, Registered, EnterLoop
<1>3. \A e \in Conns :
         Registered(e) => Registered(e)' /\ (IsActive(e)' => IsActive(e))
  BY <1>0 DEF RegTypeOK, IsActive, Registered, EnterLoop
<1> QED BY <1>1, <1>2, <1>3, RegistryStep

(* Sessions: device.registered cannot be sent.                             *)
LEMMA AbortStep ==
  ASSUME IInv, NEW c \in Conns, AbortRegistration(c), UNCHANGED routerVars
  PROVE  IInv'
<1>0. RegTypeOK /\ InvReg
  BY DEF IInv, TypeOK
<1>1. RegTypeOK'
  BY <1>0 DEF RegTypeOK, SessStates, AbortRegistration, RemoveOwn
<1>2. InvReg'
  BY <1>0 DEF RegTypeOK, InvReg, IsActive, Registered, AbortRegistration, RemoveOwn
<1>3. \A e \in Conns :
         Registered(e) => Registered(e)' /\ (IsActive(e)' => IsActive(e))
  BY <1>0 DEF RegTypeOK, IsActive, Registered, AbortRegistration, RemoveOwn
<1> QED BY <1>1, <1>2, <1>3, RegistryStep

(* Sessions: the first snapshot fails and the entry is left behind.        *)
LEMMA AbandonStep ==
  ASSUME IInv, NEW c \in Conns, AbandonRegistration(c), UNCHANGED routerVars
  PROVE  IInv'
<1>0. RegTypeOK /\ InvReg
  BY DEF IInv, TypeOK
<1>1. RegTypeOK'
  BY <1>0 DEF RegTypeOK, SessStates, AbandonRegistration
<1>2. InvReg'
  BY <1>0 DEF RegTypeOK, InvReg, IsActive, Registered, AbandonRegistration
<1>3. \A e \in Conns :
         Registered(e) => Registered(e)' /\ (IsActive(e)' => IsActive(e))
  BY <1>0 DEF RegTypeOK, IsActive, Registered, AbandonRegistration
<1> QED BY <1>1, <1>2, <1>3, RegistryStep

(* Sessions: the loop ends, and a generation that was still active owes a  *)
(* clean-up of its own commands.                                           *)
LEMMA EndLoopStep ==
  ASSUME IInv, NEW c \in Conns, EndLoop(c), UNCHANGED routerVars
  PROVE  IInv'
<1>0. RegTypeOK /\ InvReg
  BY DEF IInv, TypeOK
<1>1. RegTypeOK'
  BY <1>0 DEF RegTypeOK, SessStates, EndLoop, RemoveOwn
<1>2. InvReg'
  BY <1>0 DEF RegTypeOK, InvReg, IsActive, Registered, EndLoop, RemoveOwn
<1>3. \A e \in Conns :
         Registered(e) => Registered(e)' /\ (IsActive(e)' => IsActive(e))
  BY <1>0 DEF RegTypeOK, IsActive, Registered, EndLoop, RemoveOwn
<1> QED BY <1>1, <1>2, <1>3, RegistryStep

(* A device is revoked in the database.                                    *)
LEMMA RevokeStoreStep ==
  ASSUME IInv, NEW d \in Devices, RevokeInStore(d), UNCHANGED routerVars
  PROVE  IInv'
<1>0. RegTypeOK /\ InvReg
  BY DEF IInv, TypeOK
<1>1. RegTypeOK'
  BY <1>0 DEF RegTypeOK, SessStates, RevokeInStore
<1>2. InvReg'
  BY <1>0 DEF RegTypeOK, InvReg, IsActive, Registered, RevokeInStore
<1>3. \A e \in Conns :
         Registered(e) => Registered(e)' /\ (IsActive(e)' => IsActive(e))
  BY <1>0 DEF RegTypeOK, IsActive, Registered, RevokeInStore
<1> QED BY <1>1, <1>2, <1>3, RegistryStep

(* A revoked device loses its generation.                                  *)
LEMMA RevokeRegistryStep ==
  ASSUME IInv, NEW d \in Devices, RevokeInRegistry(d), UNCHANGED routerVars
  PROVE  IInv'
<1>0. RegTypeOK /\ InvReg
  BY DEF IInv, TypeOK
<1>1. RegTypeOK'
  BY <1>0 DEF RegTypeOK, SessStates, RevokeInRegistry
<1>2. InvReg'
  BY <1>0 DEF RegTypeOK, InvReg, IsActive, Registered, RevokeInRegistry
<1>3. \A e \in Conns :
         Registered(e) => Registered(e)' /\ (IsActive(e)' => IsActive(e))
  BY <1>0 DEF RegTypeOK, IsActive, Registered, RevokeInRegistry
<1> QED BY <1>1, <1>2, <1>3, RegistryStep

-----------------------------------------------------------------------------
(***************************************************************************)
(* The actions that end the work on a command: a rejection, and the        *)
(* collection of a scan.                                                   *)
(***************************************************************************)

(* A call over capacity decides the command only it is working on.         *)
LEMMA RejectStep ==
  ASSUME IInv, NEW k \in Calls, pc[k] # "idle", Reject(k)
  PROVE  IInv'
<1> USE DEF IInv
<1>a. /\ row' \in [Cmds -> Row \cup {NoRow}]
      /\ \A n \in Cmds : row'[n] # row[n] =>
           /\ n = req[k].cmd /\ row[n] # NoRow /\ row[n].status = "reserved"
           /\ row'[n] # NoRow /\ row'[n].status = "too_many_in_flight"
           /\ row'[n].target = row[n].target /\ row'[n].body = row[n].body
           /\ row'[n].fresh = row[n].fresh
  BY FieldTypes, ResultFacts, CompleteEffect DEF Reject, Failures
<1> DEFINE m == req[k].cmd
<1>b. /\ pc' = [pc EXCEPT ![k] = "done"]
      /\ UNCHANGED <<regVars, inFlight, req, bound, loaded, fin, timer, todo, queued, told,
                     deliveries, restarts>>
  BY DEF Reject, Goto
<1>c. m \in Cmds /\ Submitting(k, m) /\ Inserting(k, m)
  BY FieldTypes DEF Reject, Submitting, Inserting
<1>d. \A n \in Cmds : (Live(n)' <=> Live(n)) /\ (n # m => row'[n] = row[n])
  BY <1>a DEF Live
<1>e. \A n \in Cmds : row[n] = NoRow \/ row[n].status \in Results => row'[n] = row[n]
  BY <1>a, ResultFacts
<1> HIDE DEF m
<1>f. \A j \in Calls : j # k => pc'[j] = pc[j]
  BY <1>b DEF TypeOK
<1>g. pc'[k] = "done"
  BY <1>b DEF TypeOK
<1>h. ASSUME NEW j \in Calls, NEW n \in Cmds
      PROVE  /\ Submitting(j, n)' => Submitting(j, n) /\ n # m /\ j # k
             /\ Submitting(j, n)' => (Inserting(j, n)' <=> Inserting(j, n))
             /\ Inserting(j, n)' => Inserting(j, n) /\ n # m /\ j # k
  <2>1. Submitting(j, n)' => j # k
    BY <1>g DEF Submitting
  <2>2. Inserting(j, n)' => Submitting(j, n)'
    BY DEF Inserting, Submitting
  <2>3. j # k => /\ Submitting(j, n)' <=> Submitting(j, n)
                 /\ Inserting(j, n)' <=> Inserting(j, n)
    BY <1>b, <1>f DEF Submitting, Inserting
  <2>4. Submitting(j, n) /\ j # k => n # m
    BY <1>c DEF InvSubmit
  <2> QED BY <2>1, <2>2, <2>3, <2>4
<1>1. TypeOK'
  BY <1>a, <1>b DEF TypeOK, RegTypeOK, regVars, CallPCs
<1>2. InvRouted' /\ InvNotified'
  BY <1>b, <1>f, <1>g DEF InvRouted, Routed, Registered, InvNotified, Notified, regVars
<1>3. InvSubmit'
  BY <1>b, <1>d, <1>h DEF InvSubmit
<1>4. InvInsert'
  BY <1>b, <1>d, <1>h DEF InvInsert
<1>5. InvBound'
  BY <1>b, <1>h DEF InvBound, IsActive, regVars
<1>6. InvEntry'
  <2>1. \A n \in Cmds : inFlight[n] # NoEntry => n # m
    BY <1>c DEF InvInsert
  <2> QED BY <1>b, <1>d, <2>1 DEF InvEntry, Registered, regVars
<1>7. InvFin'
  <2>1. \A f \in fin : f.cmd \in Cmds /\ f.cmd # m
    BY <1>c, FieldTypes DEF InvInsert
  <2> QED BY <1>b, <1>d, <2>1 DEF InvFin
<1>8. InvReplay'
  <2> SUFFICES ASSUME NEW j \in Calls PROVE Replaying(j)'
    BY DEF InvReplay
  <2>1. CASE j = k
    BY <1>g, <2>1 DEF Replaying
  <2>2. CASE j # k
    <3>1. pc[j] # "idle" => req[j].cmd \in Cmds
      BY FieldTypes
    <3>2. Replaying(j) /\ pc'[j] = pc[j] /\ req'[j] = req[j] /\ loaded'[j] = loaded[j]
      BY <1>b, <1>f, <2>2 DEF InvReplay
    <3> QED BY <1>d, <1>e, <3>1, <3>2 DEF Replaying
  <2> QED BY <2>1, <2>2
<1>9. InvTimer'
  BY <1>b, <1>d DEF TypeOK, InvTimer
<1>10. InvScan'
  BY <1>b, <1>d, <1>h DEF TypeOK, InvScan, IsActive, regVars
<1>11. ToldResultIsStored'
  <2> SUFFICES ASSUME NEW e \in Conns, NEW n \in Cmds, NEW res \in Results,
                      ResultFrame(n, res) \in told[e], row'[n] # NoRow
               PROVE  row'[n].status = res
    BY <1>b DEF ToldResultIsStored, ResultFrame
  <2>1. row[n] # NoRow
    BY <1>e
  <2>2. row[n].status = res
    BY <2>1 DEF ToldResultIsStored
  <2> QED BY <1>e, <2>2
<1>12. InvReg' /\ AtMostOneDelivery' /\ AcceptedAfterReceived'
  BY <1>b DEF InvReg, IsActive, Registered, AtMostOneDelivery, AcceptedAfterReceived, regVars
<1> QED BY <1>1, <1>2, <1>3, <1>4, <1>5, <1>6, <1>7, <1>8, <1>9, <1>10, <1>11, <1>12

(* A disconnect scan collects entries of a generation that is gone.        *)
LEMMA ScanCollectStep ==
  ASSUME IInv, NEW c \in Conns, Scan(c)
  PROVE  IInv'
<1> USE DEF IInv
<1>1. TypeOK'
  BY DEF TypeOK, RegTypeOK, Scan, Cleaned, callVars
<1>2. InvReg'
  BY DEF TypeOK, InvReg, IsActive, Registered, Scan, Cleaned, callVars
<1>3. InvScan'
  <2>1. /\ todo' = [todo EXCEPT ![c] = {m \in Cmds : /\ inFlight[m] # NoEntry
                                                   /\ inFlight[m].tgt = cleaning[c]}]
        /\ UNCHANGED <<active, row, inFlight, pc, req>>
        /\ cleaning[c] \in Conns /\ ~IsActive(cleaning[c])
    BY DEF TypeOK, RegTypeOK, InvReg, Scan, Cleaned, callVars
  <2>2. ASSUME NEW m \in Cmds, inFlight[m] # NoEntry
        PROVE  Live(m) /\ \A k \in Calls : ~Inserting(k, m)
    BY <2>2 DEF InvEntry, InvInsert
  <2>3. ASSUME NEW e \in Conns, NEW m \in todo'[e]
        PROVE  /\ Live(m) /\ \A k \in Calls : ~Inserting(k, m)
               /\ inFlight[m] # NoEntry => ~IsActive(inFlight[m].tgt)
    <3>1. CASE e = c
      BY <2>1, <2>2, <3>1 DEF TypeOK
    <3>2. CASE e # c
      BY <2>1, <3>2 DEF TypeOK, InvScan
    <3> QED BY <3>1, <3>2
  <2> QED BY <2>1, <2>3 DEF InvScan, Live, Inserting, IsActive
<1>u. /\ UNCHANGED <<row, inFlight, pc, req, bound, loaded, fin, told, deliveries, active>>
      /\ \A e \in Conns : Registered(e)' <=> Registered(e)
  BY DEF TypeOK, RegTypeOK, Registered, Scan, Cleaned, callVars
<1>4. /\ InvRouted' /\ InvSubmit' /\ InvInsert' /\ InvBound'
      /\ InvNotified' /\ InvEntry' /\ InvFin' /\ InvReplay'
  <2>1. InvRouted' /\ InvNotified'
    BY <1>u DEF InvRouted, Routed, InvNotified, Notified
  <2>2. InvSubmit'
    BY <1>u DEF InvSubmit, Submitting, Live
  <2>3. InvInsert'
    BY <1>u DEF InvInsert, Inserting
  <2>4. InvBound'
    BY <1>u DEF InvBound, Submitting, Inserting, IsActive
  <2>5. InvEntry'
    BY <1>u, FieldTypes DEF InvEntry, Live
  <2>6. InvFin' /\ InvReplay'
    BY <1>u DEF InvFin, InvReplay, Replaying, Live
  <2> QED BY <2>1, <2>2, <2>3, <2>4, <2>5, <2>6
<1>6. InvTimer' /\ AtMostOneDelivery' /\ ToldResultIsStored' /\ AcceptedAfterReceived'
  BY DEF InvTimer, Live, AtMostOneDelivery, ToldResultIsStored, AcceptedAfterReceived, Scan, Cleaned, callVars
<1> QED BY <1>1, <1>2, <1>3, <1>4, <1>6


=============================================================================
