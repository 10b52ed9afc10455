--------------------------- MODULE CommandRouter ---------------------------
(***************************************************************************)
(* The command router of device_control_command/router.rs with everything  *)
(* it runs against: the connection generations (ConnectionRegistry), the   *)
(* durable command records (CommandStore), the bounded outbound queues,    *)
(* the deadline timers and the disconnect scans of the control sessions.   *)
(*                                                                         *)
(* The tokio runtime is multi-threaded, so calls interleave between any    *)
(* two lock acquisitions or awaits: each submit is a small program with a  *)
(* program counter, each finish has a stage before and after the store.    *)
(***************************************************************************)
EXTENDS ConnectionRegistry, Naturals, FiniteSets

CONSTANTS
    Cmds,           \* command_id, chosen by the controllers
    Bodies,         \* the rest of a command
    StationBodies,  \* the play_station bodies, resolved by the server
    Calls,          \* the calls of submit: one value for each
    MayControl,     \* pairs of devices that pass the owner, role, scope and
                    \* manifest checks of submit
    MaxConn,        \* MAX_CONNECTION_IN_FLIGHT (16 in the code)
    MaxTarget,      \* MAX_TARGET_IN_FLIGHT (8 in the code)
    OutCap,         \* capacity of an outbound queue (16 in the code)
    MaxRestarts,    \* bound: server restarts in a behaviour
    Unstable,       \* bound: devices whose sessions may end
    Events,         \* bound: the kinds of environment events that happen
    NoRow, NoEntry, NoRequest

INSTANCE CommandStore

Entry == [ctl : Conns, tgt : Conns]

EventKinds == {"store_error", "catalog_error", "revoke", "expire", "prune",
               "handshake_error"}

CallPCs == {"idle", "route", "reserve", "load", "replay", "tell",
            "capacity", "reject", "insert", "notify", "resolve", "dispatch", "finish", "done"}

Request == [via : {"loop", "voice"}, cmd : Cmds, body : Bodies,
            ctl : Conns, target : Devices]

ASSUME RouterAssumption ==
    /\ NoRow \notin Row /\ NoEntry \notin Entry /\ NoRequest \notin Request
    /\ StationBodies \subseteq Bodies
    /\ MayControl \subseteq Devices \X Devices
    /\ MaxConn \in Nat /\ MaxTarget \in Nat /\ OutCap \in Nat
    /\ MaxRestarts \in Nat
    /\ Unstable \subseteq Devices
    /\ Events \subseteq EventKinds
    /\ Calls \cap Conns = {}
    /\ "timer" \notin Calls \cup Conns

VARIABLES
    row,        \* device_control_commands
    inFlight,   \* CommandRouter.state
    pc,         \* where each call of submit is
    req,        \* its arguments
    bound,      \* the target generation it looked up
    loaded,     \* the status load_command returned to its replay
    fin,        \* the calls of finish that have removed their entry
    timer,      \* commands with a spawned deadline task
    todo,       \* commands a disconnect scan has collected, by session
    queued,     \* length of the outbound queue of a generation
    told,       \* history: the command frames queued for a controller
                \* generation since the row of the command was created
    deliveries, \* history: device.command frames queued for the target since
                \* the row of the command was created
    restarts

callVars == <<pc, req, bound, loaded>>

routerVars ==
    <<row, inFlight, callVars, fin, timer, todo, queued, told, deliveries, restarts>>

vars == <<regVars, routerVars>>

(* Frames to a controller; the one of a result carries the result.         *)
Frame == [kind : {"received", "accepted"}, cmd : Cmds]
            \cup [kind : {"result"}, cmd : Cmds, result : Results]

(* A finisher works for a submit, for a session (result frame or       *)
(* disconnect scan) or for the deadline timer.                             *)
Finisher == [cmd : Cmds, result : Results, ctl : Conns, target : Devices,
             by : Calls \cup Conns \cup {"timer"}, stage : {"complete", "send"}]

TypeOK ==
    /\ RegTypeOK
    /\ row \in [Cmds -> Row \cup {NoRow}]
    /\ inFlight \in [Cmds -> Entry \cup {NoEntry}]
    /\ pc \in [Calls -> CallPCs]
    /\ req \in [Calls -> Request \cup {NoRequest}]
    /\ \A k \in Calls : pc[k] # "idle" => req[k] \in Request
    /\ bound \in [Calls -> Conns \cup {NoConn}]
    /\ loaded \in [Calls -> {"none"} \cup Statuses]
    /\ fin \subseteq Finisher
    /\ timer \subseteq Cmds
    /\ todo \in [Conns -> SUBSET Cmds]
    /\ queued \in [Conns -> 0..OutCap]
    /\ told \in [Conns -> SUBSET Frame]
    /\ deliveries \in [Cmds -> Nat]
    /\ restarts \in 0..MaxRestarts

Init ==
    /\ RegInit
    /\ row = [m \in Cmds |-> NoRow]
    /\ inFlight = [m \in Cmds |-> NoEntry]
    /\ pc = [k \in Calls |-> "idle"]
    /\ req = [k \in Calls |-> NoRequest]
    /\ bound = [k \in Calls |-> NoConn]
    /\ loaded = [k \in Calls |-> "none"]
    /\ fin = {}
    /\ timer = {}
    /\ todo = [c \in Conns |-> {}]
    /\ queued = [c \in Conns |-> 0]
    /\ told = [c \in Conns |-> {}]
    /\ deliveries = [m \in Cmds |-> 0]
    /\ restarts = 0

Owned(d) == d \notin revoked

(* The session task of c is inside a handler: it neither reads its socket  *)
(* nor drains its queue.                                                   *)
Busy(c) ==
    \/ todo[c] # {}
    \/ \E f \in fin : f.by = c
    \/ \E k \in Calls : /\ pc[k] # "idle"
                        /\ req[k].via = "loop" /\ req[k].ctl = c
                        /\ pc[k] # "done"

(***************************************************************************)
(* registry.send_to, a try_send on the queue of exactly this generation:   *)
(* it fails when the generation is not active, when its session has ended  *)
(* (the receiver is dropped) and when the queue is full.                   *)
(***************************************************************************)
SendOkAnyGeneration(c) == \* mutant: connection_id is not compared
    sess[c] \in {"starting", "loop"} /\ queued[c] < OutCap

SendOk(c) ==
    /\ IsActive(c)
    /\ sess[c] \in {"starting", "loop"}
    /\ queued[c] < OutCap

Enqueue(c) == queued' = [queued EXCEPT ![c] = @ + 1]

(* send of a lifecycle frame; the caller decides what a failure means.     *)
SendFrame(c, frame) ==
    IF SendOk(c)
    THEN Enqueue(c) /\ told' = [told EXCEPT ![c] = @ \cup {frame}]
    ELSE UNCHANGED <<queued, told>>

ReceivedFrame(m) == [kind |-> "received", cmd |-> m]
AcceptedFrame(m) == [kind |-> "accepted", cmd |-> m]
ResultFrame(m, res) == [kind |-> "result", cmd |-> m, result |-> res]

(* A session takes one frame off its queue and writes it to the socket.    *)
Drain(c) ==
    /\ sess[c] = "loop" /\ ~Busy(c)
    /\ queued[c] > 0
    /\ queued' = [queued EXCEPT ![c] = @ - 1]
    /\ UNCHANGED <<regVars, row, inFlight, callVars, fin, timer, todo, told,
                   deliveries, restarts>>

-----------------------------------------------------------------------------
(***************************************************************************)
(* finish: the entry is removed under the lock; without one nothing        *)
(* happens.  Then the result is stored, then the controller is told, if    *)
(* the store accepted the result.                                          *)
(***************************************************************************)
StartFinishKeepingEntry(m, res, by) ==    \* mutant: get instead of remove
    /\ fin' = IF inFlight[m] = NoEntry THEN fin ELSE fin \cup
                {[cmd |-> m, result |-> res, ctl |-> inFlight[m].ctl,
                  target |-> DeviceOf[inFlight[m].tgt], by |-> by,
                  stage |-> "complete"]}
    /\ UNCHANGED inFlight

StartFinish(m, res, by) ==
    IF inFlight[m] = NoEntry
    THEN UNCHANGED <<inFlight, fin>>
    ELSE /\ inFlight' = [inFlight EXCEPT ![m] = NoEntry]
         /\ fin' = fin \cup
                {[cmd |-> m, result |-> res, ctl |-> inFlight[m].ctl,
                  target |-> DeviceOf[inFlight[m].tgt], by |-> by,
                  stage |-> "complete"]}

(* complete: the outcome of the store, with a database error (before or    *)
(* after the commit) read as a conflict.                                   *)
Complete(m, target, res, outcome) ==
    LET stored == CompleteOutcome(row[m], Owned(target), target, res)
        Apply == row' = IF stored = "accepted"
                        THEN [row EXCEPT ![m] = WithResult(@, res)] ELSE row
    IN \/ outcome = stored /\ Apply
       \/ /\ "store_error" \in Events
          /\ outcome = "conflict"
          /\ Apply \/ UNCHANGED row

Sending(f) ==
    [cmd |-> f.cmd, result |-> f.result, ctl |-> f.ctl, target |-> f.target,
     by |-> f.by, stage |-> "send"]

FinishCompleteAlwaysTelling(f) == \* mutant: the outcome is not looked at
    /\ f.stage = "complete"
    /\ \E outcome \in {"accepted", "replay", "conflict", "not_owned"} :
        Complete(f.cmd, f.target, f.result, outcome)
    /\ fin' = (fin \ {f}) \cup {Sending(f)}
    /\ UNCHANGED <<regVars, inFlight, callVars, timer, todo, queued, told,
                   deliveries, restarts>>

FinishComplete(f) ==
    /\ f.stage = "complete"
    /\ \E outcome \in {"accepted", "replay", "conflict", "not_owned"} :
        /\ Complete(f.cmd, f.target, f.result, outcome)
        /\ fin' = (fin \ {f}) \cup
                  (IF outcome = "accepted"
                   THEN {Sending(f)} ELSE {})
    /\ UNCHANGED <<regVars, inFlight, callVars, timer, todo, queued, told,
                   deliveries, restarts>>

FinishSend(f) ==
    /\ f.stage = "send"
    /\ SendFrame(f.ctl, ResultFrame(f.cmd, f.result))
    /\ fin' = fin \ {f}
    /\ UNCHANGED <<regVars, row, inFlight, callVars, timer, todo, deliveries,
                   restarts>>

-----------------------------------------------------------------------------
(***************************************************************************)
(* submit                                                                  *)
(***************************************************************************)
Goto(k, label) ==
    pc' = [pc EXCEPT ![k] = label] /\ UNCHANGED <<req, bound, loaded>>

(* The controller checks.  A frame read by the session loop of ctl, or a   *)
(* voice request that a device addresses to itself, beside its loop.  A    *)
(* request that fails a check changes nothing.                             *)
Submit(k, via, m, body, ctl, target) ==
    /\ pc[k] = "idle"
    /\ IsActive(ctl)
    /\ <<DeviceOf[ctl], target>> \in MayControl
    /\ via = "loop" => sess[ctl] = "loop" /\ ~Busy(ctl)
    /\ via = "voice" => DeviceOf[ctl] = target
    /\ pc' = [pc EXCEPT ![k] = "route"]
    /\ req' = [req EXCEPT ![k] = [via |-> via, cmd |-> m, body |-> body,
                                  ctl |-> ctl, target |-> target]]
    /\ UNCHANGED <<bound, loaded, regVars, row, inFlight, fin, timer, todo, queued, told,
                   deliveries, restarts>>

(* active_for(target): the generation the command will be bound to.  An    *)
(* offline target ends the call.                                           *)
Route(k) ==
    /\ pc[k] = "route"
    /\ LET tgt == active[req[k].target]
       IN /\ bound' = [bound EXCEPT ![k] = tgt]
          /\ pc' = [pc EXCEPT ![k] = IF tgt = NoConn THEN "done" ELSE "reserve"]
    /\ UNCHANGED <<req, loaded, regVars, row, inFlight, fin, timer, todo, queued, told,
                   deliveries, restarts>>

ReserveRedispatching(k) ==    \* mutant: a replay is dispatched again
    LET m == req[k].cmd
        outcome == ReserveOutcome(row[m], Owned(req[k].target),
                                  req[k].target, req[k].body)
    IN /\ pc[k] = "reserve"
       /\ IF outcome = "accepted"
          THEN /\ row' = [row EXCEPT ![m] =
                            NewRow(req[k].target, req[k].body)]
               /\ deliveries' = [deliveries EXCEPT ![m] = 0]
          ELSE UNCHANGED <<row, deliveries>>
       /\ Goto(k, IF outcome \in {"accepted", "replay"}
                  THEN "capacity" ELSE "done")
       /\ UNCHANGED <<regVars, inFlight, fin, timer, todo, queued, told,
                      restarts>>

(* A database error ends the call, whether or not the row was committed.   *)
Reserve(k) ==
    LET m == req[k].cmd
        outcome == ReserveOutcome(row[m], Owned(req[k].target),
                                  req[k].target, req[k].body)
        Insert == /\ row' = [row EXCEPT ![m] =
                                NewRow(req[k].target, req[k].body)]
                  /\ told' = [c \in Conns |->
                                {frame \in told[c] : frame.cmd # m}]
                  /\ deliveries' = [deliveries EXCEPT ![m] = 0]
    IN /\ pc[k] = "reserve"
       /\ \/ outcome = "accepted" /\ Insert /\ Goto(k, "capacity")
          \/ /\ outcome = "replay" /\ Goto(k, "load")
             /\ UNCHANGED <<row, told, deliveries>>
          \/ /\ outcome \in {"conflict", "not_owned"} /\ Goto(k, "done")
             /\ UNCHANGED <<row, told, deliveries>>
          \/ /\ "store_error" \in Events /\ Goto(k, "done")
             /\ \/ outcome = "accepted" /\ Insert
                \/ UNCHANGED <<row, told, deliveries>>
       /\ UNCHANGED <<regVars, inFlight, fin, timer, todo, queued, restarts>>

(* replay: load_command ...                                                *)
Load(k) ==
    /\ pc[k] = "load"
    /\ \/ /\ loaded' = [loaded EXCEPT ![k] =
                LoadStatus(row[req[k].cmd], Owned(req[k].target), req[k].target)]
          /\ pc' = [pc EXCEPT ![k] = "replay"]
          /\ UNCHANGED <<req, bound>>
       \/ "store_error" \in Events /\ Goto(k, "done")
    /\ UNCHANGED <<regVars, row, inFlight, fin, timer, todo, queued, told,
                   deliveries, restarts>>

(* ... then a duplicate command.received, and only if that could be        *)
(* queued ...                                                              *)
ReplayReceived(k) ==
    LET ctl == req[k].ctl
    IN /\ pc[k] = "replay"
       /\ SendFrame(ctl, ReceivedFrame(req[k].cmd))
       /\ Goto(k, IF SendOk(ctl) /\ loaded[k] \in Results
                  THEN "tell" ELSE "done")
       /\ UNCHANGED <<regVars, row, inFlight, fin, timer, todo, deliveries,
                      restarts>>

(* ... the result, if the loaded record had one.                           *)
ReplayResult(k) ==
    /\ pc[k] = "tell"
    /\ SendFrame(req[k].ctl, ResultFrame(req[k].cmd, loaded[k]))
    /\ Goto(k, "done")
    /\ UNCHANGED <<regVars, row, inFlight, fin, timer, todo, deliveries,
                   restarts>>

ConnInFlight(c) ==
    {m \in Cmds : inFlight[m] # NoEntry /\ inFlight[m].ctl = c}

TargetInFlight(d) ==
    {m \in Cmds : inFlight[m] # NoEntry /\ DeviceOf[inFlight[m].tgt] = d}

OverCapacityOffByOne(ctl, target) ==  \* mutant: > for >=
    \/ Cardinality(ConnInFlight(ctl)) > MaxConn
    \/ Cardinality(TargetInFlight(target)) > MaxTarget

OverCapacity(ctl, target) ==
    \/ Cardinality(ConnInFlight(ctl)) >= MaxConn
    \/ Cardinality(TargetInFlight(target)) >= MaxTarget

(* The counts are taken under the lock, which is then released.            *)
CheckCapacity(k) ==
    /\ pc[k] = "capacity"
    /\ Goto(k, IF OverCapacity(req[k].ctl, req[k].target)
               THEN "reject" ELSE "insert")
    /\ UNCHANGED <<regVars, row, inFlight, fin, timer, todo, queued, told,
                   deliveries, restarts>>

RejectUnrecorded(k) ==    \* mutant: a rejection is not recorded
    /\ pc[k] = "reject"
    /\ Goto(k, "done")
    /\ UNCHANGED <<regVars, row, inFlight, fin, timer, todo, queued, told,
                   deliveries, restarts>>

Reject(k) ==
    /\ pc[k] = "reject"
    /\ \E outcome \in {"accepted", "replay", "conflict", "not_owned"} :
        Complete(req[k].cmd, req[k].target, "too_many_in_flight", outcome)
    /\ Goto(k, "done")
    /\ UNCHANGED <<regVars, inFlight, fin, timer, todo, queued, told,
                   deliveries, restarts>>

InsertInFlight(k) ==
    /\ pc[k] = "insert"
    /\ inFlight' = [inFlight EXCEPT ![req[k].cmd] =
                      [ctl |-> req[k].ctl, tgt |-> bound[k]]]
    /\ Goto(k, "notify")
    /\ UNCHANGED <<regVars, row, fin, timer, todo, queued, told, deliveries,
                   restarts>>

NotifyIgnoringFailure(k) ==   \* mutant: a failed send is ignored
    /\ pc[k] = "notify"
    /\ SendFrame(req[k].ctl, ReceivedFrame(req[k].cmd))
    /\ Goto(k, "dispatch")
    /\ UNCHANGED <<regVars, row, inFlight, fin, timer, todo, deliveries,
                   restarts>>

(* command.received; when it cannot be queued the call returns at once.    *)
Notify(k) ==
    /\ pc[k] = "notify"
    /\ SendFrame(req[k].ctl, ReceivedFrame(req[k].cmd))
    /\ Goto(k, IF ~SendOk(req[k].ctl) THEN "done"
               ELSE IF req[k].body \in StationBodies THEN "resolve"
               ELSE "dispatch")
    /\ UNCHANGED <<regVars, row, inFlight, fin, timer, todo, deliveries,
                   restarts>>

(* resolve_station: the catalog knows the station, does not, or fails.     *)
Resolve(k) ==
    /\ pc[k] = "resolve"
    /\ \/ Goto(k, "dispatch") /\ UNCHANGED <<inFlight, fin>>
       \/ /\ "catalog_error" \in Events
          /\ \E res \in {"invalid_payload", "persistence_unavailable"} :
                StartFinish(req[k].cmd, res, k)
          /\ Goto(k, "finish")
    /\ UNCHANGED <<regVars, row, timer, todo, queued, told, deliveries,
                   restarts>>

(* device.command to the bound generation; then the deadline task is       *)
(* spawned.  A generation that cannot take it fails the command.           *)
Dispatch(k) ==
    LET m == req[k].cmd
        tgt == bound[k]
    IN /\ pc[k] = "dispatch"
       /\ IF SendOk(tgt)
          THEN /\ Enqueue(tgt)
               /\ deliveries' = [deliveries EXCEPT ![m] = @ + 1]
               /\ timer' = timer \cup {m}
               /\ Goto(k, "done")
               /\ UNCHANGED <<inFlight, fin>>
          ELSE /\ StartFinish(m, "target_offline", k)
               /\ Goto(k, "finish")
               /\ UNCHANGED <<queued, deliveries, timer>>
       /\ UNCHANGED <<regVars, row, todo, told, restarts>>

(* The finish of this call is over.                                        *)
ReturnFinished(k) ==
    /\ pc[k] = "finish"
    /\ \A f \in fin : f.by # k
    /\ Goto(k, "done")
    /\ UNCHANGED <<regVars, row, inFlight, fin, timer, todo, queued, told,
                   deliveries, restarts>>

-----------------------------------------------------------------------------
(***************************************************************************)
(* The target's frames, the deadline and the disconnect scan.  A frame     *)
(* that names no entry of exactly this generation changes nothing.         *)
(***************************************************************************)
(* A device answers only commands it was sent.                             *)
FromTarget(c, m) ==
    /\ sess[c] = "loop" /\ ~Busy(c)
    /\ inFlight[m] # NoEntry
    /\ inFlight[m].tgt = c
    /\ deliveries[m] > 0

Accepted(c, m) ==
    /\ FromTarget(c, m)
    /\ SendFrame(inFlight[m].ctl, AcceptedFrame(m))
    /\ UNCHANGED <<regVars, row, inFlight, callVars, fin, timer, todo, deliveries,
                   restarts>>

(* result reads the entry, then finish takes it: two locks, one effect.    *)
TargetResult(c, m) ==
    /\ FromTarget(c, m)
    /\ StartFinish(m, "target_result", c)
    /\ UNCHANGED <<regVars, row, callVars, timer, todo, queued, told, deliveries,
                   restarts>>

Timeout(m) ==
    /\ m \in timer
    /\ timer' = timer \ {m}
    /\ StartFinish(m, "command_timeout", "timer")
    /\ UNCHANGED <<regVars, row, callVars, todo, queued, told, deliveries, restarts>>

(* disconnected collects the commands of the generation under the lock ... *)
Scan(c) ==
    /\ Cleaned(c)
    /\ todo' = [todo EXCEPT ![c] =
         {m \in Cmds : inFlight[m] # NoEntry /\ inFlight[m].tgt = cleaning[c]}]
    /\ UNCHANGED <<row, inFlight, callVars, fin, timer, queued, told, deliveries,
                   restarts>>

(* ... and finishes them one after the other.                              *)
ScanStep(c, m) ==
    /\ m \in todo[c]
    /\ \A f \in fin : f.by # c
    /\ todo' = [todo EXCEPT ![c] = @ \ {m}]
    /\ StartFinish(m, "target_offline", c)
    /\ UNCHANGED <<regVars, row, callVars, timer, queued, told, deliveries, restarts>>

-----------------------------------------------------------------------------
(***************************************************************************)
(* Sessions and the environment                                            *)
(***************************************************************************)
MaySessionEnd(c) == DeviceOf[c] \in Unstable

Session(c) ==
    /\ \/ Admit(c)
       \/ Register(c)
       \/ EnterLoop(c) /\ ~Busy(c)
       \/ EndLoop(c) /\ ~Busy(c) /\ (MaySessionEnd(c) \/ ~IsActive(c))
       \/ /\ "handshake_error" \in Events /\ MaySessionEnd(c) /\ ~Busy(c)
          /\ AbortRegistration(c) \/ AbandonRegistration(c)
    /\ UNCHANGED routerVars

Revoke(d) ==
    /\ "revoke" \in Events
    /\ RevokeInStore(d) \/ RevokeInRegistry(d)
    /\ UNCHANGED routerVars

(* 24 hours pass for the record of m.  A command's work is over after at   *)
(* most MAX_TIMEOUT (30 s) and the store calls in progress; an entry left  *)
(* behind by a failed command.received is not aged.                        *)
Expire(m) ==
    /\ "expire" \in Events
    /\ row[m] # NoRow /\ row[m].fresh
    /\ \A k \in Calls : pc[k] # "idle" /\ req[k].cmd = m => pc[k] = "done"
    /\ \A f \in fin : f.cmd # m
    /\ \A c \in Conns : m \notin todo[c]
    /\ m \notin timer
    /\ inFlight[m] = NoEntry
    /\ row' = [row EXCEPT ![m] = Aged(@)]
    /\ UNCHANGED <<regVars, inFlight, callVars, fin, timer, todo, queued, told,
                   deliveries, restarts>>

Prune(m) ==
    /\ "prune" \in Events
    /\ Prunable(row[m])
    /\ row' = [row EXCEPT ![m] = NoRow]
    /\ UNCHANGED <<regVars, inFlight, callVars, fin, timer, todo, queued, told,
                   deliveries, restarts>>

(* The process restarts: what is not in the database is lost.              *)
Restart ==
    /\ restarts < MaxRestarts
    /\ restarts' = restarts + 1
    /\ RegRestart
    /\ inFlight' = [m \in Cmds |-> NoEntry]
    /\ pc' = [k \in Calls |-> IF pc[k] = "idle" THEN "idle" ELSE "done"]
    /\ fin' = {}
    /\ timer' = {}
    /\ todo' = [c \in Conns |-> {}]
    /\ queued' = [c \in Conns |-> 0]
    /\ UNCHANGED <<row, req, bound, loaded, told, deliveries>>

CallStep(k) ==
    /\ pc[k] # "idle"
    /\ \/ Route(k) \/ Reserve(k) \/ Load(k) \/ ReplayReceived(k)
       \/ ReplayResult(k) \/ CheckCapacity(k) \/ Reject(k) \/ InsertInFlight(k)
       \/ Notify(k) \/ Resolve(k) \/ Dispatch(k) \/ ReturnFinished(k)

FinishStep(f) == FinishComplete(f) \/ FinishSend(f)

Next ==
    \/ \E k \in Calls, via \in {"loop", "voice"}, m \in Cmds, body \in Bodies,
          ctl \in Conns, target \in Devices :
            Submit(k, via, m, body, ctl, target)
    \/ \E k \in Calls : CallStep(k)
    \/ \E f \in fin : FinishStep(f)
    \/ \E c \in Conns :
        \/ Drain(c) \/ Scan(c) \/ Session(c)
        \/ \E m \in Cmds : Accepted(c, m) \/ TargetResult(c, m) \/ ScanStep(c, m)
    \/ \E m \in Cmds : Timeout(m) \/ Expire(m) \/ Prune(m)
    \/ \E d \in Devices : Revoke(d)
    \/ Restart

Spec == Init /\ [][Next]_vars

(***************************************************************************)
(* Fairness: tokio polls every task that can run and fires every timer, so *)
(* calls, finishes, deadlines, scans and session loops go on.  Nothing is  *)
(* asked of devices: they need not connect, answer or submit.              *)
(***************************************************************************)
Fairness ==
    /\ \A k \in Calls : WF_vars(CallStep(k))
    /\ WF_vars(\E f \in fin : FinishStep(f))
    /\ \A m \in Cmds : WF_vars(Timeout(m))
    /\ \A c \in Conns : /\ WF_vars(Drain(c))
                         /\ WF_vars(Scan(c))
                         /\ WF_vars(\E m \in Cmds : ScanStep(c, m))
                         /\ WF_vars(EnterLoop(c) /\ ~Busy(c) /\ UNCHANGED routerVars)

LiveSpec == Spec /\ Fairness
-----------------------------------------------------------------------------
(***************************************************************************)
(* Properties                                                              *)
(***************************************************************************)

(* A stored terminal result is final: however result frames, deadlines,    *)
(* disconnect scans, capacity rejections and replays race, complete_command*)
(* never replaces it.  The record only disappears, or makes room for a new *)
(* reservation, after its 24 hours.                                        *)
ResultsAreFinal ==
    [][\A m \in Cmds : Terminal(row[m]) =>
         \/ row'[m] # NoRow /\ row'[m].status = row[m].status
         \/ ~row[m].fresh /\ ~Terminal(row'[m])]_vars

(* A target is sent device.command at most once for a reservation: replays,*)
(* concurrent submits of one command_id and restarts never deliver again.  *)
AtMostOneDelivery == \A m \in Cmds : deliveries[m] <= 1

(* A command has one owner at a time: a submit on its way to insert, the   *)
(* in-flight entry, or one finish that has not stored its result.  The map *)
(* insert of submit therefore never overwrites an entry, and finish never  *)
(* runs twice ("Terminates an in-flight command exactly once").            *)
Inserting(k, m) ==
    /\ pc[k] # "idle" /\ req[k].cmd = m
    /\ pc[k] \in {"capacity", "reject", "insert"}

Storing(f, m) == f \in fin /\ f.cmd = m /\ f.stage = "complete"

OneOwner ==
    \A m \in Cmds :
        /\ \A k \in Calls : Inserting(k, m) =>
             /\ inFlight[m] = NoEntry
             /\ \A f \in fin : ~Storing(f, m)
             /\ \A k2 \in Calls : Inserting(k2, m) => k2 = k
        /\ \A f \in fin : Storing(f, m) =>
             /\ inFlight[m] = NoEntry
             /\ \A g \in fin : Storing(g, m) => g = f

(* What the router holds in memory matches the database: the record of an  *)
(* owned command (see OneOwner) is reserved, for the device the entry is   *)
(* bound to.  So an accepted or result frame never concerns a command that *)
(* already has a terminal result.                                          *)
OwnedIsReserved ==
    \A m \in Cmds :
        /\ \A k \in Calls : Inserting(k, m) =>
             row[m] = NewRow(req[k].target, req[k].body)
        /\ inFlight[m] # NoEntry =>
             row[m] # NoRow /\ row[m].status = "reserved"
                /\ row[m].target = DeviceOf[inFlight[m].tgt]
        /\ \A f \in fin : Storing(f, m) =>
             row[m] # NoRow /\ row[m].status = "reserved"
                /\ row[m].target = f.target

(* Every command.result a controller sees, from finish or from a replay,   *)
(* is the result in the database.                                          *)
ToldResultIsStored ==
    \A c \in Conns, m \in Cmds, res \in Results :
        ResultFrame(m, res) \in told[c] /\ row[m] # NoRow => row[m].status = res

(* command.accepted never follows a command.result on a controller's       *)
(* connection: accepted sends while it holds the lock that finish needs to *)
(* remove the entry.                                                       *)
NoAcceptedAfterResult ==
    [][\A c \in Conns, m \in Cmds :
         /\ AcceptedFrame(m) \in told'[c]
         /\ AcceptedFrame(m) \notin told[c]
         => \A res \in Results : ResultFrame(m, res) \notin told[c]]_vars

(* command.accepted never precedes command.received: a command is only     *)
(* dispatched after command.received was queued.                           *)
AcceptedAfterReceived ==
    \A c \in Conns, m \in Cmds :
        AcceptedFrame(m) \in told[c] => ReceivedFrame(m) \in told[c]

(* The connection limit holds for a connection without voice requests: its *)
(* session handles one device.command at a time, so nothing of its own     *)
(* comes between the count and the insert.                                 *)
ConnectionLimit ==
    \A c \in Conns :
        (\A k \in Calls : pc[k] # "idle" /\ req[k].ctl = c =>
                             req[k].via = "loop")
        => Cardinality(ConnInFlight(c)) <= MaxConn

(***************************************************************************)
(* The lifecycle each command goes through, seen in the state of the       *)
(* router.                                                                 *)
(***************************************************************************)
Announced(m) ==
    {res \in Results : \E c \in Conns : ResultFrame(m, res) \in told[c]}

PhaseOf(m) == IF row[m] = NoRow THEN "none" ELSE row[m].status
IsOld(m) == row[m] # NoRow /\ ~row[m].fresh
IsDelivered(m) == deliveries[m] > 0

Lifecycle == INSTANCE CommandLifecycle WITH
    phase <- [m \in Cmds |-> PhaseOf(m)],
    old <- [m \in Cmds |-> IsOld(m)],
    delivered <- [m \in Cmds |-> IsDelivered(m)],
    announced <- [m \in Cmds |-> Announced(m)]

(* The router implements CommandLifecycle.  Besides what the properties    *)
(* above say of the parts, this forbids delivering a command that has been *)
(* decided: a target whose generation ended between insert and dispatch    *)
(* does not get a command its controller was told has failed.              *)
ImplementsLifecycle == Lifecycle!LifeSpec

(* An entry that neither a submit nor a deadline task will finish.         *)
Orphaned(m) ==
    /\ inFlight[m] # NoEntry
    /\ m \notin timer
    /\ \A k \in Calls : pc[k] # "idle" /\ req[k].cmd = m => pc[k] = "done"

(* Every reserved command gets a terminal result, by an answer, a deadline,*)
(* a disconnect or a rejection, unless its submit ended early because      *)
(* command.received could not be queued.                                   *)
DecidedUnlessOrphaned ==
    \A m \in Cmds :
        (row[m] # NoRow /\ row[m].status = "reserved")
            ~> (Terminal(row[m]) \/ Orphaned(m))

(* The documented admission limit of a target: no more than MaxTarget      *)
(* commands are in flight to one device.                                   *)
TargetLimit == \A d \in Devices : Cardinality(TargetInFlight(d)) <= MaxTarget

(* The documented cancellation policy: a command in flight is still being  *)
(* submitted or has a deadline task.                                       *)
InFlightHasDeadline == \A m \in Cmds : ~Orphaned(m)
=============================================================================
