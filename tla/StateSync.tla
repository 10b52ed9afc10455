------------------------------ MODULE StateSync ------------------------------
(***************************************************************************)
(* The runtime state of one device on its way to the server: full          *)
(* snapshots and deltas read by the control sessions (http/control.rs,     *)
(* http/control/state.rs), the durable projection (store_device_state) and *)
(* the process-local StateHub (device_control_state.rs).  A session reads, *)
(* stores and publishes in separate steps, and the session of a replaced   *)
(* generation runs on beside its successor until it notices.               *)
(*                                                                         *)
(* The device is honest: it counts its changes, one field each, and sends  *)
(* what it has.  The value of a field is the revision that set it.         *)
(***************************************************************************)
EXTENDS Naturals, Sequences, Revision

CONSTANTS
    Conns,      \* the sockets the device opens, one generation each
    Fields,     \* playback, volume, display
    NoConn,     \* the device has no socket
    NoState,    \* no row, or an empty hub
    NoJob,      \* the session is at its select!
    MaxRev,     \* bound: revisions of the device
    WireCap,    \* bound: frames in a socket that the session has not read
    MaxErrors,  \* bound: failures of the database
    MaxRestarts \* bound: restarts of the server

ASSUME SyncConstants ==
    /\ NoConn \notin Conns /\ NoState \notin [rev : Nat, state : [Fields -> Nat]]
    /\ MaxRev \in Nat \ {0} /\ WireCap \in Nat \ {0}
    /\ MaxErrors \in Nat /\ MaxRestarts \in Nat

VARIABLES
    truth,      \* the states of the device, by revision
    conn,       \* the socket the device uses
    wire,       \* frames sent on each socket and not read
    asked,      \* device.resync_requested was sent and is not answered
    open,       \* the session of each socket: "new", "open" or "closed"
    needsFull,  \* needs_full_state of each session
    job,        \* the frame each session is processing
    store,      \* the row of device_control_state_snapshots
    hub,        \* StateHub::state of the device
    errors, restarts

deviceVars == <<truth, conn>>
sessionVars == <<asked, open, needsFull, job>>
boundVars == <<errors, restarts>>
vars == <<deviceVars, wire, sessionVars, store, hub, boundVars>>

Rev == Len(truth)

States == [Fields -> 0..MaxRev]
Snapshots == [rev : 1..MaxRev, state : States]
FullFrames == [kind : {"full"}, rev : 1..MaxRev, state : States]
DeltaFrames == [kind : {"delta"}, rev : 1..MaxRev, field : Fields]
Frames == FullFrames \cup DeltaFrames
Jobs == [kind : {"full", "delta"}, at : {"store", "classify", "publish"}, snap : Snapshots]

TypeOK ==
    /\ truth \in Seq(States) /\ Rev \in 1..MaxRev
    /\ conn \in Conns \cup {NoConn}
    /\ wire \in [Conns -> Seq(Frames)] /\ \A c \in Conns : Len(wire[c]) <= WireCap
    /\ asked \in [Conns -> BOOLEAN]
    /\ open \in [Conns -> {"new", "open", "closed"}]
    /\ needsFull \in [Conns -> BOOLEAN]
    /\ job \in [Conns -> Jobs \cup {NoJob}]
    /\ store \in Snapshots \cup {NoState}
    /\ hub \in Snapshots \cup {NoState}
    /\ errors \in 0..MaxErrors /\ restarts \in 0..MaxRestarts

Init ==
    /\ \E f \in Fields : truth = <<[g \in Fields |-> IF g = f THEN 1 ELSE 0]>>
    /\ conn = NoConn
    /\ wire = [c \in Conns |-> <<>>]
    /\ asked = [c \in Conns |-> FALSE]
    /\ open = [c \in Conns |-> "new"]
    /\ needsFull = [c \in Conns |-> TRUE]
    /\ job = [c \in Conns |-> NoJob]
    /\ store = NoState /\ hub = NoState
    /\ errors = 0 /\ restarts = 0

-----------------------------------------------------------------------------
(* The device *)

FullFrame == [kind |-> "full", rev |-> Rev, state |-> truth[Rev]]

(* A new registration; the device follows it with its complete state.      *)
Connect(c) ==
    /\ open[c] = "new"
    /\ open' = [open EXCEPT ![c] = "open"]
    /\ conn' = c
    /\ wire' = [wire EXCEPT ![c] = <<FullFrame>>]
    /\ UNCHANGED <<truth, asked, needsFull, job, store, hub, boundVars>>

(* A change of the device, reported as a delta while it has a socket.      *)
Change(f) ==
    /\ Rev < MaxRev
    /\ truth' = Append(truth, [truth[Rev] EXCEPT ![f] = Rev + 1])
    /\ \/ conn = NoConn /\ UNCHANGED wire
       \/ /\ conn # NoConn /\ Len(wire[conn]) < WireCap
          /\ wire' = [wire EXCEPT ![conn] =
                 Append(@, [kind |-> "delta", rev |-> Rev + 1, field |-> f])]
    /\ UNCHANGED <<conn, sessionVars, store, hub, boundVars>>

(* The device loses its socket; what it sent may still be read.            *)
Drop ==
    /\ conn # NoConn
    /\ conn' = NoConn
    /\ UNCHANGED <<truth, wire, sessionVars, store, hub, boundVars>>

(* The device answers device.resync_requested.                             *)
AnswerResync(c) ==
    /\ conn = c /\ asked[c] /\ Len(wire[c]) < WireCap
    /\ wire' = [wire EXCEPT ![c] = Append(@, FullFrame)]
    /\ asked' = [asked EXCEPT ![c] = FALSE]
    /\ UNCHANGED <<deviceVars, open, needsFull, job, store, hub, boundVars>>

-----------------------------------------------------------------------------
(* The sessions *)

Reading(c, kind) ==
    /\ open[c] = "open" /\ job[c] = NoJob
    /\ wire[c] # <<>> /\ Head(wire[c]).kind = kind
    /\ wire' = [wire EXCEPT ![c] = Tail(@)]

(* A plausible bug: the session waits for a full state it does not ask     *)
(* for.                                                                    *)
RequestResyncSilent(c) ==
    /\ needsFull' = [needsFull EXCEPT ![c] = TRUE]
    /\ UNCHANGED asked

RequestResync(c) ==
    /\ needsFull' = [needsFull EXCEPT ![c] = TRUE]
    /\ asked' = [asked EXCEPT ![c] = TRUE]

Continue(c, at) ==
    job' = [job EXCEPT ![c] = [kind |-> job[c].kind, at |-> at, snap |-> job[c].snap]]
Done(c) == job' = [job EXCEPT ![c] = NoJob]

ReadFull(c) ==
    /\ Reading(c, "full")
    /\ job' = [job EXCEPT ![c] = [kind |-> "full", at |-> "store",
           snap |-> [rev |-> Head(wire[c]).rev, state |-> Head(wire[c]).state]]]
    /\ UNCHANGED <<deviceVars, asked, open, needsFull, store, hub, boundVars>>

(* A plausible bug: what the hub has wins over the delta.                  *)
MergeKeepingCurrent(current, delta) == [rev |-> delta.rev, state |-> current]

(* merge_state: the fields a delta names replace those of the hub.         *)
Merge(current, delta) == [rev |-> delta.rev, state |-> [current EXCEPT ![delta.field] = delta.rev]]

(* A delta is compared with the hub; its base_revision is the revision     *)
(* before its own.                                                         *)
DeltaOrder(delta) ==
    LET merged == Merge(hub.state, delta) IN
    RevisionOrder(hub.rev, hub.state, merged.rev, merged.state, {delta.rev - 1})

ReadDelta(c) ==
    LET delta == Head(wire[c]) IN
    /\ Reading(c, "delta")
    /\ IF needsFull[c] \/ hub = NoState
       THEN RequestResync(c) /\ UNCHANGED job
       ELSE LET order == DeltaOrder(delta) IN
            \/ /\ order = "Next"
               /\ job' = [job EXCEPT ![c] = [kind |-> "delta", at |-> "store",
                                             snap |-> Merge(hub.state, delta)]]
               /\ UNCHANGED <<needsFull, asked>>
            \/ /\ order \in {"Replay", "Stale"}
               /\ UNCHANGED <<needsFull, asked, job>>
            \/ /\ order \in {"Conflict", "Gap"}
               /\ RequestResync(c) /\ UNCHANGED job
    /\ UNCHANGED <<deviceVars, open, store, hub, boundVars>>

StoreOutcome(snap) ==
    IF store = NoState THEN "Accepted"
    ELSE FullStateOutcome(store.rev, store.state, snap.rev, snap.state)

Stored(snap) == IF StoreOutcome(snap) = "Accepted" THEN snap ELSE store

(* accepted_full_snapshot for a full state; a delta may not be stale.      *)
PersistedOutcomes(kind) ==
    {"Accepted", "Replay"} \cup (IF kind = "full" THEN {"Stale"} ELSE {})

AfterStore(c, outcome) ==
    IF outcome \in PersistedOutcomes(job[c].kind)
    THEN /\ Continue(c, IF job[c].kind = "full" THEN "classify" ELSE "publish")
         /\ UNCHANGED <<needsFull, asked>>
    ELSE Done(c) /\ RequestResync(c)

(* store_device_state, one transaction under the lock of the device row.   *)
Store(c) ==
    /\ job[c] # NoJob /\ job[c].at = "store"
    /\ store' = Stored(job[c].snap)
    /\ AfterStore(c, StoreOutcome(job[c].snap))
    /\ UNCHANGED <<deviceVars, wire, open, hub, boundVars>>

(* The call returns an error, before or after its commit.                  *)
StoreFails(c) ==
    /\ job[c] # NoJob /\ job[c].at = "store" /\ errors < MaxErrors
    /\ errors' = errors + 1
    /\ store' \in {store, Stored(job[c].snap)}
    /\ AfterStore(c, "Error")
    /\ UNCHANGED <<deviceVars, wire, open, hub, restarts>>

(* accept_snapshot reads the hub and releases it ...                       *)
Classify(c) ==
    LET snap == job[c].snap
        order == IF hub = NoState THEN "Next"
                 ELSE RevisionOrder(hub.rev, hub.state, snap.rev, snap.state, {}) IN
    /\ job[c] # NoJob /\ job[c].at = "classify"
    /\ \/ /\ order \in {"Next", "Gap"}
          /\ Continue(c, "publish") /\ UNCHANGED <<needsFull, asked>>
       \/ /\ order \in {"Replay", "Stale", "Conflict"}
          /\ Done(c)
          /\ IF order = "Conflict" THEN RequestResync(c)
             ELSE needsFull' = [needsFull EXCEPT ![c] = FALSE] /\ UNCHANGED asked
    /\ UNCHANGED <<deviceVars, wire, open, store, hub, boundVars>>

(* ... before publish_device_state overwrites it.                          *)
PublishState(c) ==
    /\ job[c] # NoJob /\ job[c].at = "publish"
    /\ hub' = job[c].snap
    /\ Done(c)
    /\ needsFull' = [needsFull EXCEPT ![c] = FALSE]
    /\ UNCHANGED <<deviceVars, wire, asked, open, store, boundVars>>

(* The session leaves its loop, for whatever reason.                       *)
Close(c) ==
    /\ open[c] = "open" /\ job[c] = NoJob
    /\ open' = [open EXCEPT ![c] = "closed"]
    /\ wire' = [wire EXCEPT ![c] = <<>>]
    /\ asked' = [asked EXCEPT ![c] = FALSE]
    /\ conn' = IF conn = c THEN NoConn ELSE conn
    /\ UNCHANGED <<truth, needsFull, job, store, hub, boundVars>>

(* The process restarts: the sessions and the hub are lost.                *)
Restart ==
    /\ restarts < MaxRestarts
    /\ restarts' = restarts + 1
    /\ open' = [c \in Conns |-> IF open[c] = "new" THEN "new" ELSE "closed"]
    /\ wire' = [c \in Conns |-> <<>>]
    /\ asked' = [c \in Conns |-> FALSE]
    /\ job' = [c \in Conns |-> NoJob]
    /\ conn' = NoConn
    /\ hub' = NoState
    /\ UNCHANGED <<truth, needsFull, store, errors>>

ServerStep(c) ==
    \/ ReadFull(c) \/ ReadDelta(c) \/ Store(c) \/ StoreFails(c)
    \/ Classify(c) \/ PublishState(c)

Next ==
    \/ \E c \in Conns : Connect(c) \/ AnswerResync(c) \/ ServerStep(c) \/ Close(c)
    \/ \E f \in Fields : Change(f)
    \/ Drop \/ Restart

Spec == Init /\ [][Next]_vars

(* tokio runs ready sessions, and the device answers a resync request.     *)
LiveSpec ==
    Spec /\ \A c \in Conns : WF_vars(ServerStep(c)) /\ WF_vars(AnswerResync(c))

-----------------------------------------------------------------------------
(* Properties *)

RevOf(x) == IF x = NoState THEN 0 ELSE x.rev

(* The stored projection, and the hub, hold exactly the state the device   *)
(* had at the revision they name: no delta is merged into the wrong base,  *)
(* whichever sessions, restarts and lost frames lie between.               *)
ProjectionIsTrue ==
    \A x \in {store, hub} \ {NoState} : x.state = truth[x.rev]

(* The hub never shows a revision that a restart would take back: a state  *)
(* is published only after the store holds it or a later one.              *)
HubIsDurable == RevOf(hub) <= RevOf(store)

(* The stored projection never returns to an older revision, although the  *)
(* sessions of two generations write it.                                   *)
StoreNeverBack == [][RevOf(store') >= RevOf(store)]_vars

(* A device that keeps its socket gets its last state stored: a gap, a     *)
(* missing base and a failed write all lead to a full snapshot that is     *)
(* accepted.                                                               *)
StoreCatchesUp ==
    \A c \in Conns : conn = c /\ Rev = MaxRev ~> conn # c \/ RevOf(store) = MaxRev
=============================================================================
