-------------------------- MODULE StateSync_proofs --------------------------
(***************************************************************************)
(* Proofs about StateSync, for any number of sockets, fields, revisions,   *)
(* failures and restarts.  The properties are not inductive: what the      *)
(* store and the hub hold comes from frames in the sockets and from jobs   *)
(* half done, so the invariant says of those, too, that they carry what    *)
(* the device had (WireInv, JobInv), and that a job past its store step is *)
(* covered by the store (OrderInv).                                        *)
(***************************************************************************)
EXTENDS StateSync, TLAPS

(* The provers of a step, unless it names one, and their time.             *)
USE ZenonT(5), SMTT(30)

GoodSnap(t, s) == s.rev \in 1..Len(t) /\ s.state = t[s.rev]

GoodDelta(t, m) ==
    /\ m.rev \in 2..Len(t)
    /\ t[m.rev] = [t[m.rev - 1] EXCEPT ![m.field] = m.rev]

GoodFrame(t, m) == IF m.kind = "full" THEN GoodSnap(t, m) ELSE GoodDelta(t, m)

WireInv == \A c \in Conns : \A i \in 1..Len(wire[c]) : GoodFrame(truth, wire[c][i])
JobInv == \A c \in Conns : job[c] # NoJob => GoodSnap(truth, job[c].snap)
DataInv == \A x \in {store, hub} \ {NoState} : GoodSnap(truth, x)

Covered(j) == j # NoJob /\ j.at \in {"classify", "publish"} => j.snap.rev <= RevOf(store)
OrderInv == HubIsDurable /\ \A c \in Conns : Covered(job[c])

Inv == TypeOK /\ WireInv /\ JobInv /\ DataInv /\ OrderInv

-----------------------------------------------------------------------------

(* revision_order: what a full snapshot's outcome says of the revisions.   *)
LEMMA FullStateOrder ==
    ASSUME NEW a \in Nat, NEW x, NEW b \in Nat, NEW y
    PROVE /\ FullStateOutcome(a, x, b, y) \in {"Accepted", "Replay", "Stale", "Conflict"}
          /\ FullStateOutcome(a, x, b, y) = "Accepted" => b > a
          /\ FullStateOutcome(a, x, b, y) # "Accepted" => b <= a
BY DEF FullStateOutcome, Outcome, RevisionOrder

(* The revision of a projection is a natural number.                       *)
LEMMA RevOfType == ASSUME TypeOK PROVE RevOf(store) \in Nat /\ RevOf(hub) \in Nat
BY DEF TypeOK, RevOf, Snapshots

(* store_device_state never writes an older snapshot, and afterwards the   *)
(* row is at least as new as the snapshot.                                 *)
LEMMA StoreAdvances ==
    ASSUME TypeOK, NEW c \in Conns, job[c] # NoJob
    PROVE /\ job[c] \in Jobs
          /\ Stored(job[c].snap) \in {store, job[c].snap}
          /\ RevOf(Stored(job[c].snap)) \in Nat
          /\ RevOf(Stored(job[c].snap)) >= RevOf(store)
          /\ job[c].snap.rev <= RevOf(Stored(job[c].snap))
<1>1. job[c] \in Jobs /\ job[c].snap \in Snapshots /\ job[c].snap.rev \in Nat
  BY DEF TypeOK, Jobs, Snapshots
<1>2. Stored(job[c].snap) = IF StoreOutcome(job[c].snap) = "Accepted" THEN job[c].snap ELSE store
  BY DEF Stored
<1>3. CASE store = NoState
  <2>1. Stored(job[c].snap) = job[c].snap
    BY <1>2, <1>3 DEF StoreOutcome
  <2>2. job[c].snap # NoState
    BY <1>1, SyncConstants DEF Snapshots, States
  <2> QED
    BY <1>1, <1>3, <2>1, <2>2 DEF RevOf
<1>4. CASE store # NoState
  <2>1. store.rev \in Nat
    BY <1>4 DEF TypeOK, Snapshots
  <2>2. job[c].snap # NoState
    BY <1>1, SyncConstants DEF Snapshots, States
  <2>3. StoreOutcome(job[c].snap)
          = FullStateOutcome(store.rev, store.state, job[c].snap.rev, job[c].snap.state)
    BY <1>4 DEF StoreOutcome
  <2>4. CASE StoreOutcome(job[c].snap) = "Accepted"
    <3>1. job[c].snap.rev > store.rev
      BY <1>1, <2>1, <2>3, <2>4, FullStateOrder
    <3> QED
      BY <1>1, <1>2, <1>4, <2>1, <2>2, <2>4, <3>1 DEF RevOf
  <2>5. CASE StoreOutcome(job[c].snap) # "Accepted"
    <3>1. job[c].snap.rev <= store.rev
      BY <1>1, <2>1, <2>3, <2>5, FullStateOrder
    <3> QED
      BY <1>1, <1>2, <1>4, <2>1, <2>5, <3>1 DEF RevOf
  <2> QED
    BY <2>4, <2>5
<1> QED
  BY <1>3, <1>4, <1>1, <1>2

-----------------------------------------------------------------------------
(* Parts of the invariant whose variables a step leaves alone *)

(* The frames in the sockets.                                              *)
LEMMA WireFrame == WireInv /\ UNCHANGED <<truth, wire>> => WireInv'
BY DEF WireInv

(* The jobs.                                                               *)
LEMMA JobFrame == JobInv /\ UNCHANGED <<truth, job>> => JobInv'
BY DEF JobInv

(* The projections.                                                        *)
LEMMA DataFrame == DataInv /\ UNCHANGED <<truth, store, hub>> => DataInv'
BY DEF DataInv

(* The order of job, store and hub.                                        *)
LEMMA OrderFrame == OrderInv /\ UNCHANGED <<job, store, hub>> => OrderInv'
BY DEF OrderInv, Covered, HubIsDurable, RevOf

-----------------------------------------------------------------------------

(* A fresh device with nothing sent satisfies the invariant.               *)
LEMMA InitInv == Init => Inv
<1> SUFFICES ASSUME Init PROVE Inv
  OBVIOUS
<1>1. PICK f \in Fields : truth = <<[g \in Fields |-> IF g = f THEN 1 ELSE 0]>>
  BY DEF Init
<1>2. [g \in Fields |-> IF g = f THEN 1 ELSE 0] \in States
  BY SyncConstants DEF States
<1>3. truth \in Seq(States) /\ Rev \in 1..MaxRev
  BY <1>1, <1>2, SyncConstants DEF Rev
<1>4. wire \in [Conns -> Seq(Frames)] /\ \A c \in Conns : Len(wire[c]) = 0
  BY DEF Init
<1>5. TypeOK
  BY <1>3, <1>4, SyncConstants DEF Init, TypeOK
<1>6. WireInv
  BY <1>4 DEF WireInv
<1>7. JobInv /\ DataInv
  BY DEF Init, JobInv, DataInv
<1>8. OrderInv
  BY DEF Init, OrderInv, Covered, HubIsDurable, RevOf
<1> QED
  BY <1>5, <1>6, <1>7, <1>8 DEF Inv

(* What the device sends as its complete state is its state.               *)
LEMMA FullFrameGood == ASSUME TypeOK PROVE FullFrame \in Frames /\ GoodFrame(truth, FullFrame)
<1>1. truth[Rev] \in States /\ Rev \in 1..MaxRev
  BY DEF TypeOK, Rev
<1>2. FullFrame \in FullFrames
  BY <1>1 DEF FullFrame, FullFrames
<1>3. GoodFrame(truth, FullFrame)
  BY <1>1, SyncConstants DEF FullFrame, GoodFrame, GoodSnap, Rev
<1> QED
  BY <1>2, <1>3 DEF Frames

(* A registration starts an empty socket with a complete state.            *)
LEMMA ConnectInv == ASSUME Inv, NEW c \in Conns, Connect(c) PROVE Inv'
<1> USE DEF Inv
<1>1. FullFrame \in Frames /\ GoodFrame(truth, FullFrame)
  BY FullFrameGood
<1>2. wire' = [wire EXCEPT ![c] = <<FullFrame>>]
  BY DEF Connect
<1>3. wire' \in [Conns -> Seq(Frames)] /\ \A k \in Conns : Len(wire'[k]) <= WireCap
  BY <1>1, <1>2, SyncConstants DEF TypeOK
<1>4. TypeOK'
  BY <1>3 DEF Connect, TypeOK, Rev, boundVars
<1>5. WireInv'
  <2>1. ASSUME NEW k \in Conns, NEW i \in 1..Len(wire'[k])
        PROVE GoodFrame(truth, wire'[k][i])
    <3>1. CASE k = c
      BY <1>1, <1>2, <2>1, <3>1 DEF TypeOK
    <3>2. CASE k # c
      BY <1>2, <2>1, <3>2 DEF TypeOK, WireInv
    <3> QED
      BY <3>1, <3>2
  <2> QED
    BY <2>1 DEF WireInv, Connect
<1> QED
  BY <1>4, <1>5, JobFrame, DataFrame, OrderFrame DEF Connect

(* The history of the device only grows.                                   *)
LEMMA TruthGrows ==
    ASSUME TypeOK, NEW f \in Fields, Change(f)
    PROVE /\ truth' \in Seq(States) /\ Rev' = Rev + 1 /\ Rev' \in 1..MaxRev
          /\ \A r \in 1..Rev : truth'[r] = truth[r]
          /\ truth'[Rev + 1] = [truth[Rev] EXCEPT ![f] = Rev + 1]
<1>1. truth[Rev] \in States /\ Rev \in 1..MaxRev /\ Rev < MaxRev
  BY DEF TypeOK, Rev, Change
<1>2. [truth[Rev] EXCEPT ![f] = Rev + 1] \in States
  BY <1>1, SyncConstants DEF States
<1>3. truth' = Append(truth, [truth[Rev] EXCEPT ![f] = Rev + 1])
  BY DEF Change
<1> QED
  BY <1>1, <1>2, <1>3, SyncConstants DEF TypeOK, Rev

(* What was true of a revision stays true.                                 *)
LEMMA GoodStays ==
    ASSUME TypeOK, NEW f \in Fields, Change(f), NEW m
    PROVE /\ GoodSnap(truth, m) => GoodSnap(truth', m)
          /\ GoodFrame(truth, m) => GoodFrame(truth', m)
<1>1. Len(truth) \in Nat /\ Len(truth') = Len(truth) + 1
  <2>1. Rev' = Rev + 1
    BY TruthGrows
  <2> QED
    BY <2>1 DEF TypeOK, Rev
<1>2. \A r \in 1..Len(truth) : truth'[r] = truth[r]
  BY TruthGrows DEF Rev
<1>3. GoodSnap(truth, m) => GoodSnap(truth', m)
  BY <1>1, <1>2 DEF GoodSnap
<1>4. ASSUME GoodDelta(truth, m) PROVE GoodDelta(truth', m)
  <2>1. m.rev \in 1..Len(truth) /\ m.rev - 1 \in 1..Len(truth) /\ m.rev \in 2..Len(truth')
    BY <1>1, <1>4 DEF GoodDelta
  <2>2. truth'[m.rev] = truth[m.rev] /\ truth'[m.rev - 1] = truth[m.rev - 1]
    BY <1>2, <2>1
  <2> QED
    BY <1>4, <2>1, <2>2 DEF GoodDelta
<1> QED
  BY <1>3, <1>4 DEF GoodFrame

(* A change of the device, with its delta if it has a socket.              *)
LEMMA ChangeInv == ASSUME Inv, NEW f \in Fields, Change(f) PROVE Inv'
<1> USE DEF Inv
<1> DEFINE d == [kind |-> "delta", rev |-> Rev + 1, field |-> f]
<1>1. Rev \in Nat /\ Rev + 1 \in 1..MaxRev /\ Rev >= 1
  BY SyncConstants DEF TypeOK, Rev, Change
<1>2. d \in Frames
  BY <1>1 DEF Frames, DeltaFrames
<1>3. \/ UNCHANGED wire
      \/ /\ conn \in Conns /\ Len(wire[conn]) < WireCap
         /\ wire' = [wire EXCEPT ![conn] = Append(@, d)]
  BY DEF Change, TypeOK
<1> HIDE DEF d
<1>4. wire' \in [Conns -> Seq(Frames)] /\ \A k \in Conns : Len(wire'[k]) <= WireCap
  <2>1. CASE UNCHANGED wire
    BY <2>1 DEF TypeOK
  <2>2. CASE /\ conn \in Conns /\ Len(wire[conn]) < WireCap
             /\ wire' = [wire EXCEPT ![conn] = Append(@, d)]
    BY <1>2, <2>2, SyncConstants DEF TypeOK
  <2> QED
    BY <1>3, <2>1, <2>2
<1>5. TypeOK'
  BY <1>4, TruthGrows DEF Change, TypeOK, sessionVars, boundVars
<1>6. WireInv'
  <2>1. ASSUME NEW k \in Conns, NEW i \in 1..Len(wire'[k])
        PROVE \/ wire'[k][i] = d
              \/ i \in 1..Len(wire[k]) /\ wire'[k][i] = wire[k][i]
    <3>1. CASE UNCHANGED wire
      BY <3>1, <2>1
    <3>2. CASE /\ conn \in Conns /\ Len(wire[conn]) < WireCap
               /\ wire' = [wire EXCEPT ![conn] = Append(@, d)]
      BY <1>2, <2>1, <3>2 DEF TypeOK
    <3> QED
      BY <1>3, <3>1, <3>2
  <2>2. ASSUME NEW k \in Conns, NEW i \in 1..Len(wire'[k])
        PROVE GoodFrame(truth', wire'[k][i])
    <3>1. CASE wire'[k][i] = d
      <4>1. d.kind = "delta" /\ d.rev = Rev + 1 /\ d.field = f
        BY DEF d
      <4>2. Rev' = Rev + 1 /\ \A r \in 1..Rev : truth'[r] = truth[r]
        BY TruthGrows
      <4>3. truth'[Rev + 1] = [truth[Rev] EXCEPT ![f] = Rev + 1]
        BY TruthGrows
      <4>4. Len(truth') = Rev + 1 /\ (Rev + 1) - 1 = Rev /\ truth'[Rev] = truth[Rev]
        BY <1>1, <4>2 DEF Rev
      <4>5. GoodDelta(truth', d)
        BY <1>1, <4>1, <4>3, <4>4 DEF GoodDelta
      <4> QED
        BY <3>1, <4>1, <4>5 DEF GoodFrame
    <3>2. CASE i \in 1..Len(wire[k]) /\ wire'[k][i] = wire[k][i]
      <4>1. GoodFrame(truth, wire[k][i])
        BY <3>2 DEF WireInv
      <4> QED
        BY <3>2, <4>1, GoodStays
    <3> QED
      BY <2>1, <3>1, <3>2
  <2> QED
    BY <2>2 DEF WireInv
<1>7. JobInv'
  BY GoodStays DEF JobInv, Change, sessionVars
<1>8. DataInv'
  BY GoodStays DEF DataInv, Change
<1> QED
  BY <1>5, <1>6, <1>7, <1>8, OrderFrame DEF Change, sessionVars

(* The device loses its socket.                                            *)
LEMMA DropInv == ASSUME Inv, Drop PROVE Inv'
<1> USE DEF Inv
<1>1. TypeOK'
  BY DEF Drop, TypeOK, Rev, sessionVars, boundVars
<1> QED
  BY <1>1, WireFrame, JobFrame, DataFrame, OrderFrame DEF Drop, sessionVars

(* The device answers a resync request with its complete state.            *)
LEMMA AnswerResyncInv == ASSUME Inv, NEW c \in Conns, AnswerResync(c) PROVE Inv'
<1> USE DEF Inv
<1>1. FullFrame \in Frames /\ GoodFrame(truth, FullFrame)
  BY FullFrameGood
<1>2. wire' = [wire EXCEPT ![c] = Append(@, FullFrame)] /\ Len(wire[c]) < WireCap
  BY DEF AnswerResync
<1>3. wire' \in [Conns -> Seq(Frames)] /\ \A k \in Conns : Len(wire'[k]) <= WireCap
  BY <1>1, <1>2, SyncConstants DEF TypeOK
<1>4. TypeOK'
  BY <1>3 DEF AnswerResync, TypeOK, Rev, deviceVars, boundVars
<1>5. WireInv'
  <2>1. ASSUME NEW k \in Conns, NEW i \in 1..Len(wire'[k])
        PROVE \/ wire'[k][i] = FullFrame
              \/ i \in 1..Len(wire[k]) /\ wire'[k][i] = wire[k][i]
    BY <1>1, <1>2, <2>1 DEF TypeOK
  <2>2. ASSUME NEW k \in Conns, NEW i \in 1..Len(wire'[k])
        PROVE GoodFrame(truth, wire'[k][i])
    BY <1>1, <2>1, <2>2 DEF WireInv
  <2> QED
    BY <2>2 DEF WireInv, AnswerResync, deviceVars
<1> QED
  BY <1>4, <1>5, JobFrame, DataFrame, OrderFrame DEF AnswerResync, deviceVars

-----------------------------------------------------------------------------

(* Taking a frame off a socket leaves the others as they were.             *)
LEMMA ReadWire ==
    ASSUME Inv, NEW c \in Conns, NEW kind, Reading(c, kind), UNCHANGED truth
    PROVE /\ Head(wire[c]) \in Frames /\ Head(wire[c]).kind = kind
          /\ GoodFrame(truth, Head(wire[c]))
          /\ wire' \in [Conns -> Seq(Frames)]
          /\ \A k \in Conns : Len(wire'[k]) <= WireCap
          /\ WireInv'
<1> USE DEF Inv
<1>1. wire[c] \in Seq(Frames) /\ wire[c] # <<>> /\ wire' = [wire EXCEPT ![c] = Tail(@)]
  BY DEF Reading, TypeOK
<1>2. Head(wire[c]) = wire[c][1] /\ 1 \in 1..Len(wire[c])
  BY <1>1
<1>3. Head(wire[c]) \in Frames /\ GoodFrame(truth, Head(wire[c])) /\ Head(wire[c]).kind = kind
  BY <1>1, <1>2 DEF WireInv, Reading
<1>4. wire' \in [Conns -> Seq(Frames)]
  BY <1>1 DEF TypeOK
<1>5. \A k \in Conns : Len(wire'[k]) <= WireCap
  BY <1>1, SyncConstants DEF TypeOK
<1>6. ASSUME NEW k \in Conns, NEW i \in 1..Len(wire'[k])
      PROVE GoodFrame(truth, wire'[k][i])
  <2>1. \E j \in 1..Len(wire[k]) : wire'[k][i] = wire[k][j]
    <3>1. CASE k = c
      <4>1. i + 1 \in 1..Len(wire[k]) /\ wire'[k][i] = wire[k][i + 1]
        BY <1>1, <1>6, <3>1 DEF TypeOK
      <4> QED
        BY <4>1
    <3>2. CASE k # c
      BY <1>1, <1>6, <3>2 DEF TypeOK
    <3> QED
      BY <3>1, <3>2
  <2> QED
    BY <2>1 DEF WireInv
<1>7. WireInv'
  BY <1>6 DEF WireInv
<1> QED
  BY <1>3, <1>4, <1>5, <1>7

(* A session starts a job at its store step.                               *)
LEMMA StartJob ==
    ASSUME Inv, NEW c \in Conns, NEW kind \in {"full", "delta"}, NEW s \in Snapshots,
           GoodSnap(truth, s), UNCHANGED <<truth, store, hub>>,
           job' = [job EXCEPT ![c] = [kind |-> kind, at |-> "store", snap |-> s]]
    PROVE job' \in [Conns -> Jobs \cup {NoJob}] /\ JobInv' /\ OrderInv'
<1> USE DEF Inv
<1> DEFINE j == [kind |-> kind, at |-> "store", snap |-> s]
<1>1. j \in Jobs /\ j.at = "store" /\ j.snap = s
  BY DEF Jobs
<1>2. job' \in [Conns -> Jobs \cup {NoJob}]
  BY <1>1 DEF TypeOK
<1>3. \A k \in Conns : job'[k] = IF k = c THEN j ELSE job[k]
  BY DEF TypeOK
<1> HIDE DEF j
<1>4. JobInv'
  BY <1>1, <1>3 DEF JobInv
<1>5. OrderInv'
  BY <1>1, <1>3 DEF OrderInv, Covered, HubIsDurable, RevOf
<1> QED
  BY <1>2, <1>4, <1>5

(* A session reads a complete state.                                       *)
LEMMA ReadFullInv == ASSUME Inv, NEW c \in Conns, ReadFull(c) PROVE Inv'
<1> USE DEF Inv
<1> DEFINE m == Head(wire[c])
           s == [rev |-> m.rev, state |-> m.state]
<1>1. UNCHANGED <<truth, conn, asked, open, needsFull, store, hub, errors, restarts>>
  BY DEF ReadFull, deviceVars, boundVars
<1>2. /\ m \in Frames /\ m.kind = "full" /\ GoodFrame(truth, m)
      /\ wire' \in [Conns -> Seq(Frames)]
      /\ \A k \in Conns : Len(wire'[k]) <= WireCap
      /\ WireInv'
  BY <1>1, ReadWire DEF ReadFull
<1> HIDE DEF m
<1>3. m \in FullFrames
  BY <1>2 DEF Frames, DeltaFrames
<1>4. s \in Snapshots /\ GoodSnap(truth, s)
  BY <1>2, <1>3 DEF Snapshots, FullFrames, GoodFrame, GoodSnap
<1>5. job' = [job EXCEPT ![c] = [kind |-> "full", at |-> "store", snap |-> s]]
  BY DEF ReadFull, m
<1> HIDE DEF s
<1>6. job' \in [Conns -> Jobs \cup {NoJob}] /\ JobInv' /\ OrderInv'
  BY <1>1, <1>4, <1>5, StartJob
<1>7. TypeOK'
  BY <1>1, <1>2, <1>6 DEF TypeOK, Rev
<1> QED
  BY <1>1, <1>2, <1>6, <1>7, DataFrame

(* A delta that is next to the hub's state gives the device's next state.  *)
LEMMA MergeGood ==
    ASSUME Inv, hub # NoState, NEW m \in DeltaFrames, GoodDelta(truth, m), DeltaOrder(m) = "Next"
    PROVE Merge(hub.state, m) \in Snapshots /\ GoodSnap(truth, Merge(hub.state, m))
<1> USE DEF Inv
<1>1. hub \in Snapshots /\ GoodSnap(truth, hub)
  BY DEF TypeOK, DataInv
<1>2. hub.rev \in Nat /\ hub.state \in States /\ hub.state = truth[hub.rev]
  BY <1>1, SyncConstants DEF Snapshots, GoodSnap
<1>3. m.rev \in 1..MaxRev /\ m.field \in Fields
  BY DEF DeltaFrames
<1>4. Merge(hub.state, m) = [rev |-> m.rev, state |-> [hub.state EXCEPT ![m.field] = m.rev]]
  BY DEF Merge
<1>5. m.rev = hub.rev + 1
  BY <1>2, <1>3, <1>4, SyncConstants DEF DeltaOrder, RevisionOrder
<1>6. [hub.state EXCEPT ![m.field] = m.rev] \in States
  BY <1>2, <1>3, SyncConstants DEF States
<1>7. truth[m.rev] = [hub.state EXCEPT ![m.field] = m.rev]
  BY <1>2, <1>5 DEF GoodDelta
<1>8. m.rev \in 1..Len(truth)
  BY DEF GoodDelta, TypeOK
<1> QED
  BY <1>3, <1>4, <1>6, <1>7, <1>8 DEF Snapshots, GoodSnap

(* A session reads a delta: it asks for a complete state, ignores it, or   *)
(* starts a job.                                                           *)
LEMMA ReadDeltaInv == ASSUME Inv, NEW c \in Conns, ReadDelta(c) PROVE Inv'
<1> USE DEF Inv
<1> DEFINE m == Head(wire[c])
<1>1. UNCHANGED <<truth, conn, open, store, hub, errors, restarts>>
  BY DEF ReadDelta, deviceVars, boundVars
<1>2. /\ m \in Frames /\ m.kind = "delta" /\ GoodFrame(truth, m)
      /\ wire' \in [Conns -> Seq(Frames)]
      /\ \A k \in Conns : Len(wire'[k]) <= WireCap
      /\ WireInv'
  BY <1>1, ReadWire DEF ReadDelta
<1>3. needsFull' \in [Conns -> BOOLEAN] /\ asked' \in [Conns -> BOOLEAN]
  BY DEF ReadDelta, RequestResync, TypeOK
<1>4. job' \in [Conns -> Jobs \cup {NoJob}] /\ JobInv' /\ OrderInv'
  <2>1. CASE UNCHANGED job
    BY <1>1, <2>1, JobFrame, OrderFrame DEF TypeOK
  <2>2. CASE /\ hub # NoState /\ DeltaOrder(m) = "Next"
             /\ job' = [job EXCEPT ![c] = [kind |-> "delta", at |-> "store",
                                           snap |-> Merge(hub.state, m)]]
    <3> HIDE DEF m
    <3>1. m \in DeltaFrames /\ GoodDelta(truth, m)
      BY <1>2 DEF Frames, FullFrames, GoodFrame
    <3>2. Merge(hub.state, m) \in Snapshots /\ GoodSnap(truth, Merge(hub.state, m))
      BY <2>2, <3>1, MergeGood
    <3> QED
      BY <1>1, <2>2, <3>2, StartJob
  <2> QED
    BY <2>1, <2>2 DEF ReadDelta
<1>5. TypeOK'
  BY <1>1, <1>2, <1>3, <1>4 DEF TypeOK, Rev
<1> QED
  BY <1>1, <1>2, <1>4, <1>5, DataFrame

-----------------------------------------------------------------------------

(* Moving a job on, once the store covers its snapshot, or ending it.      *)
LEMMA MoveJob ==
    ASSUME Inv, NEW c \in Conns, job[c] # NoJob, UNCHANGED truth,
           \/ Done(c)
           \/ \E at \in {"classify", "publish"} : Continue(c, at)
    PROVE job' \in [Conns -> Jobs \cup {NoJob}] /\ JobInv'
<1> USE DEF Inv
<1>1. job[c] \in Jobs
  BY DEF TypeOK
<1>2. CASE Done(c)
  <2>1. \A k \in Conns : job'[k] = IF k = c THEN NoJob ELSE job[k]
    BY <1>2 DEF TypeOK, Done
  <2> QED
    BY <1>2, <2>1 DEF Done, TypeOK, JobInv
<1>3. ASSUME NEW at \in {"classify", "publish"}, Continue(c, at)
      PROVE job' \in [Conns -> Jobs \cup {NoJob}] /\ JobInv'
  <2> DEFINE j == [kind |-> job[c].kind, at |-> at, snap |-> job[c].snap]
  <2>1. j \in Jobs /\ j.snap = job[c].snap
    BY <1>1 DEF Jobs
  <2>2. job' = [job EXCEPT ![c] = j]
    BY <1>3 DEF Continue
  <2> HIDE DEF j
  <2>3. \A k \in Conns : job'[k] = IF k = c THEN j ELSE job[k]
    BY <2>2 DEF TypeOK
  <2>4. job' \in [Conns -> Jobs \cup {NoJob}]
    BY <2>1, <2>2 DEF TypeOK
  <2>5. JobInv'
    BY <2>1, <2>3 DEF JobInv
  <2> QED
    BY <2>4, <2>5
<1> QED
  BY <1>2, <1>3

(* The order of job, store and hub survives a move of a job that the store *)
(* covers, if neither projection goes back.                                *)
LEMMA MoveOrder ==
    ASSUME Inv, NEW c \in Conns, job[c] # NoJob,
           \/ Done(c)
           \/ \E at \in {"classify", "publish"} : Continue(c, at),
           RevOf(store') \in Nat, RevOf(store') >= RevOf(store),
           job[c].snap.rev <= RevOf(store') \/ Done(c),
           RevOf(hub') <= RevOf(store')
    PROVE OrderInv'
<1> USE DEF Inv
<1>1. RevOf(store) \in Nat
  BY RevOfType
<1>2. ASSUME NEW k \in Conns
      PROVE job'[k] # NoJob /\ job'[k].at \in {"classify", "publish"}
              => job'[k].snap.rev <= RevOf(store')
  <2>1. CASE k # c
    <3>1. job'[k] = job[k] /\ job[k] \in Jobs \cup {NoJob}
      BY <1>2, <2>1 DEF TypeOK, Done, Continue
    <3>2. job[k] \in Jobs => job[k].snap.rev \in Nat
      BY SyncConstants DEF Jobs, Snapshots
    <3>3. Covered(job[k])
      BY DEF OrderInv
    <3> QED
      BY <1>1, <3>1, <3>2, <3>3 DEF Covered
  <2>2. CASE k = c /\ Done(c)
    BY <2>2 DEF TypeOK, Done
  <2>3. CASE k = c /\ ~Done(c)
    <3>1. job'[k].snap = job[c].snap
      BY <2>3 DEF TypeOK, Continue
    <3> QED
      BY <2>3, <3>1
  <2> QED
    BY <2>1, <2>2, <2>3
<1>3. RevOf(store)' = RevOf(store') /\ RevOf(hub)' = RevOf(hub')
  BY DEF RevOf
<1> QED
  BY <1>2, <1>3 DEF OrderInv, Covered, HubIsDurable

(* AfterStore moves the job on to a step that needs the store, or ends it. *)
LEMMA AfterStoreMoves ==
    ASSUME Inv, NEW c \in Conns, NEW o, AfterStore(c, o)
    PROVE /\ Done(c) \/ \E at \in {"classify", "publish"} : Continue(c, at)
          /\ needsFull' \in [Conns -> BOOLEAN] /\ asked' \in [Conns -> BOOLEAN]
<1> USE DEF Inv
<1>1. CASE o \in PersistedOutcomes(job[c].kind)
  BY <1>1 DEF AfterStore, TypeOK
<1>2. CASE o \notin PersistedOutcomes(job[c].kind)
  BY <1>2 DEF AfterStore, RequestResync, TypeOK
<1> QED
  BY <1>1, <1>2

(* The store transaction.                                                  *)
LEMMA StoreInv == ASSUME Inv, NEW c \in Conns, Store(c) PROVE Inv'
<1> USE DEF Inv
<1>1. UNCHANGED <<truth, conn, wire, open, hub, errors, restarts>> /\ job[c] # NoJob
  BY DEF Store, deviceVars, boundVars
<1>2. /\ job[c] \in Jobs /\ store' \in {store, job[c].snap}
      /\ RevOf(store') \in Nat /\ RevOf(store') >= RevOf(store)
      /\ job[c].snap.rev <= RevOf(store')
  BY <1>1, StoreAdvances DEF Store
<1>3. /\ Done(c) \/ \E at \in {"classify", "publish"} : Continue(c, at)
      /\ needsFull' \in [Conns -> BOOLEAN] /\ asked' \in [Conns -> BOOLEAN]
  BY AfterStoreMoves DEF Store
<1>4. job' \in [Conns -> Jobs \cup {NoJob}] /\ JobInv'
  BY <1>1, <1>3, MoveJob
<1>5. store' \in Snapshots \cup {NoState}
  BY <1>2 DEF TypeOK, Jobs
<1>6. TypeOK'
  BY <1>1, <1>3, <1>4, <1>5 DEF TypeOK, Rev
<1>7. DataInv'
  <2>1. GoodSnap(truth, job[c].snap)
    BY <1>1 DEF JobInv
  <2> QED
    BY <1>1, <1>2, <2>1 DEF DataInv
<1>8. RevOf(hub') <= RevOf(store')
  <2>1. RevOf(hub) <= RevOf(store) /\ RevOf(hub) \in Nat /\ RevOf(store) \in Nat
    BY RevOfType DEF OrderInv, HubIsDurable
  <2> QED
    BY <1>1, <1>2, <2>1
<1>9. OrderInv'
  BY <1>1, <1>2, <1>3, <1>8, MoveOrder
<1> QED
  BY <1>1, <1>4, <1>6, <1>7, <1>9, WireFrame

(* A failed store call ends the job: an error is not a persisted outcome.  *)
LEMMA StoreFailsInv == ASSUME Inv, NEW c \in Conns, StoreFails(c) PROVE Inv'
<1> USE DEF Inv
<1>1. /\ UNCHANGED <<truth, conn, wire, open, hub, restarts>> /\ job[c] # NoJob
      /\ errors' = errors + 1 /\ errors < MaxErrors
  BY DEF StoreFails, deviceVars
<1>2. /\ job[c] \in Jobs /\ store' \in {store, job[c].snap}
      /\ RevOf(store') \in Nat /\ RevOf(store') >= RevOf(store)
  BY <1>1, StoreAdvances, RevOfType DEF StoreFails
<1>3. Done(c)
  BY DEF StoreFails, AfterStore, PersistedOutcomes
<1>4. needsFull' \in [Conns -> BOOLEAN] /\ asked' \in [Conns -> BOOLEAN]
  BY AfterStoreMoves DEF StoreFails
<1>5. job' \in [Conns -> Jobs \cup {NoJob}] /\ JobInv'
  BY <1>1, <1>3, MoveJob
<1>6. store' \in Snapshots \cup {NoState}
  BY <1>2 DEF TypeOK, Jobs
<1>7. TypeOK'
  BY <1>1, <1>4, <1>5, <1>6, SyncConstants DEF TypeOK, Rev
<1>8. DataInv'
  <2>1. GoodSnap(truth, job[c].snap)
    BY <1>1 DEF JobInv
  <2> QED
    BY <1>1, <1>2, <2>1 DEF DataInv
<1>9. OrderInv'
  <2>1. RevOf(hub) <= RevOf(store) /\ RevOf(hub) \in Nat /\ RevOf(store) \in Nat
    BY RevOfType DEF OrderInv, HubIsDurable
  <2> QED
    BY <1>1, <1>2, <1>3, <2>1, MoveOrder
<1> QED
  BY <1>1, <1>5, <1>7, <1>8, <1>9, WireFrame

(* accept_snapshot reads the hub.                                          *)
LEMMA ClassifyInv == ASSUME Inv, NEW c \in Conns, Classify(c) PROVE Inv'
<1> USE DEF Inv
<1>1. /\ UNCHANGED <<truth, conn, wire, open, store, hub, errors, restarts>>
      /\ job[c] # NoJob /\ job[c].at = "classify"
  BY DEF Classify, deviceVars, boundVars
<1>2. Done(c) \/ \E at \in {"classify", "publish"} : Continue(c, at)
  BY DEF Classify
<1>3. needsFull' \in [Conns -> BOOLEAN] /\ asked' \in [Conns -> BOOLEAN]
  BY DEF Classify, RequestResync, TypeOK
<1>4. job' \in [Conns -> Jobs \cup {NoJob}] /\ JobInv'
  BY <1>1, <1>2, MoveJob
<1>5. TypeOK'
  BY <1>1, <1>3, <1>4 DEF TypeOK, Rev
<1>6. OrderInv'
  <2>1. RevOf(hub) <= RevOf(store) /\ RevOf(hub) \in Nat /\ RevOf(store) \in Nat
    BY RevOfType DEF OrderInv, HubIsDurable
  <2>2. job[c].snap.rev <= RevOf(store)
    BY <1>1 DEF OrderInv, Covered
  <2> QED
    BY <1>1, <1>2, <2>1, <2>2, MoveOrder
<1> QED
  BY <1>1, <1>4, <1>5, <1>6, WireFrame, DataFrame

(* publish_device_state: the job's snapshot is covered by the store.       *)
LEMMA PublishStateInv == ASSUME Inv, NEW c \in Conns, PublishState(c) PROVE Inv'
<1> USE DEF Inv
<1>1. /\ UNCHANGED <<truth, conn, wire, asked, open, store, errors, restarts>>
      /\ job[c] # NoJob /\ job[c].at = "publish" /\ hub' = job[c].snap /\ Done(c)
  BY DEF PublishState, deviceVars, boundVars
<1>2. job[c].snap \in Snapshots /\ job[c].snap # NoState
  BY <1>1, SyncConstants DEF TypeOK, Jobs, Snapshots, States
<1>3. job' \in [Conns -> Jobs \cup {NoJob}] /\ JobInv'
  BY <1>1, MoveJob
<1>4. needsFull' \in [Conns -> BOOLEAN]
  BY DEF PublishState, TypeOK
<1>5. TypeOK'
  BY <1>1, <1>2, <1>3, <1>4 DEF TypeOK, Rev
<1>6. DataInv'
  <2>1. GoodSnap(truth, job[c].snap)
    BY <1>1 DEF JobInv
  <2> QED
    BY <1>1, <2>1 DEF DataInv
<1>7. OrderInv'
  <2>1. RevOf(store) \in Nat
    BY RevOfType
  <2>2. job[c].snap.rev <= RevOf(store) /\ RevOf(hub') = job[c].snap.rev
    BY <1>1, <1>2 DEF OrderInv, Covered, RevOf
  <2> QED
    BY <1>1, <2>1, <2>2, MoveOrder
<1> QED
  BY <1>1, <1>3, <1>5, <1>6, <1>7, WireFrame

(* A session leaves; what its socket held is lost.                         *)
LEMMA CloseInv == ASSUME Inv, NEW c \in Conns, Close(c) PROVE Inv'
<1> USE DEF Inv
<1>1. wire' = [wire EXCEPT ![c] = <<>>] /\ UNCHANGED <<truth, needsFull, job, store, hub, errors, restarts>>
  BY DEF Close, boundVars
<1>2. wire' \in [Conns -> Seq(Frames)] /\ \A k \in Conns : Len(wire'[k]) <= WireCap
  BY <1>1, SyncConstants DEF TypeOK
<1>3. TypeOK'
  BY <1>1, <1>2 DEF Close, TypeOK, Rev
<1>4. WireInv'
  <2>1. ASSUME NEW k \in Conns, NEW i \in 1..Len(wire'[k])
        PROVE GoodFrame(truth, wire'[k][i])
    BY <1>1, <2>1 DEF TypeOK, WireInv
  <2> QED
    BY <1>1, <2>1 DEF WireInv
<1> QED
  BY <1>1, <1>3, <1>4, JobFrame, DataFrame, OrderFrame

(* A restart loses sessions, sockets and hub, and keeps the store.         *)
LEMMA RestartInv == ASSUME Inv, Restart PROVE Inv'
<1> USE DEF Inv
<1>1. /\ wire' = [c \in Conns |-> <<>>] /\ job' = [c \in Conns |-> NoJob] /\ hub' = NoState
      /\ UNCHANGED <<truth, needsFull, store, errors>>
  BY DEF Restart
<1>2. wire' \in [Conns -> Seq(Frames)] /\ \A k \in Conns : Len(wire'[k]) = 0
  BY <1>1
<1>3. TypeOK'
  <2>1. open' \in [Conns -> {"new", "open", "closed"}]
    BY DEF Restart, TypeOK
  <2>2. restarts' \in 0..MaxRestarts
    BY SyncConstants DEF Restart, TypeOK
  <2> QED
    BY <1>1, <1>2, <2>1, <2>2, SyncConstants DEF Restart, TypeOK, Rev
<1>4. WireInv'
  BY <1>2 DEF WireInv
<1>5. JobInv' /\ DataInv'
  BY <1>1 DEF JobInv, DataInv
<1>6. OrderInv'
  <2>1. RevOf(store) \in Nat
    BY RevOfType
  <2> QED
    BY <1>1, <2>1 DEF OrderInv, Covered, HubIsDurable, RevOf
<1> QED
  BY <1>3, <1>4, <1>5, <1>6

(* A stutter.                                                              *)
LEMMA StutterInv == ASSUME Inv, UNCHANGED vars PROVE Inv'
<1> USE DEF Inv
<1>1. UNCHANGED <<truth, conn, wire, asked, open, needsFull, job, store, hub, errors, restarts>>
  BY DEF vars, deviceVars, sessionVars, boundVars
<1>2. TypeOK'
  BY <1>1 DEF TypeOK, Rev
<1> QED
  BY <1>1, <1>2, WireFrame, JobFrame, DataFrame, OrderFrame

-----------------------------------------------------------------------------

(* The inductive invariant holds in every reachable state.                 *)
THEOREM Invariance == Spec => []Inv
<1>1. Inv /\ [Next]_vars => Inv'
  BY ConnectInv, ChangeInv, DropInv, AnswerResyncInv, ReadFullInv, ReadDeltaInv, StoreInv,
     StoreFailsInv, ClassifyInv, PublishStateInv, CloseInv, RestartInv, StutterInv
     DEF Next, ServerStep
<1> QED
  BY InitInv, <1>1, PTL DEF Spec

(* Every variable of the state path keeps its type.                        *)
THEOREM TypeCorrect == Spec => []TypeOK
<1>1. Inv => TypeOK
  BY DEF Inv
<1> QED
  BY Invariance, <1>1, PTL

(* merge_state and revision_order: the store and the hub always hold what  *)
(* the device had at the revision they name.                               *)
THEOREM ProjectionsTrue == Spec => []ProjectionIsTrue
<1>1. Inv => ProjectionIsTrue
  BY DEF Inv, DataInv, GoodSnap, ProjectionIsTrue
<1> QED
  BY Invariance, <1>1, PTL

(* The hub never shows a revision newer than the store's.                  *)
THEOREM HubAlwaysDurable == Spec => []HubIsDurable
<1>1. Inv => HubIsDurable
  BY DEF Inv, OrderInv
<1> QED
  BY Invariance, <1>1, PTL

(* full_state_outcome: no step takes the stored projection back.           *)
THEOREM StoreOnlyAdvances == Spec => StoreNeverBack
<1>1. ASSUME Inv, [Next]_vars
      PROVE [RevOf(store') >= RevOf(store)]_vars
  <2>1. RevOf(store) \in Nat
    BY <1>1, RevOfType DEF Inv
  <2>2. ASSUME NEW c \in Conns, Store(c) \/ StoreFails(c)
        PROVE RevOf(store') >= RevOf(store)
    BY <1>1, <2>1, <2>2, StoreAdvances DEF Inv, Store, StoreFails
  <2>3. CASE UNCHANGED store
    BY <2>1, <2>3
  <2>4. \/ UNCHANGED vars \/ UNCHANGED store \/ \E c \in Conns : Store(c) \/ StoreFails(c)
    BY <1>1 DEF Next, ServerStep, Connect, Change, Drop, AnswerResync, ReadFull, ReadDelta,
                Classify, PublishState, Close, Restart
  <2> QED
    BY <2>2, <2>3, <2>4
<1>2. Inv /\ [Next]_vars => [RevOf(store') >= RevOf(store)]_vars
  BY <1>1
<1> QED
  BY Invariance, <1>2, PTL DEF Spec, StoreNeverBack
=============================================================================
