----------------------------- MODULE EntitySync -----------------------------
(***************************************************************************)
(* The path of an observation of an entity from the socket of its device   *)
(* (entity.state in http/control.rs) over the check of its revision and    *)
(* the transaction of store_entity_state to the hub.  Generations of the   *)
(* device overlap, each handles one frame at a time.  A reading is a       *)
(* number or a text; the path of device states is StateSync.               *)
(***************************************************************************)
EXTENDS DeviceDomain, Revision

CONSTANTS
    Entities,       \* the entities the device may declare, by id
    Observations,   \* what it may send, freshness not yet filled in
    Generations,    \* its connections
    MaxEntityNow,   \* bound on the server's clock
    NoReading

EntityIds == DOMAIN Entities

VARIABLES
    entityRow,      \* the ids of the rows of device_control_entities in force
    entityStore,    \* id -> the row of device_control_entity_states
    entityHub,      \* id -> StateHub.entities
    declares,       \* generation -> the ids of the manifest its session holds
    observing,      \* generation -> the frame being handled and where
    entityEnded,    \* the generations whose session has returned
    entityNow

entityVars == <<entityRow, entityStore, entityHub, declares, observing, entityEnded, entityNow>>

EntityInit ==
    /\ entityRow = EntityIds /\ declares = [c \in Generations |-> EntityIds]
    /\ entityStore = [e \in EntityIds |-> NoReading]
    /\ entityHub = [e \in EntityIds |-> NoReading]
    /\ observing = [c \in Generations |-> NoReading]
    /\ entityEnded = {} /\ entityNow = 0

EntityIdle(c) == c \notin entityEnded /\ observing[c] = NoReading

(* entity_revision: against the hub, the whole observation is compared.    *)
EntityRevision(o) ==
    LET accepted == entityHub[o.id] IN
    IF accepted = NoReading THEN "Next"
    ELSE RevisionOrder(accepted.revision, accepted, o.revision, o, {})

(* The session checks that some entity of its manifest could have sent the *)
(* observation and fills in the freshness; Next goes to the store, the     *)
(* other orders at most ask for a resynchronisation, which changes nothing *)
(* here; an observation of no entity ends the session.                     *)
EntityFrame(c, sent) ==
    /\ EntityIdle(c)
    /\ LET o == [sent EXCEPT !.freshness = FreshnessAt(sent, entityNow)] IN
       IF \E e \in declares[c] : ValidFor(o, Entities[e])
       THEN /\ observing' = [observing EXCEPT ![c] =
                  IF EntityRevision(o) = "Next" THEN [at |-> "store", state |-> o] ELSE NoReading]
            /\ UNCHANGED entityEnded
       ELSE entityEnded' = entityEnded \cup {c} /\ UNCHANGED observing
    /\ UNCHANGED <<entityRow, entityStore, entityHub, declares, entityNow>>

(* state_outcome: the payloads are compared without received_at.           *)
StateOutcome(row, o) ==
    Outcome(row.revision, [row EXCEPT !.received_at = Absent],
            o.revision, [o EXCEPT !.received_at = Absent])

(* Mutant: the session has already validated the observation.              *)
EntityOutcomeTrusting(o) ==
    IF o.id \notin entityRow THEN "NotOwned"
    ELSE IF entityStore[o.id] = NoReading THEN "Accepted" ELSE StateOutcome(entityStore[o.id], o)

(* What store_entity_state answers while it holds the row of the entity.   *)
EntityOutcome(o) ==
    IF o.id \notin entityRow THEN "NotOwned"
    ELSE IF ~ValidFor(o, Entities[o.id]) THEN "Error"
    ELSE IF entityStore[o.id] = NoReading THEN "Accepted" ELSE StateOutcome(entityStore[o.id], o)

(* store_entity_state, one transaction that may also fail.                 *)
StoreEntityState(c) ==
    /\ observing[c] # NoReading /\ observing[c].at = "store"
    /\ LET o == observing[c].state IN
       \E outcome \in {EntityOutcome(o), "Error"} :
          /\ observing' = [observing EXCEPT ![c] =
                IF outcome \in {"Accepted", "Replay"} THEN [@ EXCEPT !.at = "publish"] ELSE NoReading]
          /\ entityStore' =
                IF outcome = "Accepted"
                THEN [entityStore EXCEPT ![o.id] = [o EXCEPT !.received_at = entityNow]]
                ELSE entityStore
    /\ UNCHANGED <<entityRow, entityHub, declares, entityEnded, entityNow>>

PublishEntityState(c) ==
    /\ observing[c] # NoReading /\ observing[c].at = "publish"
    /\ entityHub' = [entityHub EXCEPT ![observing[c].state.id] = observing[c].state]
    /\ observing' = [observing EXCEPT ![c] = NoReading]
    /\ UNCHANGED <<entityRow, entityStore, declares, entityEnded, entityNow>>

(* device.manifest: ManifestStore has the whole of apply_manifest; here it *)
(* removes and revives rows of entities, which keep their payloads.        *)
EntitiesDeclared(c, ids) ==
    /\ EntityIdle(c)
    /\ entityRow' = ids /\ declares' = [declares EXCEPT ![c] = ids]
    /\ UNCHANGED <<entityStore, entityHub, observing, entityEnded, entityNow>>

EntityTick ==
    /\ entityNow < MaxEntityNow /\ entityNow' = entityNow + 1
    /\ UNCHANGED <<entityRow, entityStore, entityHub, declares, observing, entityEnded>>

(* The process restarts: the hub and the sessions are gone, and the device *)
(* comes back with the manifest in force.                                  *)
EntityRestart ==
    /\ entityHub' = [e \in EntityIds |-> NoReading]
    /\ observing' = [c \in Generations |-> NoReading]
    /\ entityEnded' = {} /\ declares' = [c \in Generations |-> entityRow]
    /\ UNCHANGED <<entityRow, entityStore, entityNow>>

EntityNext ==
    \/ \E c \in Generations :
          \/ \E o \in Observations : EntityFrame(c, o)
          \/ StoreEntityState(c)
          \/ PublishEntityState(c)
          \/ \E ids \in SUBSET EntityIds : EntitiesDeclared(c, ids)
    \/ EntityTick
    \/ EntityRestart

-----------------------------------------------------------------------------
(* Readings are observations of the entity they are filed under, and the   *)
(* sessions hold frames only between their two awaits.                     *)
EntityTypeOK ==
    /\ entityRow \subseteq EntityIds /\ entityEnded \subseteq Generations
    /\ entityNow \in 0..MaxEntityNow
    /\ \A e \in EntityIds : /\ entityStore[e] # NoReading => entityStore[e].id = e
                            /\ entityHub[e] # NoReading => entityHub[e].id = e
    /\ \A c \in Generations : /\ declares[c] \subseteq EntityIds
                              /\ observing[c] # NoReading => observing[c].at \in {"store", "publish"}

Bare(o) == [o EXCEPT !.received_at = Absent]

(* What the hub shows of an entity was stored: the row is as new, and of   *)
(* the same content when it has the same revision, although overlapping    *)
(* generations compare with the hub, store and publish in three steps.     *)
ReadingIsStored ==
    \A e \in EntityIds : entityHub[e] # NoReading =>
        /\ entityStore[e] # NoReading
        /\ entityHub[e].revision <= entityStore[e].revision
        /\ entityHub[e].revision = entityStore[e].revision => Bare(entityHub[e]) = Bare(entityStore[e])

(* What is shown of an entity is valid for that entity, although the       *)
(* session lets through what any entity of its manifest could have sent    *)
(* and its manifest may be older than the rows.                            *)
ReadingIsOfItsEntity ==
    \A e \in EntityIds :
        /\ entityStore[e] # NoReading => ValidFor(entityStore[e], Entities[e])
        /\ entityHub[e] # NoReading => ValidFor(entityHub[e], Entities[e])

EntitySafe == ReadingIsStored /\ ReadingIsOfItsEntity
=============================================================================
