---------------------------- MODULE ManifestStore ----------------------------
(***************************************************************************)
(* The durable manifest of one device: apply_manifest and projection       *)
(* (persistence/device_control_postgres.rs), called at registration and    *)
(* for device.manifest frames.  An entry stands for a capability, an       *)
(* entity or a surface, which follow the same rules in tables of their     *)
(* own.  The device numbers its manifests; frames of different             *)
(* generations reach the store in any order, each in one transaction under *)
(* the lock of the device row.                                             *)
(***************************************************************************)
EXTENDS Naturals, Sequences, Revision

CONSTANTS
    Entries,    \* names of capabilities, entities and surfaces
    Payloads,   \* their public projections
    NoEntry,    \* no row, or not declared
    MaxRev      \* bound: revisions of the manifest

ASSUME ManifestConstants == NoEntry \notin Payloads /\ MaxRev \in Nat \ {0}

VARIABLES
    history,    \* the manifests of the device, by revision
    revision,   \* device_control_manifests.revision, 0 without a row
    current,    \* device_control_manifests.payload
    payload,    \* the payload column of the entry tables
    removed     \* the entries with removed_at set

vars == <<history, revision, current, payload, removed>>

Contents == [Entries -> Payloads \cup {NoEntry}]
Declared(content) == {e \in Entries : content[e] # NoEntry}
Nothing == [e \in Entries |-> NoEntry]

TypeOK ==
    /\ history \in Seq(Contents) /\ Len(history) <= MaxRev
    /\ revision \in 0..Len(history)
    /\ current \in Contents
    /\ payload \in Contents
    /\ removed \subseteq Declared(payload)

Init ==
    /\ history = <<>>
    /\ revision = 0 /\ current = Nothing
    /\ payload = Nothing /\ removed = {}

(* The device declares a new manifest, connected or not.                   *)
Revise(content) ==
    /\ Len(history) < MaxRev
    /\ history' = Append(history, content)
    /\ UNCHANGED <<revision, current, payload, removed>>

ManifestOutcome(r) ==
    IF revision = 0 THEN "Accepted" ELSE Outcome(revision, current, r, history[r])

(* A plausible bug: the rows of the old manifest stay live.                *)
TombstonedNothing == removed

(* Every live row is marked removed before the entries are written.        *)
Tombstoned == Declared(payload)

(* projection fails on a removed row with another payload, and the whole   *)
(* transaction is dropped with the answer Conflict.                        *)
Projects(content) ==
    \A e \in Declared(content) : e \in Tombstoned => payload[e] = content[e]

(* A plausible bug: rows are deleted where they should be kept as removed. *)
ApplyDeleting(r) ==
    /\ ManifestOutcome(r) = "Accepted" /\ Projects(history[r])
    /\ revision' = r
    /\ current' = history[r]
    /\ payload' = history[r]
    /\ removed' = Tombstoned \ Declared(history[r])
    /\ UNCHANGED history

(* apply_manifest of the manifest with revision r.                         *)
Apply(r) ==
    /\ ManifestOutcome(r) = "Accepted" /\ Projects(history[r])
    /\ revision' = r
    /\ current' = history[r]
    /\ payload' = [e \in Entries |-> IF history[r][e] # NoEntry THEN history[r][e] ELSE payload[e]]
    /\ removed' = Tombstoned \ Declared(history[r])
    /\ UNCHANGED history

(* Stale, Replay, Conflict and Resync change nothing; all but Replay end   *)
(* the session.                                                            *)
Decline(r) ==
    /\ ManifestOutcome(r) # "Accepted" \/ ~Projects(history[r])
    /\ UNCHANGED vars

Next ==
    \/ \E content \in Contents : Revise(content)
    \/ \E r \in 1..Len(history) : Apply(r) \/ Decline(r)

Spec == Init /\ [][Next]_vars

-----------------------------------------------------------------------------

(* The live rows of the entry tables are exactly the entries of the        *)
(* accepted manifest, with its payloads: removing everything and writing   *)
(* the declared entries back leaves no row of an older manifest live.      *)
LiveRowsMatch ==
    /\ Declared(payload) \ removed = Declared(current)
    /\ \A e \in Declared(current) : payload[e] = current[e]

(* An entry once removed comes back only as it was, however many manifests *)
(* later ("revival only for the identical previous projection").           *)
RevivalIsIdentical ==
    [][\A e \in removed : payload'[e] = payload[e]]_vars

(* "a full manifest tombstones omitted entries, and revival is allowed     *)
(* only for the identical previous public projection"                      *)
(* (docs/roadmap/device-control-tasks.md): the next manifest is accepted   *)
(* when the removed entries it names are as they were.                     *)
ReplacementAccepted ==
    \A r \in 1..Len(history) :
        /\ ManifestOutcome(r) = "Accepted"
        /\ \A e \in removed : history[r][e] \in {NoEntry, payload[e]}
        => Projects(history[r])
=============================================================================
