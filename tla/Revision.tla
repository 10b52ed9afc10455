------------------------------ MODULE Revision ------------------------------
(***************************************************************************)
(* revision_order (device_control/revision.rs), the comparison shared by   *)
(* the manifests, the device states and the entity states, and the         *)
(* outcomes the store derives from it.                                     *)
(***************************************************************************)
EXTENDS Integers

(* base is the set of the required base revision, empty for None.          *)
RevisionOrder(accRev, accepted, inRev, incoming, base) ==
    CASE inRev < accRev -> "Stale"
      [] inRev = accRev -> IF incoming = accepted THEN "Replay" ELSE "Conflict"
      [] inRev = accRev + 1 /\ base \subseteq {accRev} -> "Next"
      [] OTHER -> "Gap"

(* outcome: what the store answers for a revision it compares.             *)
Outcome(accRev, accepted, inRev, incoming) ==
    LET order == RevisionOrder(accRev, accepted, inRev, incoming, {}) IN
    CASE order = "Next" -> "Accepted"
      [] order = "Gap" -> "Resync"
      [] OTHER -> order

(* A plausible bug: the resync rule also lets an older snapshot through.   *)
FullStateOutcomeIgnoringAge(accRev, accepted, inRev, incoming) == "Accepted"

(* full_state_outcome: a complete snapshot may skip revisions.             *)
FullStateOutcome(accRev, accepted, inRev, incoming) ==
    LET outcome == Outcome(accRev, accepted, inRev, incoming) IN
    IF outcome = "Resync" THEN "Accepted" ELSE outcome
=============================================================================
