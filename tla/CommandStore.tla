---------------------------- MODULE CommandStore ----------------------------
(***************************************************************************)
(* The durable command records of DeviceControlStore                       *)
(* (persistence/device_control_postgres.rs).  Every operation is one       *)
(* transaction that locks the target's device row (owned: FOR UPDATE OF d) *)
(* so an operation is one step on the row of its command.                  *)
(*                                                                         *)
(* A row belongs to the account of its target, and one account owns a      *)
(* device, so the target stands for the user_id column too.  A request     *)
(* fingerprint covers the whole command: target and body stand for it.     *)
(***************************************************************************)
CONSTANTS
    Devices,    \* device_id
    Bodies,     \* the rest of a command: its type, arguments and deadline
    NoRow       \* no record under this command_id

Failures == {"target_offline", "command_timeout", "too_many_in_flight",
             "invalid_payload", "persistence_unavailable"}

(* What the status and result_payload columns hold of a terminal record:   *)
(* the answer of the target or the failure the server decided on.          *)
Results == {"target_result"} \cup Failures

Statuses == {"reserved"} \cup Results

Row == [target : Devices, body : Bodies, status : Statuses, fresh : BOOLEAN]

Terminal(r) == r # NoRow /\ r.status # "reserved"

NewRow(target, body) ==
    [target |-> target, body |-> body, status |-> "reserved", fresh |-> TRUE]

WithResult(r, result) ==
    [target |-> r.target, body |-> r.body, status |-> result, fresh |-> r.fresh]

Aged(r) ==
    [target |-> r.target, body |-> r.body, status |-> r.status, fresh |-> FALSE]

ReserveOutcomeIgnoringAge(r, owned, target, body) ==  \* mutant: no 24 hours
    IF ~owned THEN "not_owned"
    ELSE IF r = NoRow \/ Terminal(r) THEN "accepted"
    ELSE IF r.target = target /\ r.body = body THEN "replay"
    ELSE "conflict"

(* reserve_command: an identical fresh request is a replay, a terminal     *)
(* record older than 24 hours is replaced, anything else conflicts.        *)
ReserveOutcome(r, owned, target, body) ==
    IF ~owned THEN "not_owned"
    ELSE IF r = NoRow \/ (Terminal(r) /\ ~r.fresh) THEN "accepted"
    ELSE IF r.fresh /\ r.target = target /\ r.body = body THEN "replay"
    ELSE "conflict"

(* complete_command: only a reserved record of this target takes a result. *)
CompleteOutcome(r, owned, target, result) ==
    IF ~owned \/ r = NoRow THEN "not_owned"
    ELSE IF r.target # target THEN "not_owned"
    ELSE IF r.status = "reserved" THEN "accepted"
    ELSE IF r.status = result THEN "replay" ELSE "conflict"

(* load_command: the status of a record whose target is still owned.       *)
LoadStatus(r, owned, target) ==
    IF owned /\ r # NoRow /\ r.target = target THEN r.status ELSE "none"

(* prune_commands deletes terminal records 24 hours after they completed.  *)
Prunable(r) == Terminal(r) /\ ~r.fresh
=============================================================================
