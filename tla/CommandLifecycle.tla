-------------------------- MODULE CommandLifecycle --------------------------
(***************************************************************************)
(* What the command router promises for each command_id, whatever races,   *)
(* failures and restarts happen: a reservation is delivered at most once   *)
(* and never after it was decided, it is decided at most once, and only    *)
(* the decision is announced to controllers.  CommandRouter implements     *)
(* this specification.                                                     *)
(***************************************************************************)
CONSTANTS Cmds, Results

VARIABLES
    phase,      \* "none", "reserved" or the result of the command
    old,        \* the reservation is older than the 24-hour replay window
    delivered,  \* the target was sent the command
    announced   \* the results that controllers were sent

lifeVars == <<phase, old, delivered, announced>>

Decided(m) == phase[m] \in Results

LifeInit ==
    /\ phase = [m \in Cmds |-> "none"]
    /\ old = [m \in Cmds |-> FALSE]
    /\ delivered = [m \in Cmds |-> FALSE]
    /\ announced = [m \in Cmds |-> {}]

(* A command id is free, or its decided reservation is out of the window.  *)
ReserveCmd(m) ==
    /\ phase[m] = "none" \/ (old[m] /\ Decided(m))
    /\ phase' = [phase EXCEPT ![m] = "reserved"]
    /\ old' = [old EXCEPT ![m] = FALSE]
    /\ delivered' = [delivered EXCEPT ![m] = FALSE]
    /\ announced' = [announced EXCEPT ![m] = {}]

Deliver(m) ==
    /\ phase[m] = "reserved" /\ ~delivered[m]
    /\ delivered' = [delivered EXCEPT ![m] = TRUE]
    /\ UNCHANGED <<phase, old, announced>>

Decide(m) ==
    /\ phase[m] = "reserved"
    /\ \E res \in Results : phase' = [phase EXCEPT ![m] = res]
    /\ UNCHANGED <<old, delivered, announced>>

Announce(m) ==
    /\ Decided(m)
    /\ announced' = [announced EXCEPT ![m] = @ \cup {phase[m]}]
    /\ UNCHANGED <<phase, old, delivered>>

Age(m) ==
    /\ phase[m] # "none"
    /\ old' = [old EXCEPT ![m] = TRUE]
    /\ UNCHANGED <<phase, delivered, announced>>

Forget(m) ==
    /\ old[m] /\ Decided(m)
    /\ phase' = [phase EXCEPT ![m] = "none"]
    /\ old' = [old EXCEPT ![m] = FALSE]
    /\ UNCHANGED <<delivered, announced>>

LifeNext ==
    \E m \in Cmds : \/ ReserveCmd(m) \/ Deliver(m) \/ Decide(m)
                    \/ Announce(m) \/ Age(m) \/ Forget(m)

LifeSpec == LifeInit /\ [][LifeNext]_lifeVars
=============================================================================
