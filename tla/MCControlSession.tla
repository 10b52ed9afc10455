-------------------------- MODULE MCControlSession --------------------------
(***************************************************************************)
(* Instances of ControlSession for TLC: a controller with the sockets k1   *)
(* and k2, a player with the sockets p1 and p2.                            *)
(***************************************************************************)
EXTENDS ControlSession

CONSTANTS ctlDev, playDev, k1, k2, p1, p2

TheDeviceOf == [c \in Conns |-> IF c \in {k1, k2} THEN ctlDev ELSE playDev]
TheWatchers == Conns \cap {k1, k2}
=============================================================================
