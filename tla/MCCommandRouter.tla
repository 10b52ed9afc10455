-------------------------- MODULE MCCommandRouter --------------------------
(***************************************************************************)
(* Instances of CommandRouter for TLC: a controller with the sockets k1    *)
(* and k2 and a player with the sockets p1 and p2.                         *)
(***************************************************************************)
EXTENDS CommandRouter, TLC

CONSTANTS ctlDev, ctlDev2, playDev, k1, k2, p1, p2, m1, m2, c1, c2,
          playUri, playStation

TheDeviceOf == [c \in Conns |-> IF c \in {k1, k2} THEN ctlDev ELSE playDev]
TwoControllersOf ==
    [c \in Conns |-> IF c = k1 THEN ctlDev ELSE IF c = k2 THEN ctlDev2 ELSE playDev]
ControlsPlayer == {<<ctlDev, playDev>>}
BothControlPlayer == {<<ctlDev, playDev>>, <<ctlDev2, playDev>>}
ControlsPlayerAndSelf == {<<ctlDev, playDev>>, <<playDev, playDev>>}
CallSymmetry == Permutations(Calls)
=============================================================================
