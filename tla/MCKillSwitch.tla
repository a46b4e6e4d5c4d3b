---------------------------- MODULE MCKillSwitch ----------------------------
(* Instances of KillSwitch for TLC: all the sockets belong to one device.     *)
EXTENDS KillSwitch

CONSTANTS s1, s2, d1, p1

OneDevice == [s \in Sockets |-> d1]
=============================================================================
