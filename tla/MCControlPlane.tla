--------------------------- MODULE MCControlPlane ---------------------------
(* Instances of ControlPlane: one seeded key, racing updates and publishes.    *)
EXTENDS ControlPlane, TLC
=============================================================================
