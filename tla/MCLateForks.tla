------------------------------ MODULE MCLateForks ------------------------------
(* Instances of LateForks for TLC.                                         *)
EXTENDS LateForks

CONSTANTS alice, bob
=============================================================================
