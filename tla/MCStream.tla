------------------------------ MODULE MCStream ------------------------------
(* Instances of Stream for TLC; the configurations MCStream_*.cfg bind the *)
(* constants.                                                              *)
EXTENDS StreamInv

MCTargets == <<1, 2>>
MCUnitTargets == <<1>>
=============================================================================
