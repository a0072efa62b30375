---------------------------- MODULE MCCoreFeature ----------------------------
(* Instances of CoreFeature for TLC.                                       *)
EXTENDS CoreFeature
MCValue == 0 .. MaxLog
=============================================================================
