---------------------------- MODULE MCAsyncCache ----------------------------
(* Instances of AsyncCache for TLC.                                        *)
EXTENDS AsyncCache
MCValue == 0 .. MaxChanges
=============================================================================
