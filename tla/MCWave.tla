-------------------------------- MODULE MCWave --------------------------------
(***************************************************************************)
(* Wave on small instances.                                                *)
(***************************************************************************)
EXTENDS Wave

CONSTANTS l1, l2
MCOrder == <<l1, l2>>
=============================================================================
