-------------------------------- MODULE MCIce --------------------------------
(***************************************************************************)
(* Small instances of Ice for TLC.                                         *)
(***************************************************************************)
EXTENDS Ice
=============================================================================
