---------------------------- MODULE MCOldTransfer ----------------------------
(***************************************************************************)
(* Instances of OldTransfer for TLC.                                       *)
(***************************************************************************)
EXTENDS OldTransfer
=============================================================================
