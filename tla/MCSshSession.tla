---------------------------- MODULE MCSshSession -----------------------------
(***************************************************************************)
(* Instances of SshSession for TLC.                                        *)
(***************************************************************************)
EXTENDS SshSession
=============================================================================
