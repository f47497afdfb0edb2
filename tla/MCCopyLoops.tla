----------------------------- MODULE MCCopyLoops -----------------------------
(***************************************************************************)
(* Instances of CopyLoops for TLC.                                         *)
(***************************************************************************)
EXTENDS CopyLoops

\* An archive of three blocks, the last of which makes a short chunk.
MCArchive == <<1, 2, 3>>
=============================================================================
