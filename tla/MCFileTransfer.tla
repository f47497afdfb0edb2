--------------------------- MODULE MCFileTransfer ----------------------------
(***************************************************************************)
(* Instances of FileTransfer for TLC.                                      *)
(***************************************************************************)
EXTENDS FileTransferMapping, FileTransferClaims

CONSTANT Long    \* files that are long from the start

\* Files grow when they are rewritten: a second version is long too.
MCZipSize(z) ==
    Cardinality(z) + 2 * Cardinality({e \in z : e.name \in Long \/ e.ver > 1})
=============================================================================
