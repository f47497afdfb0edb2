------------------------- MODULE FileTransferMapping -------------------------
(***************************************************************************)
(* FileTransfer implements ArchiveRelay.  The writer has a copy between    *)
(* zip_open and zip_close; the sender believes in its success between      *)
(* upload_file and delete_local_file; everything else is on the disks.     *)
(* The sender may be mistaken only where one of the calls can fail whose   *)
(* failure upload_file does not notice.                                    *)
(***************************************************************************)
EXTENDS FileTransfer

Relay == INSTANCE ArchiveRelay WITH
             Entries   <- Entry,
             Mistakes  <- Faults \cap UnnoticedInUpload # {},
             staged    <- zip,
             copy      <- IF dl_pc = "zip_close" THEN {za} ELSE {},
             out       <- dest,
             whole     <- dest_whole,
             confirmed <- ul_pc = "unlink"

(***************************************************************************)
(* Every step of the program is a step of the abstract relay or leaves the *)
(* archives alone: append_to_zip commits against the archive it opened or  *)
(* against none, upload_file sends exactly the archive on the disk while   *)
(* no append is under way, and delete_local_file removes an archive that   *)
(* holds all of what RemoteHost2 has: a whole archive, unless an upload    *)
(* failed unnoticed.                                                       *)
(***************************************************************************)
ImplementsRelay == Relay!Spec
=============================================================================
