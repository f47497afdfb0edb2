-------------------------- MODULE FileTransferClaims -------------------------
(***************************************************************************)
(* What the program says of itself in its messages, where the code does    *)
(* something else.  Each claim is checked in a run of its own, and TLC     *)
(* finds a behaviour that breaks it.                                       *)
(***************************************************************************)
EXTENDS FileTransfer

Deserted == ~running \/ ul_pc \in {"off", "done"} \/ dl_pc \in {"off", "done"}

(***************************************************************************)
(* download_routine, "ZIP file exceeds threshold. Waiting until deleted.": *)
(* an archive above the threshold is deleted in the end, as long as both   *)
(* threads work.  (upload_routine sends no archive above the threshold.)   *)
(***************************************************************************)
ThresholdWaitEnds ==
    (ZipSize(zip) > MAX_ZIP_SIZE) ~> (zip = {} \/ Deserted)

(***************************************************************************)
(* upload_routine, "Successfully uploaded ZIP archive": the archive that   *)
(* is deleted after this message has been uploaded, all of it.  (The       *)
(* download thread may append between sem_post and unlink.)                *)
(***************************************************************************)
DeletedWasUploaded ==
    [][ul_pc = "unlink" /\ zip' = {} => zip \subseteq delivered]_vars

(***************************************************************************)
(* append_to_zip, "Error creating ZIP archive: ...": when zip_open fails   *)
(* the function reports it and returns false; the process goes on.         *)
(* (zip_strerror is given the NULL that zip_open returned.)                *)
(***************************************************************************)
OpenErrorSurvived == exit_status # "segv"

(***************************************************************************)
(* list_new_files, "File already exists in ZIP": what is passed over is in *)
(* the archive.  (Only the name is; the content may be newer, and last_run *)
(* moves past it.)                                                         *)
(***************************************************************************)
SkippedWasArchived == skipped \subseteq archived
=============================================================================
