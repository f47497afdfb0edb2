-------------------------------- MODULE LibZip -------------------------------
(***************************************************************************)
(* An archive under libzip: zip_open, zip_file_add,                        *)
(* zip_file_set_encryption and zip_close, one archive at a time.  zip_open *)
(* reads the directory of the archive; what is added is only remembered,   *)
(* and read when zip_close writes a new archive to a temporary file and    *)
(* renames it over the old one.                                            *)
(*                                                                         *)
(* An archive is the sequence of its entries.  libzip keeps no archive     *)
(* without entries, so that the empty sequence stands for a missing file.  *)
(* Content is a version of a file, whole or truncated.                     *)
(***************************************************************************)
EXTENDS Integers, SequencesExt

CONSTANTS
    Files,          \* names
    MaxFaults       \* bound: different kinds of fault in a behaviour

ASSUME LibZipAssumption == IsFiniteSet(Files) /\ MaxFaults \in Nat

VARIABLES
    zip,            \* the archive on disk
    za,             \* the zip_t: its entries, with their changes
    tmp,            \* entries written to the temporary file
    failed          \* kinds of fault that have happened

libzipVars == <<zip, za, tmp>>

NoData == [ver |-> 0, whole |-> FALSE]

LibZipInit ==
    /\ zip = <<>>
    /\ za = <<>>
    /\ tmp = <<>>
    /\ failed = {}

\* A call that succeeds, and one that fails for want of memory, space, ...
Works == UNCHANGED failed
Fails(kind) ==
    /\ Cardinality(failed \cup {kind}) <= MaxFaults
    /\ failed' = failed \cup {kind}

-----------------------------------------------------------------------------
(* The archive in memory *)

\* The central directory, as entries without changes.
read_cdir ==
    [i \in DOMAIN zip |->
        [name |-> zip[i].name, orig |-> zip[i].data, encrypted |-> zip[i].encrypted,
         source |-> NoData, password |-> FALSE]]

\* Index of the entry of this name, 0 for -1.
zip_name_locate(name) ==
    IF \E i \in DOMAIN za : za[i].name = name
    THEN CHOOSE i \in DOMAIN za : za[i].name = name
    ELSE 0

(***************************************************************************)
(* za after zip_file_add, without ZIP_FL_OVERWRITE: the new entry is taken *)
(* back when another one has its name.                                     *)
(***************************************************************************)
zip_file_add(name, data) ==
    IF zip_name_locate(name) # 0
    THEN za
    ELSE Append(za, [name |-> name, orig |-> NoData, encrypted |-> FALSE,
                     source |-> data, password |-> FALSE])

\* entries after zip_file_set_encryption on index i: ZIP_ER_INVAL for -1.
zip_file_set_encryption(entries, i) ==
    IF i = 0 THEN entries ELSE [entries EXCEPT ![i].password = TRUE]

HasChanges(e) == e.source # NoData \/ e.password

\* _zip_changed
zip_changed == \E i \in DOMAIN za : HasChanges(za[i])

-----------------------------------------------------------------------------
(* zip_close *)

(***************************************************************************)
(* Without entries or changes the zip_t is discarded and the archive left  *)
(* alone.  (An archive that loses its last entry is removed; nobody        *)
(* deletes entries here.)                                                  *)
(***************************************************************************)
close_discards ==
    /\ ~zip_changed
    /\ za' = <<>>
    /\ UNCHANGED <<zip, tmp>>

\* zip_source_begin_write: the temporary file is created.
close_begin_write ==
    /\ zip_changed
    /\ tmp' = <<>>
    /\ UNCHANGED <<zip, za>>

(***************************************************************************)
(* Whether add_data has all it needs: new content is a file that must be   *)
(* there; an old entry that gets a password is read and encrypted anew,    *)
(* and when it is encrypted already there is no default password to read   *)
(* it with.                                                                *)
(***************************************************************************)
add_data_possible(e) ==
    e.source = NoData /\ e.password => ~e.encrypted

\* The entry as it is written: from its source, re-encrypted, or copied.
written(e) ==
    [name |-> e.name,
     data |-> IF e.source # NoData THEN e.source ELSE e.orig,
     encrypted |-> e.password \/ (e.source = NoData /\ e.encrypted)]

\* The next entry of the list goes to the temporary file.
close_add_data ==
    LET e == za[Len(tmp) + 1]
    IN  /\ Len(tmp) < Len(za)
        /\ add_data_possible(e)
        /\ tmp' = Append(tmp, written(e))
        /\ UNCHANGED <<zip, za>>

close_cannot_add ==
    /\ Len(tmp) < Len(za)
    /\ ~add_data_possible(za[Len(tmp) + 1])

\* zip_source_commit_write, a rename, and zip_discard.
commit_write ==
    /\ Len(tmp) = Len(za)
    /\ zip' = tmp
    /\ za' = <<>>
    /\ tmp' = <<>>

\* Mutant: the archive is removed instead of the temporary file.
rollback_write_removes ==
    /\ za' = <<>>
    /\ tmp' = <<>>
    /\ zip' = <<>>

(***************************************************************************)
(* zip_source_rollback_write: the temporary file is removed.  The zip_t    *)
(* stays allocated, and the caller drops its pointer.                      *)
(***************************************************************************)
rollback_write ==
    /\ za' = <<>>
    /\ tmp' = <<>>
    /\ UNCHANGED zip
=============================================================================
