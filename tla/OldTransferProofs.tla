-------------------------- MODULE OldTransferProofs ---------------------------
(***************************************************************************)
(* Proofs about OldTransfer, the sequential program over libzip, for every *)
(* set of files, every length of time and every combination of faults.     *)
(* OldInv is preserved by every step; the safety properties are parts of   *)
(* it, and the action properties follow from it.                           *)
(***************************************************************************)
EXTENDS OldTransfer, SequenceTheorems, TLAPS

USE DEF envVars, scanVars, destVars, libzipVars, vars

\* Entries of an archive on disk and of a zip_t.
DiskEntry == [name : Files, data : Data, encrypted : BOOLEAN]
OpenEntry == [name : Files, orig : Data, encrypted : BOOLEAN,
              source : Data, password : BOOLEAN]

-----------------------------------------------------------------------------
(* libzip *)

\* The value that stands for "no source" is a piece of data.
LEMMA NoDataType == NoData \in Data
BY OldAssumption DEF OldAssumption, NoData, Data

\* zip_open reads one entry for each entry of the archive, without changes.
LEMMA read_cdir_Type ==
  ASSUME zip \in Seq(DiskEntry)
  PROVE  /\ read_cdir \in Seq(OpenEntry)
         /\ Len(read_cdir) = Len(zip)
         /\ \A i \in 1..Len(zip) :
              /\ read_cdir[i].name = zip[i].name
              /\ read_cdir[i].orig = zip[i].data
              /\ read_cdir[i].encrypted = zip[i].encrypted
              /\ read_cdir[i].source = NoData
<1>1. Len(zip) \in Nat /\ DOMAIN zip = 1..Len(zip)
  BY LenProperties
<1>2. \A i \in 1..Len(zip) : zip[i] \in DiskEntry
  BY ElementOfSeq
<1>3. \A i \in 1..Len(zip) :
        [name |-> zip[i].name, orig |-> zip[i].data,
         encrypted |-> zip[i].encrypted, source |-> NoData,
         password |-> FALSE] \in OpenEntry
  BY <1>2, NoDataType DEF DiskEntry, OpenEntry
<1>4. read_cdir \in [1..Len(zip) -> OpenEntry]
  BY <1>1, <1>3 DEF read_cdir
<1>5. read_cdir \in Seq(OpenEntry) /\ Len(read_cdir) = Len(zip)
  BY <1>1, <1>4, SeqDef, LenProperties
<1> QED
  BY <1>1, <1>5 DEF read_cdir

\* zip_name_locate finds an entry of that name, or there is none.
LEMMA zip_name_locate_Found ==
  ASSUME za \in Seq(OpenEntry), NEW f
  PROVE  \/ /\ zip_name_locate(f) \in 1..Len(za)
            /\ zip_name_locate(f) # 0
            /\ za[zip_name_locate(f)].name = f
         \/ /\ zip_name_locate(f) = 0
            /\ \A i \in 1..Len(za) : za[i].name # f
<1>1. DOMAIN za = 1..Len(za)
  BY LenProperties
<1>2. CASE \E i \in DOMAIN za : za[i].name = f
  <2>1. zip_name_locate(f) = CHOOSE i \in DOMAIN za : za[i].name = f
    BY <1>2 DEF zip_name_locate
  <2>2. zip_name_locate(f) \in DOMAIN za /\ za[zip_name_locate(f)].name = f
    BY <1>2, <2>1
  <2> QED
    BY <1>1, <2>2
<1>3. CASE ~\E i \in DOMAIN za : za[i].name = f
  BY <1>1, <1>3 DEF zip_name_locate
<1> QED
  BY <1>2, <1>3

\* zip_file_set_encryption gives one entry a password.
LEMMA zip_file_set_encryption_Effect ==
  ASSUME NEW s \in Seq(OpenEntry), NEW j \in 1..Len(s), j # 0
  PROVE  /\ zip_file_set_encryption(s, j) \in Seq(OpenEntry)
         /\ Len(zip_file_set_encryption(s, j)) = Len(s)
         /\ zip_file_set_encryption(s, j)[j] = [s[j] EXCEPT !.password = TRUE]
         /\ \A i \in 1..Len(s) :
              i # j => zip_file_set_encryption(s, j)[i] = s[i]
<1> DEFINE e == [s[j] EXCEPT !.password = TRUE]
           t == [s EXCEPT ![j] = e]
<1>1. s[j] \in OpenEntry
  BY ElementOfSeq
<1>2. e \in OpenEntry
  BY <1>1 DEF OpenEntry
<1>3. zip_file_set_encryption(s, j) = t
  BY DEF zip_file_set_encryption
<1> HIDE DEF e
<1>4. t \in Seq(OpenEntry) /\ Len(t) = Len(s)
      /\ \A i \in 1..Len(s) : t[i] = IF i = j THEN e ELSE s[i]
  BY <1>2, ExceptSeq
<1> HIDE DEF t
<1> QED
  BY <1>3, <1>4 DEF e

(***************************************************************************)
(* What an iteration of create_zip_from_files may do to the zip_t s: give  *)
(* old entries a password, and append one entry with the new data.         *)
(***************************************************************************)
Grown(s, t, f, data) ==
    /\ t \in Seq(OpenEntry)
    /\ Len(t) \in {Len(s), Len(s) + 1}
    /\ \A i \in 1..Len(s) :
        /\ t[i].name = s[i].name
        /\ t[i].orig = s[i].orig
        /\ t[i].encrypted = s[i].encrypted
        /\ t[i].source = s[i].source
        /\ s[i].password => t[i].password
    /\ Len(t) = Len(s) + 1 =>
        /\ t[Len(t)].name = f
        /\ t[Len(t)].orig = NoData
        /\ t[Len(t)].encrypted = FALSE
        /\ t[Len(t)].source = data

\* A password on an entry does not change what it is.
LEMMA PasswordGrows ==
  ASSUME NEW s \in Seq(OpenEntry), NEW j \in 1..Len(s), j # 0, NEW f, NEW data
  PROVE  /\ Grown(s, zip_file_set_encryption(s, j), f, data)
         /\ Len(zip_file_set_encryption(s, j)) = Len(s)
         /\ zip_file_set_encryption(s, j)[j].password = TRUE
<1>1. Len(s) \in Nat /\ \A i \in 1..Len(s) : s[i] \in OpenEntry
  BY LenProperties, ElementOfSeq
<1> DEFINE t == zip_file_set_encryption(s, j)
<1>2. /\ t \in Seq(OpenEntry) /\ Len(t) = Len(s)
      /\ \A i \in 1..Len(s) : i # j => t[i] = s[i]
  BY zip_file_set_encryption_Effect
<1>3. /\ t[j].name = s[j].name /\ t[j].orig = s[j].orig
      /\ t[j].encrypted = s[j].encrypted /\ t[j].source = s[j].source
      /\ t[j].password = TRUE
  <2>1. t[j] = [s[j] EXCEPT !.password = TRUE]
    BY zip_file_set_encryption_Effect
  <2> QED
    BY <1>1, <2>1 DEF OpenEntry
<1> HIDE DEF t
<1>4. Grown(s, t, f, data)
  BY <1>1, <1>2, <1>3 DEF Grown
<1> QED
  BY <1>2, <1>3, <1>4 DEF t

\* zip_file_add appends the data under a new name, and nothing under an old one.
LEMMA zip_file_add_Grows ==
  ASSUME za \in Seq(OpenEntry), NEW f \in Files, NEW data \in Data
  PROVE  /\ Grown(za, zip_file_add(f, data), f, data)
         /\ zip_name_locate(f) # 0 => zip_file_add(f, data) = za
         /\ zip_name_locate(f) = 0 => Len(zip_file_add(f, data)) = Len(za) + 1
<1>1. Len(za) \in Nat
  BY LenProperties
<1>2. CASE zip_name_locate(f) # 0
  BY <1>1, <1>2 DEF zip_file_add, Grown
<1>3. CASE zip_name_locate(f) = 0
  <2> DEFINE e == [name |-> f, orig |-> NoData, encrypted |-> FALSE,
                   source |-> data, password |-> FALSE]
             t == Append(za, e)
  <2>1. e \in OpenEntry
    BY NoDataType DEF OpenEntry
  <2>2. zip_file_add(f, data) = t
    BY <1>3 DEF zip_file_add
  <2>3. /\ e.name = f /\ e.orig = NoData /\ e.encrypted = FALSE
        /\ e.source = data
    OBVIOUS
  <2> HIDE DEF e
  <2>4. /\ t \in Seq(OpenEntry) /\ Len(t) = Len(za) + 1
        /\ \A i \in 1..Len(za) : t[i] = za[i]
        /\ t[Len(za) + 1] = e
    BY <2>1, AppendProperties
  <2> HIDE DEF t
  <2>5. Grown(za, t, f, data)
    BY <1>1, <2>3, <2>4 DEF Grown
  <2> QED
    BY <1>3, <2>2, <2>4, <2>5
<1> QED
  BY <1>2, <1>3

\* The successful iteration: an entry of this name has a password, be it the
\* new one or, under an old name, the old one.
LEMMA add_encrypted_Effect ==
  ASSUME za \in Seq(OpenEntry), NEW f \in Files, local \in [Files -> Data]
  PROVE  /\ Grown(za, add_encrypted(f), f, local[f])
         /\ Len(add_encrypted(f)) = Len(za) + 1
              => add_encrypted(f)[Len(za) + 1].password
         /\ \E i \in 1..Len(add_encrypted(f)) :
              add_encrypted(f)[i].name = f /\ add_encrypted(f)[i].password
<1> DEFINE l == zip_name_locate(f)
           s == zip_file_add(f, local[f])
           t == add_encrypted(f)
<1>1. Len(za) \in Nat /\ local[f] \in Data
  BY LenProperties
<1>2. CASE l # 0
  <2>1. s = za /\ t = zip_file_set_encryption(za, l)
    BY <1>1, <1>2, zip_file_add_Grows DEF add_encrypted
  <2>2. l \in 1..Len(za) /\ za[l].name = f
    BY <1>2, zip_name_locate_Found
  <2> HIDE DEF l, t
  <2>3. Grown(za, t, f, local[f]) /\ Len(t) = Len(za) /\ t[l].password = TRUE
    BY <1>2, <2>1, <2>2, PasswordGrows
  <2>4. t[l].name = f
    BY <2>2, <2>3 DEF Grown
  <2> QED
    BY <1>1, <2>2, <2>3, <2>4 DEF t
<1>3. CASE l = 0
  <2>1. Grown(za, s, f, local[f]) /\ Len(s) = Len(za) + 1
    BY <1>1, <1>3, zip_file_add_Grows
  <2>2. t = zip_file_set_encryption(s, Len(s))
    BY <1>3 DEF add_encrypted
  <2> HIDE DEF s, t
  <2>3. s \in Seq(OpenEntry) /\ Len(s) \in 1..Len(s) /\ Len(s) # 0
    BY <1>1, <2>1 DEF Grown
  <2>4. Grown(s, t, f, local[f]) /\ Len(t) = Len(s) /\ t[Len(s)].password = TRUE
    BY <2>2, <2>3, PasswordGrows
  <2>5. Grown(za, t, f, local[f])
    BY <1>1, <2>1, <2>3, <2>4 DEF Grown
  <2>6. t[Len(t)].name = f
    BY <1>1, <2>1, <2>4, <2>5 DEF Grown
  <2> QED
    BY <1>1, <2>1, <2>3, <2>4, <2>5, <2>6 DEF t
<1> QED
  BY <1>2, <1>3

\* An iteration of create_zip_from_files, whichever of its calls fails.
LEMMA zip_add_Effect ==
  ASSUME TypeOK, LoopInv, zip_add
  PROVE  /\ new_files[pos] \in Files
         /\ Grown(za, za', new_files[pos], local[new_files[pos]])
         /\ "set_encryption" \notin failed' /\ Len(za') = Len(za) + 1
              => za'[Len(za')].password
         /\ failed' \cap {"zip_file_add", "set_encryption"} = {} /\ closing' =>
              \E i \in 1..Len(za') :
                  za'[i].name = new_files[pos] /\ za'[i].password
<1> DEFINE f == new_files[pos]
<1>1. /\ f \in Files /\ za \in Seq(OpenEntry) /\ local \in [Files -> Data]
      /\ Len(za) \in Nat /\ local[f] \in Data
  BY ElementOfSeq, LenProperties
  DEF TypeOK, LoopType, ArchiveType, LoopInv, zip_add, Round, Open, OpenEntry
<1> HIDE DEF f
<1>2. CASE za' = add_encrypted(f)
  <2>1. Grown(za, za', f, local[f])
    BY <1>1, <1>2, add_encrypted_Effect
  <2>2. Len(za') = Len(za) + 1 => za'[Len(za')].password
    BY <1>1, <1>2, add_encrypted_Effect
  <2>3. \E i \in 1..Len(za') : za'[i].name = f /\ za'[i].password
    BY <1>1, <1>2, add_encrypted_Effect
  <2> QED
    BY <1>1, <2>1, <2>2, <2>3 DEF f
<1>3. CASE /\ Fails("zip_file_add")
           /\ za' = zip_file_set_encryption(za, zip_name_locate(f))
  <2>1. "zip_file_add" \in failed'
    BY <1>3 DEF Fails
  <2>2. Grown(za, za', f, local[f]) /\ Len(za') = Len(za)
    <3>1. CASE zip_name_locate(f) = 0
      BY <1>1, <1>3, <3>1 DEF zip_file_set_encryption, Grown
    <3>2. CASE zip_name_locate(f) # 0
      BY <1>1, <1>3, <3>2, PasswordGrows, zip_name_locate_Found
    <3> QED
      BY <3>1, <3>2
  <2> QED
    BY <1>1, <2>1, <2>2 DEF f
<1>4. CASE Fails("set_encryption") /\ za' = zip_file_add(f, local[f])
  <2>1. "set_encryption" \in failed'
    BY <1>4 DEF Fails
  <2> QED
    BY <1>1, <1>4, <2>1, zip_file_add_Grows DEF f
<1>5. CASE UNCHANGED za /\ closing' = FALSE
  BY <1>1, <1>5 DEF f, Grown
<1> QED
  BY <1>2, <1>3, <1>4, <1>5 DEF zip_add, f

-----------------------------------------------------------------------------
(* Types and loops *)

\* The loops over new_files stay within it.
LEMMA advance_Loop ==
  ASSUME TypeOK, pos \in 1..Len(new_files), NEW stage, NEW next,
         advance(stage, next)
  PROVE  /\ pos' \in 1..Len(new_files)
         /\ pc' = stage \/ (pc' = next /\ pos' = 1)
BY LenProperties DEF TypeOK, LoopType, advance

\* A round without files.
LEMMA NoFiles ==
  /\ <<>> \in Seq(Files)
  /\ IsInjective(<<>>)
  /\ \A f : ~Contains(<<>>, f)
BY DEF IsInjective, Contains

\* The end of the process leaves no loop under way.
LEMMA process_ends_Loop ==
  ASSUME TypeOK, LoopInv, process_ends
  PROVE  LoopType' /\ LoopInv'
BY NoFiles DEF TypeOK, LoopType, LoopInv, process_ends, Round, Open

\* Each program point belongs to the loop it stands in.
LEMMA LoopType_main ==
  ASSUME TypeOK, LoopInv, main
  PROVE  LoopType' /\ LoopInv'
<1> USE DEF TypeOK, LoopType, LoopInv, Round, Open
<1>1. CASE connect \/ list_end \/ wake
  BY <1>1 DEF connect, list_end, wake
<1>2. CASE list_open
  BY <1>2 DEF list_open, Contains
<1>3. CASE \E f \in Files : list_new_files(f)
  <2>1. PICK f \in Files : list_new_files(f)
    BY <1>3
  <2>2. new_files' \in Seq(Files) /\ Len(new_files') \in Nat
    BY <2>1 DEF list_new_files
  <2>3. IsInjective(new_files')
    BY <2>1, AppendProperties DEF list_new_files, IsInjective, Contains
  <2>4. \A g \in unread' : ~Contains(new_files', g)
    BY <2>1, AppendProperties DEF list_new_files, Contains
  <2> QED
    BY <2>1, <2>2, <2>3, <2>4 DEF list_new_files
<1>4. CASE download_files \/ zip_add \/ delete_local_file
  <2>1. /\ pos \in 1..Len(new_files)
        /\ UNCHANGED <<new_files, unread, last_run, slept_at>>
        /\ DOMAIN new_files = 1..Len(new_files) /\ unread = {}
    BY <1>4 DEF download_files, zip_add, delete_local_file
  <2>2. closing' \in BOOLEAN
    BY <1>4 DEF download_files, zip_add, delete_local_file
  <2>3. /\ pos' \in 1..Len(new_files)
        /\ \/ pc' \in {"download", "add", "delete"}
           \/ pc' \in {"zip_open", "close", "end"} /\ pos' = 1
    BY <1>4, <2>1, advance_Loop
    DEF download_files, zip_add, delete_local_file
  <2> QED
    BY <2>1, <2>2, <2>3
<1>5. CASE zip_open
  BY <1>5, process_ends_Loop DEF zip_open
<1>6. CASE zip_close \/ zip_close_writes
  BY <1>6 DEF zip_close, zip_close_writes, zip_created
<1>7. CASE upload_open \/ upload_file
  BY <1>7 DEF upload_open, upload_file
<1>8. CASE end_of_round
  BY <1>8, NoFiles DEF end_of_round
<1> QED
  BY <1>1, <1>2, <1>3, <1>4, <1>5, <1>6, <1>7, <1>8 DEF main

\* Time does not run backwards; a round ends, and a process starts, now.
LEMMA TimeType_Step ==
  ASSUME TypeOK, [Next]_vars
  PROVE  TimeType'
<1> USE DEF TypeOK, TimeType
<1>1. CASE UNCHANGED <<clock, remote1, last_run, slept_at>>
  BY <1>1
<1>2. CASE tick
  BY <1>2, OldAssumption DEF tick, OldAssumption
<1>3. CASE \E f \in Files : write_remote(f) \/ remove_remote(f)
  <2>1. /\ UNCHANGED <<clock, last_run, slept_at>>
        /\ remote1' \in [Files -> [ver : 0..MaxClock, mtime : 0..MaxClock]]
    BY <1>3, OldAssumption DEF write_remote, remove_remote, OldAssumption
  <2> QED
    BY <2>1
<1>4. CASE killed
  BY <1>1, <1>4 DEF killed, process_ends
<1>5. CASE started \/ end_of_round
  BY <1>5 DEF started, end_of_round
<1>6. CASE main /\ ~end_of_round
  <2>1. UNCHANGED <<clock, remote1, last_run, slept_at>>
    BY <1>6
    DEF main, connect, list_open, list_new_files, list_end, download_files,
        zip_open, process_ends, zip_add, zip_close, zip_close_writes,
        upload_open, upload_file, delete_local_file, wake
  <2> QED
    BY <2>1
<1> QED
  BY <1>1, <1>2, <1>3, <1>4, <1>5, <1>6 DEF Next, Environment

\* What zip_close writes for an entry of the zip_t.
LEMMA writtenType ==
  ASSUME NEW e \in OpenEntry
  PROVE  written(e) \in DiskEntry
BY DEF OpenEntry, DiskEntry, written

\* Archives, in memory and on both disks, are sequences of entries.
LEMMA ArchiveType_main ==
  ASSUME TypeOK, LoopInv, OpenInv, main
  PROVE  ArchiveType'
<1>0. /\ local \in [Files -> Data] /\ zip \in Seq(DiskEntry)
      /\ za \in Seq(OpenEntry) /\ tmp \in Seq(DiskEntry)
      /\ dest \in Seq(DiskEntry) /\ dest_whole \in BOOLEAN
      /\ uploaded \subseteq [name : Files, data : Data]
      /\ za # <<>> => pc \in Open
  BY DEF TypeOK, ArchiveType, Archives, DiskEntry, OpenEntry, Open
<1>A. SUFFICES /\ local' \in [Files -> Data] /\ zip' \in Seq(DiskEntry)
               /\ za' \in Seq(OpenEntry) /\ tmp' \in Seq(DiskEntry)
               /\ dest' \in Seq(DiskEntry) /\ dest_whole' \in BOOLEAN
               /\ uploaded' \subseteq [name : Files, data : Data]
               /\ za' # <<>> => pc' \in Open
  BY DEF ArchiveType, Archives, DiskEntry, OpenEntry, Open
<1>B. <<>> \in Seq(DiskEntry) /\ <<>> \in Seq(OpenEntry)
  BY EmptySeq
<1> USE DEF Open
<1>1. CASE \/ connect \/ list_open \/ (\E f \in Files : list_new_files(f))
           \/ list_end \/ end_of_round \/ wake
  BY <1>0, <1>1
  DEF connect, list_open, list_new_files, list_end, end_of_round, wake
<1>2. CASE download_files
  <2>1. new_files[pos] \in Files
    BY <1>2 DEF download_files, TypeOK, LoopType
  <2>2. \A whole \in BOOLEAN :
            [ver |-> remote1[new_files[pos]].ver, whole |-> whole] \in Data
    BY <2>1 DEF TypeOK, TimeType, Data
  <2>3. local' \in [Files -> Data]
    BY <1>0, <1>2, <2>1, <2>2
    DEF download_files, download_file, download_file_fails
  <2>4. UNCHANGED <<zip, za, tmp, dest, dest_whole, uploaded>> /\ za = <<>>
    BY <1>0, <1>2 DEF download_files
  <2> QED
    BY <1>0, <2>3, <2>4
<1>3. CASE zip_open
  BY <1>0, <1>3, read_cdir_Type DEF zip_open, process_ends
<1>4. CASE zip_add
  <2>1. za' \in Seq(OpenEntry)
    BY <1>4, zip_add_Effect DEF Grown
  <2>2. /\ UNCHANGED <<local, zip, tmp, dest, dest_whole, uploaded>>
        /\ pc' \in {"add", "close"}
    BY <1>4 DEF zip_add, advance
  <2> QED
    BY <1>0, <2>1, <2>2
<1>5. CASE zip_close
  <2>1. /\ UNCHANGED <<local, zip, dest, dest_whole, uploaded>>
        /\ tmp' \in {tmp, <<>>}
        /\ za' = <<>> \/ (za' = za /\ pc' = "write")
    BY <1>5 DEF zip_close, close_discards, close_begin_write, rollback_write
  <2> QED
    BY <1>0, <1>B, <2>1
<1>6. CASE zip_close_writes
  <2>1. CASE close_add_data
    <3>1. /\ Len(tmp) + 1 \in 1..Len(za)
          /\ tmp' = Append(tmp, written(za[Len(tmp) + 1]))
          /\ UNCHANGED <<zip, za>>
      BY <1>0, <2>1, LenProperties DEF close_add_data
    <3>2. written(za[Len(tmp) + 1]) \in DiskEntry
      BY <1>0, <3>1, ElementOfSeq, writtenType
    <3>3. tmp' \in Seq(DiskEntry)
      BY <1>0, <3>1, <3>2, AppendProperties
    <3> QED
      BY <1>0, <1>6, <3>1, <3>3
      DEF zip_close_writes, zip_created, rollback_write, commit_write
  <2>2. CASE rollback_write \/ commit_write
    <3>1. /\ UNCHANGED <<local, dest, dest_whole, uploaded>>
          /\ zip' \in {zip, tmp} /\ tmp' = <<>> /\ za' = <<>>
      BY <1>6, <2>2 DEF zip_close_writes, rollback_write, commit_write
    <3> QED
      BY <1>0, <1>B, <3>1
  <2> QED
    BY <1>6, <2>1, <2>2 DEF zip_close_writes
<1>7. CASE upload_open \/ upload_file
  <2>1. Content(zip) \subseteq [name : Files, data : Data]
    <3>1. \A i \in DOMAIN zip : zip[i] \in DiskEntry
      BY <1>0, LenProperties, ElementOfSeq
    <3>2. \A i \in DOMAIN zip :
              [name |-> zip[i].name, data |-> zip[i].data]
                  \in [name : Files, data : Data]
      BY <3>1 DEF DiskEntry
    <3> QED
      BY <3>2 DEF Content
  <2>2. /\ UNCHANGED <<local, zip, za, tmp>> /\ za = <<>>
        /\ dest' \in {dest, zip, <<>>}
        /\ uploaded' \in {uploaded, uploaded \cup Content(zip)}
    BY <1>0, <1>7 DEF upload_open, upload_file
  <2>3. dest_whole' \in BOOLEAN
    BY <1>0, <1>7 DEF upload_open, upload_file
  <2> QED
    BY <1>0, <1>B, <2>1, <2>2, <2>3
<1>8. CASE delete_local_file
  BY <1>0, <1>8, NoDataType DEF delete_local_file
<1> QED
  BY <1>1, <1>2, <1>3, <1>4, <1>5, <1>6, <1>7, <1>8 DEF main

\* A killed process leaves the disks as they are.
LEMMA process_ends_Archive ==
  ASSUME TypeOK, process_ends
  PROVE  ArchiveType'
<1>1. <<>> \in Archives
      /\ <<>> \in Seq([name : Files, orig : Data, encrypted : BOOLEAN,
                      source : Data, password : BOOLEAN])
  BY EmptySeq DEF Archives
<1> QED
  BY <1>1 DEF TypeOK, ArchiveType, process_ends

\* Every step keeps the types.
LEMMA TypeOK_Step ==
  ASSUME TypeOK, LoopInv, OpenInv, [Next]_vars
  PROVE  TypeOK' /\ LoopInv'
<1>1. TimeType'
  BY TimeType_Step
<1>2. CASE main
  BY <1>1, <1>2, LoopType_main, ArchiveType_main DEF TypeOK
<1>3. CASE killed
  BY <1>1, <1>3, process_ends_Loop, process_ends_Archive DEF killed, TypeOK
<1>4. CASE started
  <2>1. LoopType' /\ LoopInv'
    BY <1>4, NoFiles DEF started, TypeOK, LoopType, LoopInv, Round, Open
  <2>2. ArchiveType'
    BY <1>4 DEF started, TypeOK, ArchiveType
  <2> QED
    BY <1>1, <2>1, <2>2 DEF TypeOK
<1>5. CASE \/ tick \/ (\E f \in Files : write_remote(f) \/ remove_remote(f))
           \/ UNCHANGED vars
  <2>1. UNCHANGED <<pc, scanVars, pos, local, closing, destVars, libzipVars>>
    BY <1>5 DEF tick, write_remote, remove_remote
  <2>2. LoopType' /\ LoopInv'
    BY <2>1 DEF TypeOK, LoopType, LoopInv
  <2>3. ArchiveType'
    BY <2>1 DEF TypeOK, ArchiveType
  <2> QED
    BY <1>1, <2>2, <2>3 DEF TypeOK
<1> QED
  BY <1>2, <1>3, <1>4, <1>5 DEF Next, Environment

-----------------------------------------------------------------------------
(* The archive *)

\* The steps of libzip, and the others.
LEMMA LibZipSteps ==
  ASSUME TypeOK, [Next]_vars
  PROVE  \/ pc = "zip_open" /\ za' = read_cdir /\ pc' = "add"
            /\ UNCHANGED <<zip, tmp, failed>>
         \/ zip_add \/ zip_close \/ zip_close_writes
         \/ process_ends /\ failed \subseteq failed'
         \/ /\ UNCHANGED <<zip, za, tmp>> /\ failed \subseteq failed'
            /\ UNCHANGED pc \/ (pc \notin Open /\ pc' \notin Open)
<1> USE DEF Works, Fails, Open
<1>1. CASE zip_open
  BY <1>1 DEF zip_open
<1>2. CASE \/ connect \/ list_open \/ (\E f \in Files : list_new_files(f))
           \/ list_end \/ upload_open \/ upload_file \/ end_of_round \/ wake
  BY <1>2
  DEF connect, list_open, list_new_files, list_end, upload_open, upload_file,
      end_of_round, wake
<1>3. CASE download_files \/ delete_local_file
  BY <1>3
  DEF download_files, download_file, download_file_fails, delete_local_file,
      advance
<1>4. CASE Environment \/ UNCHANGED vars
  BY <1>4
  DEF Environment, tick, write_remote, remove_remote, killed, started
<1> QED
  BY <1>1, <1>2, <1>3, <1>4 DEF Next, main

\* A zip_t that has grown still starts with the entries of the archive.
LEMMA Grown_Open ==
  ASSUME TypeOK, OpenInv, pc = "add", NEW f, NEW data,
         Grown(za, za', f, data), UNCHANGED zip, pc' \in {"add", "close"}
  PROVE  OpenInv'
<1>1. Len(zip) \in Nat /\ Len(za) \in Nat
  BY LenProperties DEF TypeOK, ArchiveType, Archives
<1>2. Len(zip) <= Len(za) /\ Len(za') \in {Len(za), Len(za) + 1}
  BY DEF OpenInv, Open, Grown
<1>3. \A i \in 1..Len(zip) :
        /\ za'[i].name = zip[i].name /\ za'[i].orig = zip[i].data
        /\ za'[i].encrypted = zip[i].encrypted /\ za'[i].source = NoData
  BY <1>1, <1>2 DEF OpenInv, Open, Grown
<1>4. \A i \in Len(zip) + 1 .. Len(za') :
        za'[i].orig = NoData /\ za'[i].encrypted = FALSE
  <2> SUFFICES ASSUME NEW i \in Len(zip) + 1 .. Len(za')
               PROVE  za'[i].orig = NoData /\ za'[i].encrypted = FALSE
    OBVIOUS
  <2>1. CASE i <= Len(za)
    BY <1>1, <1>2, <2>1 DEF OpenInv, Open, Grown
  <2>2. CASE i = Len(za) + 1
    BY <1>1, <1>2, <2>2 DEF Grown
  <2>3. i <= Len(za) \/ i = Len(za) + 1
    BY <1>1, <1>2
  <2> QED
    BY <2>1, <2>2, <2>3
<1> QED
  BY <1>1, <1>2, <1>3, <1>4 DEF OpenInv, Open

\* Every step keeps the zip_t and the temporary file in line with the archive.
LEMMA OpenInv_Step ==
  ASSUME TypeOK, LoopInv, OpenInv, [Next]_vars
  PROVE  OpenInv'
<1>0. /\ zip \in Seq(DiskEntry) /\ za \in Seq(OpenEntry)
      /\ tmp \in Seq(DiskEntry)
      /\ Len(zip) \in Nat /\ Len(za) \in Nat /\ Len(tmp) \in Nat
  BY LenProperties
  DEF TypeOK, ArchiveType, Archives, DiskEntry, OpenEntry
<1>1. CASE pc = "zip_open" /\ za' = read_cdir /\ pc' = "add" /\ UNCHANGED zip
  <2>1. Len(za') = Len(zip') /\ Len(zip') \in Nat
    BY <1>0, <1>1, read_cdir_Type
  <2>2. \A i \in 1..Len(zip') :
          /\ za'[i].name = zip'[i].name /\ za'[i].orig = zip'[i].data
          /\ za'[i].encrypted = zip'[i].encrypted /\ za'[i].source = NoData
    BY <1>0, <1>1, read_cdir_Type
  <2>3. Len(zip') + 1 .. Len(za') = {}
    BY <2>1
  <2> QED
    BY <1>1, <2>1, <2>2, <2>3 DEF OpenInv
<1>2. CASE zip_add
  BY <1>2, zip_add_Effect, Grown_Open DEF zip_add, advance
<1>3. CASE zip_close
  <2>1. \/ pc' \notin Open
        \/ pc' = "write" /\ tmp' = <<>> /\ UNCHANGED <<zip, za>>
    BY <1>3
    DEF zip_close, close_begin_write, zip_created, Open
  <2> QED
    BY <1>0, <1>3, <2>1 DEF OpenInv, Open, zip_close
<1>4. CASE zip_close_writes
  <2>1. CASE close_add_data /\ UNCHANGED pc
    <3>1. /\ Len(tmp) + 1 \in 1..Len(za) /\ UNCHANGED <<zip, za>>
          /\ tmp' = Append(tmp, written(za[Len(tmp) + 1]))
          /\ add_data_possible(za[Len(tmp) + 1])
      BY <1>0, <2>1 DEF close_add_data
    <3>2. written(za[Len(tmp) + 1]) \in DiskEntry
      BY <1>0, <3>1, ElementOfSeq, writtenType
    <3>3. /\ Len(tmp') = Len(tmp) + 1
          /\ tmp'[Len(tmp) + 1] = written(za[Len(tmp) + 1])
          /\ \A i \in 1..Len(tmp) : tmp'[i] = tmp[i]
      BY <1>0, <3>1, <3>2, AppendProperties
    <3>4. \A i \in 1..Len(tmp') :
            tmp'[i] = written(za[i]) /\ add_data_possible(za[i])
      BY <1>0, <1>4, <3>1, <3>3 DEF OpenInv, zip_close_writes
    <3> QED
      BY <1>0, <1>4, <2>1, <3>1, <3>3, <3>4
      DEF OpenInv, Open, zip_close_writes, add_data_possible, written
  <2>2. CASE pc' \notin Open
    BY <2>2 DEF OpenInv, Open
  <2> QED
    BY <1>4, <2>1, <2>2 DEF zip_close_writes, zip_created, Open
<1>5. CASE process_ends
  BY <1>5 DEF process_ends, OpenInv, Open
<1>6. CASE /\ UNCHANGED <<zip, za, tmp>>
           /\ UNCHANGED pc \/ (pc \notin Open /\ pc' \notin Open)
  BY <1>6 DEF OpenInv, Open, written, add_data_possible
<1> QED
  BY <1>1, <1>2, <1>3, <1>4, <1>5, <1>6, LibZipSteps

\* Only the rename of zip_close changes the archive.
LEMMA ZipSteps ==
  ASSUME TypeOK, [Next]_vars
  PROVE  \/ UNCHANGED zip
         \/ /\ pc = "write" /\ commit_write /\ zip_close_writes
            /\ UNCHANGED failed
            /\ pc' = IF closing THEN "upload" ELSE "end"
<1>1. CASE zip_add \/ zip_close \/ process_ends
  BY <1>1
  DEF zip_add, zip_close, close_discards, close_begin_write, rollback_write,
      process_ends
<1>2. CASE zip_close_writes
  BY <1>2
  DEF zip_close_writes, close_add_data, rollback_write, zip_created, Works
<1> QED
  BY <1>1, <1>2, LibZipSteps

\* What the rename brings: every entry of the zip_t as zip_close writes it.
LEMMA CommittedEntries ==
  ASSUME TypeOK, OpenInv, pc = "write", commit_write
  PROVE  /\ zip' \in Seq(DiskEntry) /\ Len(zip') = Len(za)
         /\ \A i \in 1..Len(za) :
              /\ zip'[i] = written(za[i])
              /\ add_data_possible(za[i])
              /\ za[i] \in OpenEntry
<1>1. tmp \in Seq(DiskEntry) /\ za \in Seq(OpenEntry)
  BY DEF TypeOK, ArchiveType, Archives, DiskEntry, OpenEntry
<1> QED
  BY <1>1, ElementOfSeq DEF commit_write, OpenInv

\* The rename loses nothing.
LEMMA CommitGrows ==
  ASSUME TypeOK, OpenInv, pc = "write", commit_write
  PROVE  Content(zip) \subseteq Content(zip')
<1>1. /\ DOMAIN zip = 1..Len(zip) /\ DOMAIN zip' = 1..Len(za)
      /\ Len(zip) \in Nat /\ Len(za) \in Nat /\ Len(zip) <= Len(za)
  BY CommittedEntries, LenProperties
  DEF TypeOK, ArchiveType, Archives, OpenInv, Open
<1>2. ASSUME NEW i \in 1..Len(zip)
      PROVE  /\ i \in 1..Len(za)
             /\ zip'[i].name = zip[i].name /\ zip'[i].data = zip[i].data
  <2>1. i \in 1..Len(za)
    BY <1>1
  <2>2. /\ za[i].name = zip[i].name /\ za[i].orig = zip[i].data
        /\ za[i].source = NoData
    BY DEF OpenInv, Open
  <2>3. zip'[i] = written(za[i])
    BY <2>1, CommittedEntries
  <2> QED
    BY <2>1, <2>2, <2>3 DEF written
<1> QED
  BY <1>1, <1>2 DEF Content

\* Every step keeps the content of the archive.
LEMMA ContentGrows ==
  ASSUME TypeOK, OpenInv, [Next]_vars
  PROVE  Content(zip) \subseteq Content(zip')
<1>1. CASE UNCHANGED zip
  BY <1>1 DEF Content
<1> QED
  BY <1>1, ZipSteps, CommitGrows

\* An upload sends the archive as it is; later the archive only grows.
LEMMA LostCopy_Step ==
  ASSUME TypeOK, OpenInv, LostCopyIsRecoverable, [Next]_vars
  PROVE  LostCopyIsRecoverable'
<1>1. Content(zip) \subseteq Content(zip')
  BY ContentGrows
<1>2. CASE UNCHANGED <<dest, dest_whole, uploaded>>
  <2>1. Content(dest') = Content(dest)
    BY <1>2 DEF Content
  <2> QED
    BY <1>1, <1>2, <2>1 DEF LostCopyIsRecoverable
<1>3. CASE upload_open
  <2>1. uploaded' = uploaded /\ zip' = zip
        /\ (~dest_whole' \/ (dest' = dest /\ dest_whole' = dest_whole))
    BY <1>3 DEF upload_open
  <2>2. dest' = dest => Content(dest') = Content(dest)
    BY DEF Content
  <2> QED
    BY <1>1, <2>1, <2>2 DEF LostCopyIsRecoverable
<1>4. CASE upload_file /\ dest' = zip
  <2>1. uploaded' \subseteq uploaded \cup Content(zip) /\ zip' = zip
    BY <1>4 DEF upload_file
  <2>2. Content(dest') = Content(zip)
    BY <1>4 DEF Content
  <2> QED
    BY <1>1, <2>1, <2>2 DEF LostCopyIsRecoverable
<1>5. CASE main /\ ~upload_open /\ ~(upload_file /\ dest' = zip)
  <2>1. UNCHANGED <<dest, dest_whole, uploaded>>
    BY <1>5
    DEF main, connect, list_open, list_new_files, list_end, download_files,
        zip_open, process_ends, zip_add, zip_close, zip_close_writes,
        upload_file, delete_local_file, end_of_round, wake
  <2> QED
    BY <1>2, <2>1
<1>6. CASE Environment \/ UNCHANGED vars
  BY <1>2, <1>6
  DEF Environment, tick, write_remote, remove_remote, killed, started,
      process_ends
<1> QED
  BY <1>3, <1>4, <1>5, <1>6 DEF Next

-----------------------------------------------------------------------------
(* Encryption *)

\* A new entry gets its password in the same iteration.
LEMMA PasswordInv_Step ==
  ASSUME TypeOK, LoopInv, OpenInv, PasswordInv, EncryptedUnlessFault,
         [Next]_vars
  PROVE  PasswordInv'
<1>0. /\ zip \in Seq(DiskEntry) /\ za \in Seq(OpenEntry)
      /\ Len(zip) \in Nat /\ Len(za) \in Nat /\ DOMAIN zip = 1..Len(zip)
  BY LenProperties
  DEF TypeOK, ArchiveType, Archives, DiskEntry, OpenEntry
<1>1. CASE za' = <<>>
  BY <1>1 DEF PasswordInv
<1>2. CASE za' = read_cdir /\ UNCHANGED failed
  <2> SUFFICES ASSUME "set_encryption" \notin failed, NEW i \in 1..Len(za')
               PROVE  za'[i].encrypted
    BY <1>2 DEF PasswordInv
  <2>1. i \in DOMAIN zip /\ za'[i].encrypted = zip[i].encrypted
    BY <1>0, <1>2, read_cdir_Type
  <2> QED
    BY <2>1, Zenon DEF EncryptedUnlessFault
<1>3. CASE zip_add
  <2>1. failed \subseteq failed'
    BY <1>3 DEF zip_add, Works, Fails
  <2> SUFFICES ASSUME "set_encryption" \notin failed',
                      NEW i \in 1..Len(za')
               PROVE  za'[i].password \/ za'[i].encrypted
    BY DEF PasswordInv
  <2>2. Grown(za, za', new_files[pos], local[new_files[pos]])
    BY <1>3, zip_add_Effect
  <2>3. CASE i \in 1..Len(za)
    BY <2>1, <2>2, <2>3 DEF Grown, PasswordInv
  <2>4. CASE i = Len(za') /\ Len(za') = Len(za) + 1
    BY <1>3, <2>4, zip_add_Effect
  <2>5. i \in 1..Len(za) \/ (i = Len(za') /\ Len(za') = Len(za) + 1)
    BY <1>0, <2>2 DEF Grown
  <2> QED
    BY <2>3, <2>4, <2>5
<1>4. CASE UNCHANGED za /\ failed \subseteq failed'
  BY <1>4 DEF PasswordInv
<1>5. CASE zip_close \/ zip_close_writes
  BY <1>1, <1>4, <1>5
  DEF zip_close, zip_close_writes, close_discards, close_begin_write,
      close_add_data, rollback_write, commit_write, Works, Fails
<1> QED
  BY <1>1, <1>2, <1>3, <1>4, <1>5, LibZipSteps DEF process_ends

\* What is renamed is encrypted, and what is sent is what is here.
LEMMA Encrypted_Step ==
  ASSUME TypeOK, OpenInv, PasswordInv, EncryptedUnlessFault, [Next]_vars
  PROVE  EncryptedUnlessFault'
<1>1. failed \subseteq failed'
  BY LibZipSteps DEF zip_add, zip_close, zip_close_writes, Works, Fails
<1>2. SUFFICES ASSUME "set_encryption" \notin failed'
               PROVE  /\ \A i \in DOMAIN zip' : zip'[i].encrypted
                      /\ \A i \in DOMAIN dest' : dest'[i].encrypted
  BY DEF EncryptedUnlessFault
<1>3. /\ \A i \in DOMAIN zip : zip[i].encrypted
      /\ \A i \in DOMAIN dest : dest[i].encrypted
      /\ \A i \in 1..Len(za) : za[i].password \/ za[i].encrypted
  BY <1>1, <1>2 DEF EncryptedUnlessFault, PasswordInv
<1>4. \A i \in DOMAIN zip' : zip'[i].encrypted
  <2>1. CASE UNCHANGED zip
    BY <1>3, <2>1
  <2>2. CASE pc = "write" /\ commit_write
    <3>1. DOMAIN zip' = 1..Len(za)
      BY <2>2, CommittedEntries, LenProperties
    <3>2. ASSUME NEW i \in 1..Len(za)
          PROVE  zip'[i].encrypted
      <4>1. zip'[i] = written(za[i]) /\ add_data_possible(za[i])
        BY <2>2, CommittedEntries
      <4>2. za[i].password \/ (za[i].encrypted /\ za[i].source = NoData)
        BY <1>3, <2>2, LenProperties
        DEF OpenInv, Open, TypeOK, ArchiveType, Archives
      <4>3. zip'[i].encrypted
              = (za[i].password \/ (za[i].source = NoData /\ za[i].encrypted))
        BY <4>1 DEF written
      <4> QED
        BY <4>2, <4>3, Zenon
    <3> QED
      BY <3>1, <3>2
  <2> QED
    BY <2>1, <2>2, ZipSteps
<1>5. dest' \in {dest, zip, <<>>}
  <2>1. CASE main
    BY <2>1
    DEF main, connect, list_open, list_new_files, list_end, download_files,
        zip_open, process_ends, zip_add, zip_close, zip_close_writes,
        upload_open, upload_file, delete_local_file, end_of_round, wake
  <2>2. CASE Environment \/ UNCHANGED vars
    BY <2>2
    DEF Environment, tick, write_remote, remove_remote, killed, started,
        process_ends
  <2> QED
    BY <2>1, <2>2 DEF Next
<1> QED
  BY <1>3, <1>4, <1>5
-----------------------------------------------------------------------------
(* Versions *)

\* Local copies change in two places.
LEMMA LocalSteps ==
  ASSUME TypeOK, LoopInv, [Next]_vars
  PROVE  \/ UNCHANGED local
         \/ /\ pc = "download" /\ download_files
            /\ new_files[pos] \in Files
            /\ remote1[new_files[pos]].ver > 0
            /\ \E whole \in BOOLEAN :
                local' = [local EXCEPT ![new_files[pos]] =
                             [ver |-> remote1[new_files[pos]].ver,
                              whole |-> whole]]
         \/ /\ pc = "delete" /\ delete_local_file
            /\ new_files[pos] \in Files
            /\ local' = [local EXCEPT ![new_files[pos]] = NoData]
<1>1. CASE download_files \/ delete_local_file
  <2>1. new_files[pos] \in Files
    BY <1>1
    DEF TypeOK, LoopType, download_files, delete_local_file
  <2> QED
    BY <1>1, <2>1
    DEF download_files, download_file, download_file_fails, delete_local_file
<1>2. CASE main /\ ~download_files /\ ~delete_local_file
  BY <1>2
  DEF main, connect, list_open, list_new_files, list_end, zip_open,
      process_ends, zip_add, zip_close, zip_close_writes, upload_open,
      upload_file, end_of_round, wake
<1>3. CASE Environment \/ UNCHANGED vars
  BY <1>3
  DEF Environment, tick, write_remote, remove_remote, killed, started,
      process_ends
<1> QED
  BY <1>1, <1>2, <1>3 DEF Next

\* The directory changes by a write, which carries the time, or by a removal.
LEMMA RemoteSteps ==
  ASSUME TypeOK, PastInv, [Next]_vars
  PROVE  /\ clock \in Nat /\ clock' \in Nat /\ clock' >= clock
         /\ \A f \in Files :
              /\ remote1[f].mtime \in Nat /\ remote1'[f].mtime \in Nat
              /\ remote1'[f].mtime >= remote1[f].mtime
              /\ remote1'[f].mtime <= clock'
              /\ remote1'[f].ver \in {0, remote1'[f].mtime}
         /\ \/ UNCHANGED remote1
            \/ UNCHANGED <<clock, pc, scanVars, pos, local, libzipVars>>
<1>0. /\ clock \in Nat
      /\ remote1 \in [Files -> [ver : 0..MaxClock, mtime : 0..MaxClock]]
      /\ \A f \in Files : remote1[f].mtime \in Nat
  BY OldAssumption DEF OldAssumption, TypeOK, TimeType
<1>1. CASE UNCHANGED remote1 /\ clock' \in {clock, clock + 1}
  BY <1>0, <1>1 DEF PastInv
<1>2. CASE main
  <2>1. UNCHANGED <<remote1, clock>>
    BY <1>2
    DEF main, connect, list_open, list_new_files, list_end, zip_open,
        download_files, process_ends, zip_add, zip_close, zip_close_writes,
        upload_open, upload_file, delete_local_file, end_of_round, wake
  <2> QED
    BY <1>1, <2>1
<1>3. CASE tick \/ killed \/ started \/ UNCHANGED vars
  BY <1>1, <1>3 DEF tick, killed, started, process_ends
<1>4. ASSUME NEW f \in Files, write_remote(f) \/ remove_remote(f)
      PROVE  /\ remote1'[f].mtime \in {clock, remote1[f].mtime}
             /\ remote1'[f].ver \in {0, remote1'[f].mtime}
             /\ \A g \in Files \ {f} : remote1'[g] = remote1[g]
             /\ UNCHANGED <<clock, pc, scanVars, pos, local, libzipVars>>
  <2>1. CASE write_remote(f)
    BY <1>0, <2>1 DEF write_remote
  <2>2. CASE remove_remote(f)
    BY <1>0, <2>2 DEF remove_remote
  <2> QED
    BY <1>4, <2>1, <2>2
<1>5. CASE \E f \in Files : write_remote(f) \/ remove_remote(f)
  <2>1. PICK f \in Files : write_remote(f) \/ remove_remote(f)
    BY <1>5
  <2>2. \A g \in Files : \/ remote1'[g] = remote1[g]
                         \/ /\ remote1'[g].mtime \in {clock, remote1[g].mtime}
                            /\ remote1'[g].ver \in {0, remote1'[g].mtime}
    BY <2>1, <1>4
  <2>3. UNCHANGED <<clock, pc, scanVars, pos, local, libzipVars>>
    BY <2>1, <1>4
  <2> QED
    BY <1>0, <2>2, <2>3 DEF PastInv
<1> QED
  BY <1>2, <1>3, <1>5 DEF Next, Environment

\* Nothing is archived that has not been written yet.
LEMMA PastInv_Step ==
  ASSUME TypeOK, LoopInv, OpenInv, PastInv, [Next]_vars
  PROVE  PastInv'
<1>0. /\ zip \in Seq(DiskEntry) /\ za \in Seq(OpenEntry)
      /\ Len(zip) \in Nat /\ Len(za) \in Nat
      /\ local \in [Files -> Data] /\ \A f \in Files : local[f].ver \in Nat
      /\ \A i \in 1..Len(zip) : zip[i].data.ver \in Nat
      /\ \A i \in 1..Len(za) : za[i].source.ver \in Nat
  <2>1. /\ zip \in Seq(DiskEntry) /\ za \in Seq(OpenEntry)
        /\ Len(zip) \in Nat /\ Len(za) \in Nat /\ local \in [Files -> Data]
    BY LenProperties DEF TypeOK, ArchiveType, Archives, DiskEntry, OpenEntry
  <2>2. \A d \in Data : d.ver \in Nat
    BY OldAssumption DEF OldAssumption, Data
  <2>3. /\ \A i \in 1..Len(zip) : zip[i].data \in Data
        /\ \A i \in 1..Len(za) : za[i].source \in Data
    <3>1. /\ \A i \in 1..Len(zip) : zip[i] \in DiskEntry
          /\ \A i \in 1..Len(za) : za[i] \in OpenEntry
      BY <2>1, ElementOfSeq
    <3> QED
      BY <3>1 DEF DiskEntry, OpenEntry
  <2> QED
    BY <2>1, <2>2, <2>3
<1>1. /\ clock \in Nat /\ clock' \in Nat /\ clock' >= clock
      /\ \A f \in Files : /\ remote1'[f].mtime <= clock'
                          /\ remote1'[f].ver \in {0, remote1'[f].mtime}
  BY RemoteSteps
<1>2. \A f \in Files : local'[f].ver <= clock'
  <2>1. \A f \in Files : /\ remote1[f].ver <= clock /\ remote1[f].ver \in Nat
                         /\ local[f].ver <= clock
    BY <1>1, RemoteSteps DEF PastInv
  <2>2. NoData.ver = 0
    BY DEF NoData
  <2>3. CASE UNCHANGED local
    BY <1>0, <1>1, <2>1, <2>3
  <2>4. ASSUME NEW g \in Files, NEW d,
               local' = [local EXCEPT ![g] = d],
               d.ver \in Nat, d.ver <= clock
        PROVE  \A f \in Files : local'[f].ver <= clock'
    BY <1>0, <1>1, <2>1, <2>4
  <2>5. CASE /\ new_files[pos] \in Files
             /\ local' = [local EXCEPT ![new_files[pos]] = NoData]
    <3>1. NoData.ver \in Nat /\ NoData.ver <= clock
      BY <1>1, <2>2
    <3> QED
      BY <2>4, <2>5, <3>1
  <2>6. CASE /\ new_files[pos] \in Files
             /\ \E whole \in BOOLEAN :
                 local' = [local EXCEPT ![new_files[pos]] =
                             [ver |-> remote1[new_files[pos]].ver,
                              whole |-> whole]]
    <3>1. PICK whole \in BOOLEAN :
              local' = [local EXCEPT ![new_files[pos]] =
                          [ver |-> remote1[new_files[pos]].ver,
                           whole |-> whole]]
      BY <2>6
    <3> DEFINE d == [ver |-> remote1[new_files[pos]].ver, whole |-> whole]
    <3>2. d.ver \in Nat /\ d.ver <= clock
      BY <2>1, <2>6
    <3>3. local' = [local EXCEPT ![new_files[pos]] = d]
      BY <3>1
    <3> HIDE DEF d
    <3> QED
      BY <2>4, <2>6, <3>2, <3>3
  <2> QED
    BY <2>3, <2>5, <2>6, LocalSteps
<1>3. \A i \in 1..Len(zip') : zip'[i].data.ver <= clock'
  <2>1. CASE UNCHANGED zip
    BY <1>0, <1>1, <2>1 DEF PastInv
  <2>2. CASE pc = "write" /\ commit_write
    <3> SUFFICES ASSUME NEW i \in 1..Len(za)
                 PROVE  zip'[i].data.ver <= clock'
      BY <2>2, CommittedEntries
    <3>1. zip'[i].data \in {za[i].source, za[i].orig}
      <4>1. zip'[i] = written(za[i])
        BY <2>2, CommittedEntries
      <4> QED
        BY <4>1 DEF written
    <3>2. za[i].source.ver <= clock'
      BY <1>0, <1>1 DEF PastInv
    <3>3. za[i].orig.ver <= clock'
      <4>1. CASE i \in 1..Len(zip)
        BY <1>0, <1>1, <2>2, <4>1 DEF PastInv, OpenInv, Open
      <4>2. CASE i \in Len(zip) + 1 .. Len(za)
        BY <1>1, <2>2, <4>2 DEF OpenInv, Open, NoData
      <4>3. i \in 1..Len(zip) \/ i \in Len(zip) + 1 .. Len(za)
        BY <1>0
      <4> QED
        BY <4>1, <4>2, <4>3
    <3> QED
      BY <3>1, <3>2, <3>3
  <2> QED
    BY <2>1, <2>2, ZipSteps
<1>4. \A i \in 1..Len(za') : za'[i].source.ver <= clock'
  <2>1. CASE za' = <<>>
    BY <2>1
  <2>2. CASE za' = read_cdir
    BY <1>0, <1>1, <2>2, read_cdir_Type DEF NoData
  <2>3. CASE UNCHANGED za
    BY <1>0, <1>1, <2>3 DEF PastInv
  <2>4. CASE zip_add
    <3>1. /\ Grown(za, za', new_files[pos], local[new_files[pos]])
          /\ new_files[pos] \in Files
      BY <2>4, zip_add_Effect
    <3>2. local[new_files[pos]].ver <= clock'
      BY <1>0, <1>1, <3>1 DEF PastInv
    <3> SUFFICES ASSUME NEW i \in 1..Len(za')
                 PROVE  za'[i].source.ver <= clock'
      OBVIOUS
    <3>3. CASE i \in 1..Len(za)
      BY <1>0, <1>1, <3>1, <3>3 DEF Grown, PastInv
    <3>4. CASE i = Len(za') /\ Len(za') = Len(za) + 1
      BY <3>1, <3>2, <3>4 DEF Grown
    <3>5. i \in 1..Len(za) \/ (i = Len(za') /\ Len(za') = Len(za) + 1)
      BY <1>0, <3>1 DEF Grown
    <3> QED
      BY <3>3, <3>4, <3>5
  <2>5. CASE zip_close \/ zip_close_writes
    BY <2>1, <2>3, <2>5
    DEF zip_close, zip_close_writes, close_discards, close_begin_write,
        close_add_data, rollback_write, commit_write
  <2> QED
    BY <2>1, <2>2, <2>3, <2>4, <2>5, LibZipSteps DEF process_ends
<1> QED
  BY <1>1, <1>2, <1>3, <1>4 DEF PastInv

\* The steps between two program points of a round, as far as versions matter.
LEMMA RoundUntouched ==
  ASSUME RoundInv,
         UNCHANGED <<zip, last_run, new_files, local, remote1>>,
         \/ UNCHANGED <<pc, pos>>
         \/ pc' \in {"upload", "copy", "delete", "end", "exit", "dead"}
         \/ pc \in {"connect", "sleep"} /\ pc' = "scan"
         \/ pc \in {"zip_open", "add", "close"} /\ pc' \in Open
  PROVE  RoundInv'
BY DEF RoundInv, Open

\* The scan takes what is later than last_run, the download takes what is
\* there by then, and the commit comes last.
LEMMA RoundInv_main ==
  ASSUME TypeOK, LoopInv, OpenInv, PastInv, RoundInv, main
  PROVE  RoundInv'
<1>0. /\ new_files \in Seq(Files) /\ Len(new_files) \in Nat
      /\ \A k \in 1..Len(new_files) : new_files[k] \in Files
      /\ last_run \in Nat /\ clock \in Nat /\ pos \in Nat
      /\ \A f \in Files : remote1[f].mtime \in Nat
      /\ local \in [Files -> Data]
  BY OldAssumption, LenProperties, ElementOfSeq
  DEF OldAssumption, TypeOK, TimeType, LoopType, ArchiveType
<1>1. CASE connect \/ wake
  BY <1>1, RoundUntouched DEF connect, wake
<1>2. CASE list_open
  BY <1>2
  DEF list_open, RoundInv, LoopInv, Round, Open
<1>3. CASE \E f \in Files : list_new_files(f)
  <2>1. PICK f \in Files : list_new_files(f)
    BY <1>3
  <2>2. /\ pc = "list" /\ pc' = "list"
        /\ UNCHANGED <<zip, last_run, local, remote1>>
    BY <2>1 DEF list_new_files
  <2>3. \A k \in 1..Len(new_files') : remote1[new_files'[k]].mtime > last_run
    BY <1>0, <2>1, <2>2, AppendProperties DEF list_new_files, RoundInv
  <2> QED
    BY <2>2, <2>3 DEF RoundInv, Open
<1>4. CASE list_end
  BY <1>0, <1>4 DEF list_end, RoundInv, LoopInv, Open
<1>5. CASE download_files
  <2>1. /\ UNCHANGED <<zip, last_run, new_files, remote1>>
        /\ pc = "download" /\ pos \in 1..Len(new_files)
        /\ new_files[pos] \in Files
    BY <1>0, <1>5 DEF download_files, LoopInv, Round
  <2>2. CASE pc' = "end"
    BY <2>2 DEF RoundInv, Open
  <2>3. CASE download_file(new_files[pos]) /\ advance("download", "zip_open")
    <3>1. PICK whole \in BOOLEAN :
              local' = [local EXCEPT ![new_files[pos]] =
                          [ver |-> remote1[new_files[pos]].ver, whole |-> whole]]
      BY <2>3 DEF download_file
    <3>2. remote1[new_files[pos]].ver = remote1[new_files[pos]].mtime
      BY <2>1, <2>3 DEF download_file, PastInv
    <3>3. local'[new_files[pos]].ver > last_run
      BY <1>0, <2>1, <3>1, <3>2 DEF RoundInv
    <3>4. \A k \in 1..pos : local'[new_files[k]].ver > last_run
      BY <1>0, <2>1, <3>1, <3>3 DEF RoundInv
    <3>5. CASE pos < Len(new_files)
      BY <1>0, <2>1, <2>3, <3>4, <3>5 DEF advance, RoundInv, Open
    <3>6. CASE ~(pos < Len(new_files))
      <4>1. pc' = "zip_open" /\ pos = Len(new_files)
        BY <1>0, <2>1, <2>3, <3>6 DEF advance
      <4> QED
        BY <2>1, <3>4, <4>1 DEF RoundInv, Open
    <3> QED
      BY <3>5, <3>6
  <2> QED
    BY <1>5, <2>2, <2>3 DEF download_files
<1>6. CASE zip_open
  BY <1>6, RoundUntouched DEF zip_open, process_ends, RoundInv, Open
<1>7. CASE zip_add
  BY <1>7, RoundUntouched DEF zip_add, advance, Open
<1>8. CASE zip_close
  BY <1>8, RoundUntouched
  DEF zip_close, close_discards, close_begin_write, rollback_write,
      zip_created, Open
<1>9. CASE zip_close_writes
  <2>1. pc' \in {"upload", "end"} \/ (UNCHANGED <<zip, pc>>)
    BY <1>9 DEF zip_close_writes, zip_created, close_add_data
  <2>2. CASE pc' \in {"upload", "end"}
    BY <2>2 DEF RoundInv, Open
  <2>3. CASE UNCHANGED <<zip, pc>>
    BY <1>9, <2>3, RoundUntouched DEF zip_close_writes
  <2> QED
    BY <2>1, <2>2, <2>3
<1>10. CASE upload_open \/ upload_file \/ delete_local_file
  <2>1. pc' \in {"copy", "delete", "end"}
    BY <1>10 DEF upload_open, upload_file, delete_local_file, advance
  <2> QED
    BY <2>1 DEF RoundInv, Open
<1>11. CASE end_of_round
  BY <1>11 DEF end_of_round, RoundInv, PastInv, Open
<1> QED
  BY <1>1, <1>2, <1>3, <1>4, <1>5, <1>6, <1>7, <1>8, <1>9, <1>10, <1>11
  DEF main

\* Later writes only make the listed files newer.
LEMMA RoundInv_Step ==
  ASSUME TypeOK, LoopInv, OpenInv, PastInv, RoundInv, [Next]_vars
  PROVE  RoundInv'
<1>1. CASE main
  BY <1>1, RoundInv_main
<1>2. CASE tick \/ UNCHANGED vars
  BY <1>2, RoundUntouched DEF tick
<1>3. CASE killed
  BY <1>3 DEF killed, process_ends, RoundInv, Open
<1>4. CASE started
  BY <1>4 DEF started, RoundInv, PastInv, Open
<1>5. CASE \E f \in Files : write_remote(f) \/ remove_remote(f)
  <2>1. UNCHANGED <<zip, last_run, new_files, local, pc, pos>>
    BY <1>5 DEF write_remote, remove_remote
  <2>2. \A f \in Files : /\ remote1[f].mtime \in Nat /\ remote1'[f].mtime \in Nat
                        /\ remote1'[f].mtime >= remote1[f].mtime
    BY RemoteSteps
  <2>3. /\ \A k \in 1..Len(new_files) : new_files[k] \in Files
        /\ last_run \in Nat
    BY OldAssumption, ElementOfSeq
    DEF OldAssumption, TypeOK, TimeType, LoopType
  <2>4. pc \in {"list", "download"} => \A k \in 1..Len(new_files) :
            remote1'[new_files[k]].mtime > last_run
    BY <2>2, <2>3 DEF RoundInv
  <2> QED
    BY <2>1, <2>4 DEF RoundInv
<1> QED
  BY <1>1, <1>2, <1>3, <1>4, <1>5 DEF Next, Environment

-----------------------------------------------------------------------------
(* From the loop that adds the files to the one that deletes them *)

\* Taken, of any zip_t and any data.
TakenIn(entries, data, f) ==
    \E i \in 1..Len(entries) :
        /\ entries[i].name = f
        /\ entries[i].password
        /\ \/ entries[i].orig = NoData /\ entries[i].source = data
           \/ entries[i].source = NoData /\ entries[i].encrypted

\* The kinds of fault that create_zip_from_files does not look at.
Unnoticed == {"zip_file_add", "set_encryption"}

\* A file that is taken stays so when others are added.
LEMMA TakenIn_Grows ==
  ASSUME NEW s \in Seq(OpenEntry), NEW t, NEW f, NEW data, Grown(s, t, f, data),
         NEW g, NEW d, TakenIn(s, d, g)
  PROVE  TakenIn(t, d, g)
<1>1. Len(s) \in Nat /\ Len(t) \in Nat /\ Len(s) <= Len(t)
  BY LenProperties DEF Grown
<1>2. PICK i \in 1..Len(s) :
        /\ s[i].name = g /\ s[i].password
        /\ \/ s[i].orig = NoData /\ s[i].source = d
           \/ s[i].source = NoData /\ s[i].encrypted
  BY DEF TakenIn
<1>3. i \in 1..Len(t)
  BY <1>1
<1>4. /\ t[i].name = s[i].name /\ t[i].orig = s[i].orig
      /\ t[i].encrypted = s[i].encrypted /\ t[i].source = s[i].source
      /\ s[i].password => t[i].password
  BY DEF Grown
<1> QED
  BY <1>2, <1>3, <1>4, Zenon DEF TakenIn

\* The entries that are new in the zip_t are those of the files added so far.
LEMMA zip_add_Names ==
  ASSUME TypeOK, LoopInv, OpenInv, AddedInv, zip_add
  PROVE  \A i \in Len(zip) + 1 .. Len(za') :
           \E k \in 1..pos : za'[i].name = new_files[k]
<1>1. Len(zip) \in Nat /\ Len(za) \in Nat /\ Len(zip) <= Len(za)
  BY LenProperties
  DEF TypeOK, ArchiveType, Archives, OpenInv, Open, zip_add
<1>2. pos \in 1..Len(new_files) /\ pos \in Nat
  BY DEF zip_add, LoopInv, Round, Open, TypeOK, LoopType
<1>3. Grown(za, za', new_files[pos], local[new_files[pos]])
  BY zip_add_Effect
<1> SUFFICES ASSUME NEW i \in Len(zip) + 1 .. Len(za')
             PROVE  \E k \in 1..pos : za'[i].name = new_files[k]
  OBVIOUS
<1>4. CASE i \in Len(zip) + 1 .. Len(za)
  <2>1. PICK k \in 1..pos - 1 : za[i].name = new_files[k]
    BY <1>4 DEF AddedInv, zip_add
  <2>2. za'[i].name = za[i].name
    BY <1>1, <1>3, <1>4 DEF Grown
  <2> QED
    BY <1>2, <2>1, <2>2
<1>5. CASE i = Len(za') /\ Len(za') = Len(za) + 1
  BY <1>2, <1>3, <1>5 DEF Grown
<1>6. \/ i \in Len(zip) + 1 .. Len(za)
      \/ i = Len(za') /\ Len(za') = Len(za) + 1
  BY <1>1, <1>3 DEF Grown
<1> QED
  BY <1>4, <1>5, <1>6

\* The file of this iteration is taken, when no call failed: its entry is new,
\* or one of the archive, which is encrypted.
LEMMA zip_add_Taken ==
  ASSUME TypeOK, LoopInv, OpenInv, EncryptedUnlessFault, AddedInv, zip_add,
         failed' \cap Unnoticed = {}, closing'
  PROVE  TakenIn(za', local[new_files[pos]], new_files[pos])
<1> DEFINE f == new_files[pos]
<1>1. /\ Len(zip) \in Nat /\ Len(za) \in Nat /\ Len(zip) <= Len(za)
      /\ DOMAIN zip = 1..Len(zip)
  BY LenProperties
  DEF TypeOK, ArchiveType, Archives, OpenInv, Open, zip_add
<1>2. /\ pos \in 1..Len(new_files) /\ pos \in Nat
      /\ new_files \in Seq(Files) /\ IsInjective(new_files)
  BY DEF zip_add, LoopInv, Round, Open, TypeOK, LoopType
<1>3. Grown(za, za', f, local[f])
  BY zip_add_Effect
<1>4. PICK i \in 1..Len(za') : za'[i].name = f /\ za'[i].password
  BY zip_add_Effect DEF Unnoticed
<1>5. CASE i \in 1..Len(zip)
  <2>1. failed \subseteq failed'
    BY DEF zip_add, Works, Fails
  <2>2. \A j \in 1..Len(zip) : zip[j].encrypted
    BY <1>1, <2>1 DEF EncryptedUnlessFault, Unnoticed
  <2>3. za[i].source = NoData /\ za[i].encrypted = zip[i].encrypted
    BY <1>5 DEF OpenInv, Open, zip_add
  <2>4. za'[i].source = za[i].source /\ za'[i].encrypted = za[i].encrypted
    BY <1>1, <1>3, <1>5 DEF Grown
  <2>5. za'[i].source = NoData
    BY <2>3, <2>4
  <2>6. za'[i].encrypted
    BY <1>5, <2>2, <2>3, <2>4, Zenon
  <2> QED
    BY <1>4, <2>5, <2>6, Zenon DEF TakenIn
<1>6. CASE i \in Len(zip) + 1 .. Len(za)
  <2>1. PICK k \in 1..pos - 1 : za[i].name = new_files[k]
    BY <1>6 DEF AddedInv, zip_add
  <2>2. za'[i].name = za[i].name
    BY <1>1, <1>3, <1>6 DEF Grown
  <2>3. /\ DOMAIN new_files = 1..Len(new_files) /\ k \in DOMAIN new_files
        /\ pos \in DOMAIN new_files /\ k # pos
    BY <1>2, LenProperties
  <2>4. new_files[k] = new_files[pos]
    BY <1>4, <2>1, <2>2
  <2> QED
    BY <1>2, <2>3, <2>4 DEF IsInjective
<1>7. CASE i = Len(za') /\ Len(za') = Len(za) + 1
  <2>1. za'[i].orig = NoData /\ za'[i].source = local[f]
    BY <1>3, <1>7 DEF Grown
  <2> QED
    BY <1>4, <2>1, Zenon DEF TakenIn
<1>8. \/ i \in 1..Len(zip) \/ i \in Len(zip) + 1 .. Len(za)
      \/ i = Len(za') /\ Len(za') = Len(za) + 1
  BY <1>1, <1>3 DEF Grown
<1> QED
  BY <1>5, <1>6, <1>7, <1>8

\* When zip_close succeeds, the archive has what was taken: an encrypted entry
\* of that name would have made it fail.
LEMMA CommitTaken ==
  ASSUME TypeOK, OpenInv, pc = "write", commit_write, NEW f, NEW d,
         TakenIn(za, d, f)
  PROVE  [name |-> f, data |-> d] \in Content(zip')
<1>1. PICK i \in 1..Len(za) :
        /\ za[i].name = f /\ za[i].password
        /\ \/ za[i].orig = NoData /\ za[i].source = d
           \/ za[i].source = NoData /\ za[i].encrypted
  BY DEF TakenIn
<1>2. /\ zip'[i] = written(za[i]) /\ add_data_possible(za[i])
      /\ i \in DOMAIN zip'
  BY CommittedEntries, LenProperties
<1>3. za[i].orig = NoData /\ za[i].source = d
  BY <1>1, <1>2, Zenon DEF add_data_possible
<1>4. zip'[i].name = f /\ zip'[i].data = d
  BY <1>1, <1>2, <1>3 DEF written
<1> QED
  BY <1>2, <1>4 DEF Content

\* Nothing to show outside of those stages.
LEMMA AddedInv_Outside ==
  ASSUME pc' \notin Open \cup {"upload", "copy", "delete"}
  PROVE  AddedInv'
BY DEF AddedInv, Open

\* The steps that touch neither the files nor the archives.
LEMMA AddedInv_Untouched ==
  ASSUME AddedInv, UNCHANGED <<pc, pos, closing, new_files, local, zip, za>>,
         failed \subseteq failed'
  PROVE  AddedInv'
<1>1. Content(zip') = Content(zip)
  BY DEF Content
<1> QED
  BY <1>1 DEF AddedInv, Taken

\* The loop of create_zip_from_files.
LEMMA AddedInv_zip_add ==
  ASSUME TypeOK, LoopInv, OpenInv, EncryptedUnlessFault, AddedInv, zip_add
  PROVE  AddedInv'
<1>1. /\ pos \in 1..Len(new_files) /\ pos \in Nat /\ Len(new_files) \in Nat
      /\ za \in Seq(OpenEntry)
  BY LenProperties
  DEF zip_add, LoopInv, Round, Open, TypeOK, LoopType, ArchiveType, OpenEntry
<1>2. /\ pc = "add" /\ UNCHANGED <<zip, local, new_files>>
      /\ failed \subseteq failed'
      /\ \/ pc' = "add" /\ pos' = pos + 1 /\ closing'
         \/ pc' = "close" /\ closing' /\ ~(pos < Len(new_files))
         \/ pc' = "close" /\ ~closing'
  BY DEF zip_add, advance, Works, Fails
<1>3. pc' = "add" => \A i \in Len(zip') + 1 .. Len(za') :
          \E k \in 1..pos' - 1 : za'[i].name = new_files'[k]
  BY <1>1, <1>2, zip_add_Names
<1>4. ASSUME failed' \cap Unnoticed = {}, closing'
      PROVE  \A k \in 1..pos : TakenIn(za', local[new_files[k]], new_files[k])
  <2> SUFFICES ASSUME NEW k \in 1..pos
               PROVE  TakenIn(za', local[new_files[k]], new_files[k])
    OBVIOUS
  <2>1. CASE k = pos
    BY <1>4, <2>1, zip_add_Taken
  <2>2. CASE k \in 1..pos - 1
    <3>1. Taken(new_files[k])
      BY <1>2, <1>4, <2>2 DEF AddedInv, Unnoticed
    <3>2. TakenIn(za, local[new_files[k]], new_files[k])
      BY <3>1 DEF Taken, TakenIn
    <3>3. Grown(za, za', new_files[pos], local[new_files[pos]])
      BY zip_add_Effect
    <3> QED
      BY <1>1, <3>2, <3>3, TakenIn_Grows
  <2> QED
    BY <1>1, <2>1, <2>2
<1>5. ASSUME failed' \cap Unnoticed = {}, closing'
      PROVE  \A k \in 1..pos : Taken(new_files[k])'
  BY <1>2, <1>4, <1>5 DEF Taken, TakenIn
<1>6. failed' \cap {"zip_file_add", "set_encryption"} = {} =>
        /\ pc' = "add" => \A k \in 1..pos' - 1 : Taken(new_files[k])'
        /\ pc' \in {"close", "write"} /\ closing' =>
               \A k \in 1..Len(new_files') : Taken(new_files[k])'
  BY <1>1, <1>2, <1>5 DEF Unnoticed
<1> QED
  BY <1>2, <1>3, <1>6 DEF AddedInv

\* zip_close: nothing is discarded when something was added, and what is
\* committed was taken.
LEMMA AddedInv_close ==
  ASSUME TypeOK, LoopInv, OpenInv, AddedInv, zip_close \/ zip_close_writes
  PROVE  AddedInv'
<1>1. /\ pos = 1 /\ Len(new_files) \in Nat /\ 1 \in 1..Len(new_files)
      /\ za \in Seq(OpenEntry) /\ DOMAIN za = 1..Len(za)
      /\ UNCHANGED <<pos, closing, local, new_files>>
      /\ failed \subseteq failed'
      /\ pc \in {"close", "write"}
  BY LenProperties
  DEF zip_close, zip_close_writes, LoopInv, Round, Open, TypeOK, LoopType,
      ArchiveType, OpenEntry, Works, Fails
<1>2. CASE pc' = "end"
  BY <1>2, AddedInv_Outside DEF Open
<1>3. CASE pc' = "write" /\ UNCHANGED za
  BY <1>1, <1>3 DEF AddedInv, Taken
<1>4. CASE zip_close /\ close_discards /\ pc' = "upload" /\ closing
  <2>1. ~ \E i \in 1..Len(za) : za[i].password
    BY <1>1, <1>4 DEF close_discards, zip_changed, HasChanges
  <2>2. ~Taken(new_files[1])
    BY <2>1 DEF Taken
  <2>3. failed \cap {"zip_file_add", "set_encryption"} # {}
    BY <1>1, <1>4, <2>2 DEF AddedInv
  <2> QED
    BY <1>1, <1>4, <2>3 DEF AddedInv
<1>5. CASE pc = "write" /\ commit_write /\ pc' = "upload" /\ closing
  <2>1. ASSUME failed' \cap Unnoticed = {}, NEW k \in 1..Len(new_files)
        PROVE  [name |-> new_files[k], data |-> local[new_files[k]]]
                   \in Content(zip')
    <3>1. Taken(new_files[k])
      BY <1>1, <1>5, <2>1 DEF AddedInv, Unnoticed
    <3>2. TakenIn(za, local[new_files[k]], new_files[k])
      BY <3>1 DEF Taken, TakenIn
    <3> QED
      BY <1>5, <3>2, CommitTaken
  <2> QED
    BY <1>1, <1>5, <2>1 DEF AddedInv, Unnoticed
<1> QED
  BY <1>2, <1>3, <1>4, <1>5
  DEF zip_close, zip_close_writes, zip_created, close_begin_write,
      close_add_data

\* Every step keeps the account of what was added.
LEMMA AddedInv_Step ==
  ASSUME TypeOK, LoopInv, OpenInv, EncryptedUnlessFault, AddedInv, [Next]_vars
  PROVE  AddedInv'
<1>0. /\ Len(zip) \in Nat /\ Len(new_files) \in Nat /\ pos \in Nat
      /\ new_files \in Seq(Files)
  BY LenProperties DEF TypeOK, ArchiveType, Archives, LoopType
<1>1. CASE \/ connect \/ list_open \/ (\E f \in Files : list_new_files(f))
           \/ list_end \/ download_files \/ end_of_round \/ wake
           \/ killed \/ started
  BY <1>1, AddedInv_Outside
  DEF connect, list_open, list_new_files, list_end, download_files, advance,
      end_of_round, wake, killed, process_ends, started, Open
<1>2. CASE zip_open
  <2>1. CASE process_ends
    BY <2>1, AddedInv_Outside DEF process_ends, Open
  <2>2. CASE za' = read_cdir /\ pc' = "add" /\ UNCHANGED <<zip, pos>>
    <3>1. Len(za') = Len(zip) /\ pos' = 1
      BY <1>2, <2>2, read_cdir_Type
      DEF TypeOK, ArchiveType, Archives, DiskEntry, LoopInv, zip_open
    <3> QED
      BY <1>0, <2>2, <3>1 DEF AddedInv
  <2> QED
    BY <1>2, <2>1, <2>2 DEF zip_open
<1>3. CASE zip_add
  BY <1>3, AddedInv_zip_add
<1>4. CASE zip_close \/ zip_close_writes
  BY <1>4, AddedInv_close
<1>5. CASE upload_open \/ upload_file
  <2>1. /\ pc \in {"upload", "copy"} /\ pc' \in {"copy", "delete"}
        /\ UNCHANGED <<pos, local, new_files, zip>> /\ failed \subseteq failed'
    BY <1>5 DEF upload_open, upload_file, Works, Fails
  <2>2. Content(zip') = Content(zip)
    BY <2>1 DEF Content
  <2> QED
    BY <2>1, <2>2 DEF AddedInv
<1>6. CASE delete_local_file
  <2>1. /\ pc = "delete" /\ UNCHANGED <<new_files, zip>>
        /\ failed \subseteq failed' /\ pos \in 1..Len(new_files)
        /\ new_files[pos] \in Files
        /\ \/ pc' = "end"
           \/ pc' = "delete" /\ pos' = pos + 1
    BY <1>6, ElementOfSeq
    DEF delete_local_file, advance, Works, Fails, LoopInv, Round, TypeOK,
        LoopType
  <2>2. ASSUME NEW k \in pos + 1 .. Len(new_files)
        PROVE  local'[new_files[k]] = local[new_files[k]]
    <3>1. /\ k \in DOMAIN new_files /\ pos \in DOMAIN new_files /\ k # pos
      BY <1>0, <2>1, LenProperties
    <3>2. new_files[k] # new_files[pos] /\ new_files[k] \in Files
      BY <1>0, <3>1, ElementOfSeq, LenProperties
      DEF TypeOK, LoopType, IsInjective
    <3>3. local \in [Files -> Data]
      BY DEF TypeOK, ArchiveType
    <3> QED
      BY <1>6, <2>1, <3>2, <3>3 DEF delete_local_file
  <2>3. CASE pc' = "end"
    BY <2>3, AddedInv_Outside DEF Open
  <2>4. CASE pc' = "delete" /\ pos' = pos + 1
    <3>1. Content(zip') = Content(zip)
      BY <2>1 DEF Content
    <3>2. failed' \cap {"zip_file_add", "set_encryption"} = {} =>
            \A k \in pos' .. Len(new_files) :
              [name |-> new_files[k], data |-> local'[new_files[k]]]
                  \in Content(zip)
      <4> SUFFICES ASSUME failed' \cap {"zip_file_add", "set_encryption"} = {},
                          NEW k \in pos + 1 .. Len(new_files)
                   PROVE  [name |-> new_files[k], data |-> local'[new_files[k]]]
                              \in Content(zip)
        BY <2>4
      <4>1. k \in pos .. Len(new_files)
        BY <1>0
      <4>2. [name |-> new_files[k], data |-> local[new_files[k]]] \in Content(zip)
        BY <2>1, <4>1 DEF AddedInv
      <4> QED
        BY <2>2, <4>2
    <3> QED
      BY <2>1, <2>4, <3>1, <3>2 DEF AddedInv
  <2> QED
    BY <2>1, <2>3, <2>4
<1>7. CASE \/ tick \/ (\E f \in Files : write_remote(f) \/ remove_remote(f))
           \/ UNCHANGED vars
  BY <1>7, AddedInv_Untouched DEF tick, write_remote, remove_remote
<1> QED
  BY <1>1, <1>2, <1>3, <1>4, <1>5, <1>6, <1>7 DEF Next, main, Environment

-----------------------------------------------------------------------------
(* The theorems *)

\* The program starts with nothing open and nothing archived.
LEMMA OldInv_Init == Init => OldInv
<1> SUFFICES ASSUME Init
             PROVE  OldInv
  OBVIOUS
<1> USE DEF Init, LibZipInit
<1>1. <<>> \in Archives
      /\ <<>> \in Seq([name : Files, orig : Data, encrypted : BOOLEAN,
                      source : Data, password : BOOLEAN])
  BY EmptySeq DEF Archives
<1>2. TypeOK
  <2>1. TimeType
    BY OldAssumption DEF OldAssumption, TimeType
  <2>2. LoopType
    BY NoFiles DEF LoopType
  <2>3. ArchiveType
    BY <1>1, NoDataType DEF ArchiveType
  <2> QED
    BY <2>1, <2>2, <2>3 DEF TypeOK
<1>3. LoopInv /\ OpenInv /\ PasswordInv
  BY DEF LoopInv, OpenInv, PasswordInv, Open, Round
<1>4. PastInv /\ RoundInv /\ AddedInv
  BY DEF PastInv, RoundInv, AddedInv, Open, NoData
<1>5. EncryptedUnlessFault /\ LostCopyIsRecoverable
  BY DEF EncryptedUnlessFault, LostCopyIsRecoverable, Content
<1> QED
  BY <1>2, <1>3, <1>4, <1>5 DEF OldInv

\* Every step of the program, of its users and of whoever kills it.
LEMMA OldInv_Step ==
  ASSUME OldInv, [Next]_vars
  PROVE  OldInv'
BY TypeOK_Step, OpenInv_Step, PasswordInv_Step, Encrypted_Step, PastInv_Step,
   RoundInv_Step, AddedInv_Step, LostCopy_Step
DEF OldInv

(***************************************************************************)
(* OldInv holds throughout, whatever fails and whenever the process is     *)
(* killed and started again.                                               *)
(***************************************************************************)
THEOREM OldInvariance == Spec => []OldInv
BY OldInv_Init, OldInv_Step, PTL DEF Spec

\* Types, and the loop each index and buffer belongs to.
THEOREM OldTypeCorrectness == Spec => []TypeOK
<1>1. OldInv => TypeOK
  BY DEF OldInv
<1> QED
  BY <1>1, OldInvariance, PTL

(***************************************************************************)
(* What was on RemoteHost2 once is still in the local archive: only the    *)
(* rename of zip_close changes the archive, and the temporary file starts  *)
(* with all of its entries.                                                *)
(***************************************************************************)
THEOREM LostCopies == Spec => []LostCopyIsRecoverable
<1>1. OldInv => LostCopyIsRecoverable
  BY DEF OldInv
<1> QED
  BY <1>1, OldInvariance, PTL

\* Nothing is stored or sent in the clear unless zip_file_set_encryption failed.
THEOREM Encryption == Spec => []EncryptedUnlessFault
<1>1. OldInv => EncryptedUnlessFault
  BY DEF OldInv
<1> QED
  BY <1>1, OldInvariance, PTL

(***************************************************************************)
(* No version is archived twice: in the loop of create_zip_from_files the  *)
(* archive has versions up to last_run only, and the local copies later    *)
(* ones.                                                                   *)
(***************************************************************************)
THEOREM NoVersionTwice == Spec => []AddedIsNew
<1>1. ASSUME OldInv
      PROVE  AddedIsNew
  <2>1. /\ Len(zip) \in Nat /\ Len(za) \in Nat /\ DOMAIN za = 1..Len(za)
        /\ last_run \in Nat /\ zip \in Seq(DiskEntry)
    BY <1>1, OldAssumption, LenProperties
    DEF OldInv, OldAssumption, TypeOK, TimeType, ArchiveType, Archives, DiskEntry
  <2> SUFFICES ASSUME pc = "add", NEW i \in 1..Len(za)
               PROVE  za[i].orig.ver # local[new_files[pos]].ver
    BY <2>1 DEF AddedIsNew
  <2>2. pos \in 1..Len(new_files)
    BY <1>1 DEF OldInv, LoopInv, Round, Open
  <2>3. local[new_files[pos]].ver > last_run /\ local[new_files[pos]].ver \in Nat
    <3>1. new_files[pos] \in Files /\ local \in [Files -> Data]
      BY <1>1, <2>2, ElementOfSeq DEF OldInv, TypeOK, LoopType, ArchiveType
    <3> QED
      BY <1>1, <2>2, <3>1, OldAssumption
      DEF OldInv, RoundInv, Open, Data, OldAssumption
  <2>4. CASE i \in 1..Len(zip)
    <3>1. za[i].orig = zip[i].data /\ zip[i].data.ver <= last_run
      BY <1>1, <2>4 DEF OldInv, OpenInv, RoundInv, Open
    <3>2. zip[i] \in DiskEntry
      BY <2>1, <2>4, ElementOfSeq
    <3>3. zip[i].data.ver \in Nat
      BY <3>2, OldAssumption DEF DiskEntry, Data, OldAssumption
    <3> QED
      BY <2>1, <2>3, <3>1, <3>3
  <2>5. CASE i \in Len(zip) + 1 .. Len(za)
    <3>1. za[i].orig.ver = 0
      BY <1>1, <2>5 DEF OldInv, OpenInv, Open, NoData
    <3> QED
      BY <2>1, <2>3, <3>1
  <2> QED
    BY <2>1, <2>4, <2>5
<1> QED
  BY <1>1, OldInvariance, PTL

\* The local archive loses nothing, by no step.
THEOREM ArchiveKeepsAll == Spec => ArchiveGrows
<1>1. OldInv /\ [Next]_vars => [Content(zip) \subseteq Content(zip')]_vars
  BY ContentGrows DEF OldInv
<1> QED
  BY <1>1, OldInvariance, PTL DEF Spec, ArchiveGrows

(***************************************************************************)
(* A local copy is deleted only when the archive has it.  The deleting     *)
(* loop comes after a zip_close that succeeded, and one that succeeds has  *)
(* written every file of the round.                                        *)
(***************************************************************************)
THEOREM DeletedCopies == Spec => DeletedWasArchived
<1>1. ASSUME OldInv, [Next]_vars,
             NEW f \in Files, local[f] # NoData, local'[f] = NoData,
             failed \cap {"zip_file_add", "set_encryption"} = {}
      PROVE  [name |-> f, data |-> local[f]] \in Content(zip)
  <2>1. local \in [Files -> Data] /\ TypeOK /\ LoopInv
    BY <1>1 DEF OldInv, TypeOK, ArchiveType
  <2>2. CASE /\ remote1[new_files[pos]].ver > 0
             /\ \E whole \in BOOLEAN :
                 local' = [local EXCEPT ![new_files[pos]] =
                              [ver |-> remote1[new_files[pos]].ver,
                               whole |-> whole]]
    <3>1. PICK whole \in BOOLEAN :
                 local' = [local EXCEPT ![new_files[pos]] =
                              [ver |-> remote1[new_files[pos]].ver,
                               whole |-> whole]]
      BY <2>2
    <3>2. [ver |-> remote1[new_files[pos]].ver, whole |-> whole] # NoData
      BY <2>2 DEF NoData
    <3> QED
      BY <1>1, <2>1, <3>1, <3>2
  <2>3. CASE pc = "delete" /\ local' = [local EXCEPT ![new_files[pos]] = NoData]
    <3>1. f = new_files[pos]
      BY <1>1, <2>1, <2>3
    <3>2. pos \in pos..Len(new_files)
      BY <2>1, <2>3, LenProperties DEF LoopInv, Round, TypeOK, LoopType
    <3> QED
      BY <1>1, <2>3, <3>1, <3>2 DEF OldInv, AddedInv
  <2> QED
    BY <1>1, <2>1, <2>2, <2>3, LocalSteps
<1> DEFINE A == \A f \in Files :
                    /\ local[f] # NoData
                    /\ local'[f] = NoData
                    /\ failed \cap {"zip_file_add", "set_encryption"} = {}
                    => [name |-> f, data |-> local[f]] \in Content(zip)
<1>2. OldInv /\ [Next]_vars => [A]_vars
  BY <1>1
<1> QED
  BY <1>2, OldInvariance, PTL DEF Spec, DeletedWasArchived

(***************************************************************************)
(* What is written while the program sleeps is taken by the scan that      *)
(* comes to it: last_run is when the last round ended, to the second.      *)
(***************************************************************************)
THEOREM SleepLosesNothing == Spec => WrittenInSleepIsTaken
<1>1. ASSUME OldInv, [Next]_vars,
             NEW f \in Files, pc = "list", pc' = "list", f \in unread \ unread',
             remote1[f].ver > 0, remote1[f].mtime > slept_at
      PROVE  Contains(new_files', f)
  <2>1. slept_at = last_run /\ new_files \in Seq(Files)
    BY <1>1 DEF OldInv, LoopInv, TypeOK, LoopType
  <2>2. PICK g \in Files : list_new_files(g)
    BY <1>1
    DEF Next, main, Environment, connect, list_open, list_end, download_files,
        zip_open, zip_add, zip_close, zip_close_writes, upload_open,
        upload_file, delete_local_file, end_of_round, wake, tick,
        write_remote, remove_remote, killed, process_ends, started
  <2>3. new_files' = Append(new_files, f)
    BY <1>1, <2>1, <2>2 DEF list_new_files
  <2> QED
    BY <1>1, <2>1, <2>3, AppendProperties, LenProperties DEF Contains
<1> DEFINE A == \A f \in Files :
                    /\ pc = "list" /\ pc' = "list"
                    /\ f \in unread \ unread'
                    /\ remote1[f].ver > 0
                    /\ remote1[f].mtime > slept_at
                    => Contains(new_files', f)
<1>2. OldInv /\ [Next]_vars => [A]_vars
  BY <1>1
<1> QED
  BY <1>2, OldInvariance, PTL DEF Spec, WrittenInSleepIsTaken
==============================================================================
