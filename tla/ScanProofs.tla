------------------------------ MODULE ScanProofs ------------------------------
(***************************************************************************)
(* Proofs about the scans and the queue of the download thread, for every  *)
(* value of the constants: what append_to_zip meets in the archive         *)
(* (AppendIsFresh) and which files no scan forgets (NotForgotten).  Both   *)
(* rest on HistoryInv, the bookkeeping between file_history,               *)
(* files_to_remove and the loop position, which holds whatever fails.      *)
(***************************************************************************)
EXTENDS FileTransferProofs

USE DEF envVars, diskVars, mainVars, dlVars, scanVars, queueVars, runVars,
        zipVars, ulVars, sentVars, histVars, vars, AppendStates

\* Where the download thread is outside its loop over file_history.
Outside == DLStates \ (AppendStates \cup {"next", "prune"})

-----------------------------------------------------------------------------
(* Sequences *)

\* A name that occurs once and stands first: removing it leaves the tail.
LEMMA FirstErased ==
  ASSUME NEW S, NEW s \in Seq(S), IsInjective(s),
         NEW k \in DOMAIN s, s[k] = s[1]
  PROVE  RemoveAt(s, k) = Tail(s)
<1>1. k = 1 /\ s # <<>>
  BY DEF IsInjective
<1>2. k - 1 = 0 /\ k + 1 = 2
  BY <1>1
<1>3. SubSeq(s, 1, 0) = <<>> /\ SubSeq(s, 2, Len(s)) = Tail(s)
  BY <1>1, SubSeqEmpty, TailIsSubSeq
<1>4. Tail(s) \in Seq(S)
  BY <1>1, HeadTailProperties
<1>5. <<>> \o Tail(s) = Tail(s)
  BY <1>4, ConcatEmptySeq
<1> QED
  BY <1>2, <1>3, <1>5 DEF RemoveAt

\* Without its first element an injective sequence is injective.
LEMMA TailInjective ==
  ASSUME NEW S, NEW s \in Seq(S), s # <<>>, IsInjective(s)
  PROVE  IsInjective(Tail(s))
BY HeadTailProperties DEF IsInjective

\* A new element at the end keeps a sequence injective.
LEMMA AppendInjectiveElement ==
  ASSUME NEW S, NEW s \in Seq(S), NEW e \in S, IsInjective(s), ~Contains(s, e)
  PROVE  IsInjective(Append(s, e))
BY AppendProperties DEF IsInjective, Contains

\* What lies behind a prefix is the same when both lose their first element.
LEMMA BehindPrefix ==
  ASSUME NEW S, NEW s \in Seq(S), NEW t \in Seq(S),
         t # <<>>, Len(t) <= Len(s)
  PROVE  {Tail(s)[k] : k \in Len(Tail(t)) + 1 .. Len(Tail(s))}
           = {s[k] : k \in Len(t) + 1 .. Len(s)}
<1>1. Len(Tail(t)) = Len(t) - 1 /\ Len(Tail(s)) = Len(s) - 1 /\ Len(t) \in Nat
      /\ Len(t) >= 1 /\ Len(s) \in Nat
  BY HeadTailProperties, LenProperties
<1>2. \A k \in 1 .. Len(s) - 1 : Tail(s)[k] = s[k + 1]
  BY <1>1, HeadTailProperties
<1>3. ASSUME NEW k \in Len(Tail(t)) + 1 .. Len(Tail(s))
      PROVE  Tail(s)[k] \in {s[j] : j \in Len(t) + 1 .. Len(s)}
  BY <1>1, <1>2
<1>4. ASSUME NEW k \in Len(t) + 1 .. Len(s)
      PROVE  s[k] \in {Tail(s)[j] : j \in Len(Tail(t)) + 1 .. Len(Tail(s))}
  <2>1. k - 1 \in Len(Tail(t)) + 1 .. Len(Tail(s)) /\ k - 1 \in 1 .. Len(s) - 1
    BY <1>1
  <2>2. Tail(s)[k - 1] = s[k]
    BY <1>1, <1>2, <2>1
  <2> QED
    BY <2>1, <2>2
<1> QED
  BY <1>3, <1>4

-----------------------------------------------------------------------------
(* The queue *)

\* A step that leaves the queue alone, and does not move the download thread
\* between the loop over file_history and the rest.
LEMMA HistoryUntouched ==
  ASSUME HistoryInv,
         UNCHANGED <<file_history, files_to_remove, pos, file_contents>>,
         UNCHANGED dl_pc \/ (dl_pc \in Outside /\ dl_pc' \in Outside)
  PROVE  HistoryInv'
BY DEF HistoryInv, Outside, DLStates

\* With the process all of the queue is gone.
LEMMA ProcessEnds_History ==
  ASSUME NEW status, ProcessEnds(status)
  PROVE  HistoryInv'
BY DEF ProcessEnds, HistoryInv, IsInjective

\* The merge lets no name in twice.
LEMMA merge_history_History ==
  ASSUME IInv, HistoryInv, merge_history
  PROVE  HistoryInv'
<1>1. /\ file_history \in Seq(Files) /\ files_to_remove = <<>> /\ pos = 1
      /\ Head(new_files) \in Files
  BY DEF IInv, TypeOK, QueueType, ScanType, HistoryInv, merge_history
<1>2. IsInjective(file_history')
  BY <1>1, AppendInjectiveElement DEF merge_history, HistoryInv
<1>3. Len(file_history') \in Nat
  BY <1>1 DEF merge_history
<1> QED
  BY <1>1, <1>2, <1>3 DEF merge_history, HistoryInv

\* The next file is the one at pos.
LEMMA next_file_History ==
  ASSUME IInv, HistoryInv, next_file
  PROVE  HistoryInv'
BY DEF next_file, download_file, HistoryInv

\* A file that was appended is noted, at the position it has in file_history.
LEMMA append_zip_close_History ==
  ASSUME IInv, HistoryInv, append_zip_close
  PROVE  HistoryInv'
<1>1. /\ file_history \in Seq(Files) /\ files_to_remove \in Seq(Files)
      /\ pos = Len(files_to_remove) + 1 /\ pos <= Len(file_history)
      /\ file_contents.name = file_history[pos]
  BY DEF IInv, TypeOK, QueueType, HistoryInv, append_zip_close
<1>2. CASE dl_pc' = "next"
  <2>1. files_to_remove' = Append(files_to_remove, file_contents.name)
        /\ pos' = pos + 1 /\ UNCHANGED file_history
    BY <1>2 DEF append_zip_close
  <2>2. file_contents.name \in Files
    BY <1>1
  <2>3. /\ Len(files_to_remove') = Len(files_to_remove) + 1
        /\ \A k \in 1..Len(files_to_remove') :
               files_to_remove'[k] = file_history[k]
    BY <1>1, <2>1, <2>2, AppendProperties DEF HistoryInv
  <2> QED
    BY <1>1, <1>2, <2>1, <2>3 DEF HistoryInv
<1>3. CASE dl_pc' = "prune"
  BY <1>3 DEF append_zip_close, HistoryInv
<1> QED
  BY <1>2, <1>3 DEF append_zip_close

\* erase finds the file in front of file_history.
LEMMA prune_history_Tail ==
  ASSUME IInv, HistoryInv, prune_history
  PROVE  /\ file_history \in Seq(Files) /\ file_history # <<>>
         /\ files_to_remove \in Seq(Files) /\ files_to_remove # <<>>
         /\ file_history' = Tail(file_history)
         /\ files_to_remove' = Tail(files_to_remove)
<1>1. /\ file_history \in Seq(Files)
      /\ files_to_remove \in Seq(Files) /\ files_to_remove # <<>>
      /\ files_to_remove' = Tail(files_to_remove)
  BY DEF IInv, TypeOK, QueueType, prune_history
<1>2. Len(files_to_remove) >= 1 /\ Len(file_history) >= 1
      /\ Head(files_to_remove) = file_history[1]
  BY <1>1 DEF HistoryInv
<1>3. PICK k \in DOMAIN file_history :
           file_history[k] = file_history[1]
           /\ file_history' = RemoveAt(file_history, k)
  BY <1>2 DEF prune_history, erase
<1>4. IsInjective(file_history)
  BY DEF HistoryInv
<1>5. RemoveAt(file_history, k) = Tail(file_history)
  BY <1>1, <1>3, <1>4, FirstErased
<1>6. file_history # <<>>
  BY <1>2
<1> QED
  BY <1>1, <1>3, <1>5, <1>6

\* Both sequences lose their first element.
LEMMA prune_history_History ==
  ASSUME IInv, HistoryInv, prune_history
  PROVE  HistoryInv'
<1>1. /\ file_history \in Seq(Files) /\ file_history # <<>>
      /\ files_to_remove \in Seq(Files) /\ files_to_remove # <<>>
      /\ file_history' = Tail(file_history)
      /\ files_to_remove' = Tail(files_to_remove)
  BY prune_history_Tail
<1>2. IsInjective(file_history')
  BY <1>1, TailInjective DEF HistoryInv
<1>3. Len(files_to_remove') <= Len(file_history')
  BY <1>1 DEF HistoryInv
<1>4. \A k \in 1..Len(files_to_remove') : files_to_remove'[k] = file_history'[k]
  BY <1>1, HeadTailProperties DEF HistoryInv
<1>5. dl_pc' = "prune"
  BY DEF prune_history
<1> QED
  BY <1>2, <1>3, <1>4, <1>5 DEF HistoryInv

\* Every step keeps the queue in order.
LEMMA HistoryInv_Step ==
  ASSUME IInv, HistoryInv, [Next]_vars
  PROVE  HistoryInv'
<1>1. CASE main_start \/ signal_handler
  BY <1>1, HistoryUntouched
  DEF main_start, signal_handler, IInv, SharedInv, ThreadsInv, Outside,
      DLStates
<1>2. CASE main_exit \/ Kill
  BY <1>2, ProcessEnds_History DEF main_exit, Kill
<1>3. CASE upload_routine
  BY <1>3, HistoryUntouched
  DEF upload_routine, ul_connect, upload_loop, upload_sem_wait, upload_open,
      upload_send, upload_cut_short, upload_error, delete_local_file,
      upload_exit, UploadFrame
<1>4. CASE \/ (\E f \in Files : WriteFile(f) \/ RemoveFile(f)) \/ Tick
           \/ NotStartedAgain \/ UNCHANGED vars
  BY <1>4, HistoryUntouched DEF WriteFile, RemoveFile, Tick, NotStartedAgain
<1>5. CASE download_routine
  <2>1. CASE \/ dl_connect \/ download_loop \/ download_exit
             \/ (\E f \in Files : readdir(f))
             \/ (\E a \in batch : list_new_files(a))
    BY <2>1, HistoryUntouched
    DEF dl_connect, download_loop, download_exit, readdir, list_new_files,
        Outside, DLStates
  <2>2. CASE no_new_files \/ check_for_new_files
    BY <2>2, HistoryUntouched
    DEF no_new_files, check_for_new_files, end_of_directory, Outside, DLStates
  <2>3. CASE merge_history \/ next_file \/ append_zip_close \/ prune_history
    BY <2>3, merge_history_History, next_file_History,
       append_zip_close_History, prune_history_History
  <2>4. CASE append_sem_wait
    BY <2>4 DEF append_sem_wait, HistoryInv
  <2>5. CASE append_zip_open
    BY <2>5, ProcessEnds_History DEF append_zip_open, HistoryInv
  <2>6. CASE download_sleep
    BY <2>6 DEF download_sleep, HistoryInv
  <2> QED
    BY <1>5, <2>1, <2>2, <2>3, <2>4, <2>5, <2>6 DEF download_routine
<1> QED
  BY <1>1, <1>2, <1>3, <1>4, <1>5 DEF Next, Environment

(***************************************************************************)
(* The bookkeeping of download_routine, whatever fails: file_history holds *)
(* no name twice, and files_to_remove is what the loop has appended, in    *)
(* the order of file_history, so that every erase finds its file.          *)
(***************************************************************************)
THEOREM HistoryInvariance == Spec => []HistoryInv
<1>1. Init => HistoryInv
  BY DEF Init, NoProcess, HistoryInv, IsInjective
<1>2. IInv /\ HistoryInv /\ [Next]_vars => HistoryInv'
  BY HistoryInv_Step
<1> QED
  BY <1>1, <1>2, Invariance, PTL DEF Spec

\* A new file enters the queue.
LEMMA merge_history_Pending ==
  ASSUME IInv, HistoryInv, merge_history
  PROVE  Pending' = Pending \cup {Head(new_files)}
<1>1. /\ file_history \in Seq(Files) /\ files_to_remove = <<>>
      /\ Head(new_files) \in Files /\ UNCHANGED files_to_remove
  BY DEF IInv, TypeOK, QueueType, ScanType, HistoryInv, merge_history
<1>2. Len(files_to_remove) + 1 = 1
  BY <1>1
<1>3. CASE Contains(file_history, Head(new_files))
  BY <1>1, <1>2, <1>3 DEF merge_history, Pending, Contains
<1>4. CASE ~Contains(file_history, Head(new_files))
  <2>1. file_history' = Append(file_history, Head(new_files))
    BY <1>4 DEF merge_history
  <2>2. /\ Len(file_history') = Len(file_history) + 1
        /\ Len(file_history) \in Nat
        /\ file_history'[Len(file_history) + 1] = Head(new_files)
        /\ \A k \in 1..Len(file_history) : file_history'[k] = file_history[k]
    BY <1>1, <2>1, AppendProperties
  <2> QED
    BY <1>1, <1>2, <2>2 DEF Pending
<1> QED
  BY <1>3, <1>4

\* An appended file leaves it.
LEMMA append_zip_close_Pending ==
  ASSUME IInv, HistoryInv, append_zip_close, dl_pc' = "next"
  PROVE  Pending' = Pending \ {file_contents.name}
<1>1. /\ file_history \in Seq(Files) /\ files_to_remove \in Seq(Files)
      /\ pos = Len(files_to_remove) + 1 /\ pos <= Len(file_history)
      /\ file_contents.name = file_history[pos] /\ IsInjective(file_history)
  BY DEF IInv, TypeOK, QueueType, HistoryInv, append_zip_close
<1>2. /\ files_to_remove' = Append(files_to_remove, file_contents.name)
      /\ UNCHANGED file_history
  BY DEF append_zip_close
<1>3. Len(files_to_remove') = Len(files_to_remove) + 1
  BY <1>1, <1>2, AppendProperties
<1>4. \A k \in Len(files_to_remove) + 1 .. Len(file_history) :
          file_history[k] # file_contents.name
            <=> k \in Len(files_to_remove) + 2 .. Len(file_history)
  BY <1>1 DEF IsInjective
<1> QED
  BY <1>1, <1>2, <1>3, <1>4 DEF Pending

\* An erased file has left it before.
LEMMA prune_history_Pending ==
  ASSUME IInv, HistoryInv, prune_history
  PROVE  Pending' = Pending
<1>1. Len(files_to_remove) <= Len(file_history)
  BY DEF HistoryInv
<1>2. /\ file_history \in Seq(Files) /\ files_to_remove \in Seq(Files)
      /\ files_to_remove # <<>>
      /\ file_history' = Tail(file_history)
      /\ files_to_remove' = Tail(files_to_remove)
  BY prune_history_Tail
<1>3. {Tail(file_history)[k] :
         k \in Len(Tail(files_to_remove)) + 1 .. Len(Tail(file_history))}
        = {file_history[k] : k \in Len(files_to_remove) + 1 .. Len(file_history)}
  BY <1>1, <1>2, BehindPrefix
<1> QED
  BY <1>2, <1>3, Zenon DEF Pending

\* The file that append_to_zip works on waits until the commit.
LEMMA AppendedIsPending ==
  ASSUME IInv, HistoryInv, dl_pc \in AppendStates
  PROVE  file_contents.name \in Pending
BY DEF IInv, TypeOK, QueueType, HistoryInv, Pending

-----------------------------------------------------------------------------
(* Fresh names *)

\* With the process all that was found is gone.
LEMMA ProcessEnds_Fresh ==
  ASSUME NEW status, ProcessEnds(status)
  PROVE  FreshInv'
BY DEF ProcessEnds, FreshInv, Pending

\* A step that adds nothing to the archives and nothing to the queue.
LEMMA FreshUntouched ==
  ASSUME FreshInv, Pending' \subseteq Pending,
         zip' \subseteq zip, za' \subseteq zip \cup za, UNCHANGED new_files,
         \/ dl_pc \notin {"list", "merge"}
         \/ dl_pc' \in {"list", "merge"}
         \/ new_files = <<>>,
         dl_pc' # "zip_close" => za' = {}
  PROVE  FreshInv'
<1>1. \A f \in Pending' : f \notin Names(zip') /\ f \notin Names(za')
  BY DEF FreshInv, Names
<1>2. \A k \in 1..Len(new_files') : new_files'[k] \notin Names(zip')
  BY DEF FreshInv, Names
<1> QED
  BY <1>1, <1>2 DEF FreshInv, Names

\* list_new_files queues what file_exists_in_zip does not find.
LEMMA list_new_files_Fresh ==
  ASSUME "probe" \notin Faults, IInv, HistoryInv, FreshInv,
         NEW a \in batch, list_new_files(a)
  PROVE  FreshInv'
<1>1. UNCHANGED <<file_history, files_to_remove, zip, za, dl_pc>>
  BY DEF list_new_files
<1>2. new_files \in Seq(Files) /\ a.name \in Files
  BY DEF IInv, TypeOK, ScanType, Attributes
<1>3. \/ UNCHANGED new_files
      \/ a.name \notin Names(zip) /\ new_files' = Append(new_files, a.name)
  BY DEF list_new_files, file_exists_in_zip, Fails
<1>4. \A k \in 1..Len(new_files') : new_files'[k] \notin Names(zip)
  BY <1>2, <1>3, AppendProperties DEF FreshInv
<1>5. dl_pc' = "list"
  BY DEF list_new_files
<1> QED
  BY <1>1, <1>4, <1>5 DEF FreshInv, Pending, Names

\* What was found waits in file_history: this thread has not written to the
\* archive since.
LEMMA merge_history_Fresh ==
  ASSUME IInv, HistoryInv, FreshInv, merge_history
  PROVE  FreshInv'
<1>1. /\ new_files \in Seq(Files) /\ new_files # <<>>
      /\ new_files' = Tail(new_files) /\ UNCHANGED <<zip, za>>
      /\ dl_pc' = "merge" \/ new_files' = <<>>
  BY DEF IInv, TypeOK, ScanType, merge_history
<1>2. Head(new_files) = new_files[1] /\ 1 \in 1..Len(new_files)
  BY <1>1
<1>3. \A k \in 1..Len(new_files') : new_files'[k] \notin Names(zip)
  BY <1>1, HeadTailProperties DEF FreshInv
<1>4. Head(new_files) \notin Names(zip)
  BY <1>2 DEF FreshInv
<1>5. za = {}
  BY DEF FreshInv, merge_history
<1>6. UNCHANGED za /\ dl_pc' # "zip_close"
  BY DEF merge_history
<1> QED
  BY <1>1, <1>3, <1>4, <1>5, <1>6, merge_history_Pending DEF FreshInv, Names
\* The commit writes a name that no longer waits.
LEMMA append_zip_close_Fresh ==
  ASSUME IInv, HistoryInv, FreshInv, append_zip_close
  PROVE  FreshInv'
<1>1. /\ dl_pc = "zip_close" /\ za' = {} /\ UNCHANGED new_files
      /\ dl_pc' \in {"next", "prune"}
  BY DEF append_zip_close
<1>2. new_files = <<>>
  BY <1>1 DEF FreshInv
<1>3. CASE dl_pc' = "next"
  <2>1. Pending' = Pending \ {file_contents.name}
    BY <1>3, append_zip_close_Pending
  <2>2. zip' \subseteq zip \cup za \cup {file_contents}
    BY DEF append_zip_close, zip_commit
  <2>3. \A f \in Pending' : f \notin Names(zip')
    BY <2>1, <2>2 DEF FreshInv, Names
  <2> QED
    BY <1>1, <1>2, <2>3 DEF FreshInv, Names
<1>4. CASE dl_pc' = "prune"
  <2>1. UNCHANGED <<zip, file_history, files_to_remove>>
    BY <1>1, <1>4 DEF append_zip_close, zip_commit
  <2> QED
    BY <1>1, <1>2, <2>1 DEF FreshInv, Pending, Names
<1> QED
  BY <1>1, <1>3, <1>4

\* Every step keeps what waits out of the archive.
LEMMA FreshInv_Step ==
  ASSUME "probe" \notin Faults, IInv, HistoryInv, FreshInv, [Next]_vars
  PROVE  FreshInv'
<1>1. CASE main_exit \/ Kill
  BY <1>1, ProcessEnds_Fresh DEF main_exit, Kill
<1>2. CASE \/ main_start \/ signal_handler
           \/ (\E f \in Files : WriteFile(f) \/ RemoveFile(f)) \/ Tick
           \/ NotStartedAgain \/ UNCHANGED vars
  <2>1. /\ UNCHANGED <<file_history, files_to_remove, new_files, zip, za>>
        /\ UNCHANGED dl_pc \/ (dl_pc = "off" /\ dl_pc' = "connect")
    BY <1>2
    DEF main_start, signal_handler, WriteFile, RemoveFile, Tick,
        NotStartedAgain, IInv, SharedInv, ThreadsInv
  <2> QED
    BY <2>1, FreshUntouched DEF Pending, FreshInv
<1>3. CASE upload_routine
  <2>1. /\ UNCHANGED <<file_history, files_to_remove, new_files, za, dl_pc>>
        /\ zip' \subseteq zip
    BY <1>3
    DEF upload_routine, ul_connect, upload_loop, upload_sem_wait, upload_open,
        upload_send, upload_cut_short, upload_error, delete_local_file,
        upload_exit, UploadFrame
  <2> QED
    BY <2>1, FreshUntouched DEF Pending, FreshInv
<1>4. CASE download_routine
  <2>1. CASE \/ dl_connect \/ download_loop \/ download_exit
             \/ (\E f \in Files : readdir(f))
             \/ no_new_files \/ check_for_new_files
    <3>1. /\ UNCHANGED <<file_history, files_to_remove, new_files, zip, za>>
          /\ dl_pc # "zip_close"
          /\ \/ dl_pc \notin {"list", "merge"}
             \/ dl_pc' \in {"list", "merge"}
             \/ new_files = <<>>
      BY <2>1
      DEF dl_connect, download_loop, download_exit, readdir, no_new_files,
          check_for_new_files, end_of_directory
    <3> QED
      BY <3>1, FreshUntouched DEF Pending, FreshInv
  <2>2. CASE \E a \in batch : list_new_files(a)
    BY <2>2, list_new_files_Fresh
  <2>3. CASE merge_history \/ append_zip_close
    BY <2>3, merge_history_Fresh, append_zip_close_Fresh
  <2>4. CASE next_file \/ append_sem_wait \/ prune_history \/ download_sleep
    <3>1. /\ UNCHANGED <<new_files, zip, za>>
          /\ dl_pc \notin {"list", "merge", "zip_close"}
      BY <2>4 DEF next_file, append_sem_wait, prune_history, download_sleep
    <3>2. Pending' = Pending
      BY <2>4, prune_history_Pending
      DEF next_file, append_sem_wait, download_sleep, Pending
    <3> QED
      BY <3>1, <3>2, FreshUntouched DEF FreshInv
  <2>5. CASE append_zip_open
    <3>1. CASE dl_pc' = "zip_close"
      <4>1. /\ UNCHANGED <<file_history, files_to_remove, new_files, zip>>
            /\ za' = zip /\ dl_pc = "zip_open"
        BY <2>5, <3>1 DEF append_zip_open, ProcessEnds
      <4> QED
        BY <3>1, <4>1, FreshUntouched DEF Pending
    <3> QED
      BY <2>5, <3>1, ProcessEnds_Fresh DEF append_zip_open
  <2> QED
    BY <1>4, <2>1, <2>2, <2>3, <2>4, <2>5 DEF download_routine
<1> QED
  BY <1>1, <1>2, <1>3, <1>4 DEF Next, Environment

(***************************************************************************)
(* append_to_zip never meets its own file name in the archive, however     *)
(* many iterations lie between list_new_files and its turn and whatever    *)
(* the upload thread does to the archive, as long as file_exists_in_zip    *)
(* can read the archive (a failing probe answers "not there").             *)
(***************************************************************************)
THEOREM FreshAppends ==
  ASSUME "probe" \notin Faults
  PROVE  Spec => []AppendIsFresh
<1>1. Init => FreshInv
  BY DEF Init, NoProcess, FreshInv, Pending
<1>2. IInv /\ HistoryInv /\ FreshInv /\ [Next]_vars => FreshInv'
  BY FreshInv_Step
<1>3. IInv /\ HistoryInv /\ FreshInv => AppendIsFresh
  BY AppendedIsPending DEF FreshInv, HistoryInv, AppendIsFresh
<1> QED
  BY <1>1, <1>2, <1>3, Invariance, HistoryInvariance, PTL DEF Spec
-----------------------------------------------------------------------------
(* Scans *)

\* Time does not run backwards, and scans and writes are dated by it.
LEMMA ClockInv_Step ==
  ASSUME IInv, ClockInv, [Next]_vars
  PROVE  ClockInv'
<1>0. /\ clock \in Nat /\ last_run \in Nat /\ now \in Nat
      /\ last_runs \subseteq Nat
      /\ \A f \in Files : remote1[f].mtime \in Nat
      /\ DOMAIN remote1 = Files
  BY ConstantsAssumption
  DEF ConstantsAssumption, IInv, TypeOK, EnvironmentType, ScanType, Seconds,
      RemoteFile
<1>1. CASE \/ UNCHANGED <<clock, remote1, last_run, last_runs, now, dl_pc>>
           \/ /\ UNCHANGED <<clock, remote1, last_run, last_runs>>
              /\ dl_pc' # "list"
  BY <1>1 DEF ClockInv
<1>2. CASE \E status : ProcessEnds(status)
  BY <1>0, <1>2 DEF ProcessEnds, ClockInv
<1>3. CASE main_start \/ main_exit \/ signal_handler \/ Kill
  BY <1>1, <1>2, <1>3 DEF main_start, main_exit, signal_handler, Kill
<1>4. CASE upload_routine
  BY <1>1, <1>4
  DEF upload_routine, ul_connect, upload_loop, upload_sem_wait, upload_open,
      upload_send, upload_cut_short, upload_error, delete_local_file,
      upload_exit, UploadFrame
<1>5. CASE \E f \in Files : WriteFile(f) \/ RemoveFile(f)
  BY <1>0, <1>5 DEF WriteFile, RemoveFile, ClockInv
<1>6. CASE Tick
  BY <1>0, <1>6 DEF Tick, ClockInv
<1>7. CASE NotStartedAgain \/ UNCHANGED vars
  BY <1>1, <1>7 DEF NotStartedAgain
<1>8. CASE download_routine
  <2>1. CASE dl_connect
    <3>1. /\ UNCHANGED <<clock, remote1>> /\ dl_pc' # "list"
          /\ \/ UNCHANGED <<last_run, last_runs>>
             \/ last_run' = clock /\ last_runs' = {clock}
      BY <2>1 DEF dl_connect, DownloadFrame
    <3>2. CASE UNCHANGED <<last_run, last_runs>>
      BY <3>1, <3>2 DEF ClockInv
    <3>3. CASE last_run' = clock /\ last_runs' = {clock}
      BY <1>0, <3>1, <3>3 DEF ClockInv
    <3> QED
      BY <3>1, <3>2, <3>3
  <2>2. CASE download_loop
    BY <1>0, <2>2 DEF download_loop, DownloadFrame, ClockInv
  <2>3. CASE check_for_new_files
    BY <1>0, <2>3
    DEF check_for_new_files, end_of_directory, DownloadFrame, ClockInv
  <2>4. CASE append_zip_open
    BY <1>1, <1>2, <2>4 DEF append_zip_open, DownloadFrame
  <2>5. CASE \/ download_exit \/ (\E f \in Files : readdir(f))
             \/ (\E a \in batch : list_new_files(a)) \/ no_new_files
             \/ merge_history
    BY <1>1, <2>5
    DEF download_exit, readdir, list_new_files, no_new_files, merge_history,
        DownloadFrame
  <2>6. CASE \/ next_file \/ append_sem_wait \/ append_zip_close
             \/ prune_history \/ download_sleep
    BY <1>1, <2>6
    DEF next_file, append_sem_wait, append_zip_close, prune_history,
        download_sleep, DownloadFrame
  <2> QED
    BY <1>8, <2>1, <2>2, <2>3, <2>4, <2>5, <2>6 DEF download_routine
<1> QED
  BY <1>3, <1>4, <1>5, <1>6, <1>7, <1>8 DEF Next, Environment
\* A file that is due stays so, and is kept, in a step that sets neither the
\* time of the scan nor the directory and takes no file away.
LEMMA DueUntouched ==
  ASSUME DueInv, UNCHANGED <<remote1, last_run, last_runs>>,
         Pending \subseteq Pending', UNCHANGED new_files,
         archived \subseteq archived', skipped \subseteq skipped'
  PROVE  DueInv'
BY DEF DueInv, Due, Kept, Current

\* A write is dated after the last scan; other files are as they were.
LEMMA WriteFile_Due ==
  ASSUME IInv, ClockInv, DueInv, NEW f \in Files,
         WriteFile(f) \/ RemoveFile(f)
  PROVE  DueInv'
<1>1. SUFFICES ASSUME NEW g \in Files, Due(g)'
               PROVE  Kept(g)'
  BY DEF DueInv
<1>2. UNCHANGED <<clock, last_run, last_runs, new_files, archived, skipped>>
      /\ Pending' = Pending
  BY DEF WriteFile, RemoveFile, Pending
<1>3. CASE g = f
  <2>1. DOMAIN remote1 = Files /\ clock \in Nat /\ last_run \in Nat
    BY ConstantsAssumption
    DEF ConstantsAssumption, IInv, TypeOK, EnvironmentType, ScanType, Seconds
  <2>2. ~remote1'[f].present \/ remote1'[f].mtime = clock
    BY <2>1 DEF WriteFile, RemoveFile
  <2>3. FALSE
    BY <1>1, <1>2, <1>3, <2>1, <2>2 DEF Due, ClockInv
  <2> QED
    BY <2>3
<1>4. CASE g # f
  <2>1. remote1'[g] = remote1[g]
    BY <1>4 DEF WriteFile, RemoveFile, IInv, TypeOK, EnvironmentType
  <2>2. Due(g)
    BY <1>1, <1>2, <2>1 DEF Due
  <2> QED
    BY <1>2, <2>1, <2>2 DEF DueInv, Kept, Current
<1> QED
  BY <1>3, <1>4

\* A scan that has listed everything moves last_run on: what was written
\* between the two is found or passed over, what is older was due before.
LEMMA check_for_new_files_Due ==
  ASSUME "readdir" \notin Faults, IInv, ClockInv, DueInv, ListInv,
         check_for_new_files
  PROVE  DueInv'
<1>1. SUFFICES ASSUME NEW f \in Files, Due(f)'
               PROVE  Kept(f)'
  BY DEF DueInv
<1>2. /\ UNCHANGED <<remote1, new_files, archived, skipped>>
      /\ Pending' = Pending
      /\ last_run' = now /\ last_runs' = last_runs \cup {now}
      /\ dl_pc = "list" /\ unread = {} /\ batch = {}
  BY DEF check_for_new_files, end_of_directory, DownloadFrame, Fails, Pending
<1>3. /\ last_run \in Nat /\ now \in Nat /\ last_runs \subseteq Nat
      /\ remote1[f].mtime \in Nat
  BY ConstantsAssumption
  DEF ConstantsAssumption, IInv, TypeOK, EnvironmentType, ScanType, Seconds,
      RemoteFile
<1>4. /\ remote1[f].present /\ remote1[f].mtime < now
      /\ remote1[f].mtime \notin last_runs
      /\ \E s \in last_runs : s < remote1[f].mtime
  BY <1>1, <1>2, <1>3 DEF Due
<1>5. CASE remote1[f].mtime < last_run
  BY <1>2, <1>4, <1>5 DEF Due, DueInv, Kept, Current
<1>6. CASE last_run < remote1[f].mtime
  BY <1>2, <1>4, <1>6 DEF ListInv, Kept, Current
<1>7. remote1[f].mtime # last_run
  BY <1>4 DEF ClockInv
<1> QED
  BY <1>3, <1>5, <1>6, <1>7

\* A found file goes on to wait.
LEMMA merge_history_Due ==
  ASSUME IInv, HistoryInv, DueInv, merge_history
  PROVE  DueInv'
<1>1. /\ UNCHANGED <<remote1, last_run, last_runs, archived, skipped>>
      /\ new_files' = Tail(new_files) /\ new_files # <<>>
      /\ new_files \in Seq(Files)
  BY DEF merge_history, DownloadFrame, IInv, TypeOK, ScanType
<1>2. \A f : Contains(new_files, f) =>
          f = Head(new_files) \/ Contains(new_files', f)
  <2>1. ASSUME NEW i \in 1..Len(new_files), i # 1
        PROVE  i - 1 \in 1..Len(new_files') /\ new_files'[i - 1] = new_files[i]
    BY <1>1, <2>1, HeadTailProperties
  <2>2. Head(new_files) = new_files[1]
    BY <1>1
  <2> QED
    BY <2>1, <2>2 DEF Contains
<1>3. \A f \in Files : Kept(f) => Kept(f)'
  BY <1>1, <1>2, merge_history_Pending DEF Kept, Current
<1> QED
  BY <1>1, <1>3 DEF DueInv, Due

\* A file stops waiting when it has been archived as it is on RemoteHost1,
\* or has been rewritten since and will be found by the next scan.
LEMMA append_zip_close_Due ==
  ASSUME "add" \notin Faults, IInv, HistoryInv, ClockInv, DueInv, ContentsInv,
         append_zip_close
  PROVE  DueInv'
<1>1. /\ UNCHANGED <<remote1, last_run, last_runs, new_files, skipped>>
      /\ archived \subseteq archived'
  BY DEF append_zip_close, zip_commit, DownloadFrame
<1>2. CASE dl_pc' = "prune"
  BY <1>1, <1>2, DueUntouched DEF append_zip_close, Pending
<1>3. CASE dl_pc' = "next"
  <2>1. Pending' = Pending \ {file_contents.name}
    BY <1>3, append_zip_close_Pending
  <2>2. file_contents \in archived'
    BY <1>3 DEF append_zip_close, zip_commit, Fails
  <2>3. file_contents \in Entry
    BY DEF append_zip_close, IInv, SharedInv, AppendInv
  <2>4. ASSUME Due(file_contents.name)
        PROVE  Current(file_contents.name) = file_contents
    BY <2>3, <2>4 DEF append_zip_close, ContentsInv, Due, Current, Entry
  <2> QED
    BY <1>1, <2>1, <2>2, <2>4 DEF DueInv, Due, Kept, Current
<1> QED
  BY <1>2, <1>3 DEF append_zip_close
\* With the process its scans are forgotten: nothing is due.
LEMMA ProcessEnds_Due ==
  ASSUME NEW status, ProcessEnds(status)
  PROVE  DueInv'
BY DEF ProcessEnds, DueInv, Due

\* Every step keeps the files that are due.
LEMMA DueInv_Step ==
  ASSUME "readdir" \notin Faults, "add" \notin Faults,
         IInv, HistoryInv, ScanInv, [Next]_vars
  PROVE  DueInv'
<1> USE DEF ScanInv
<1>1. CASE main_exit \/ Kill
  BY <1>1, ProcessEnds_Due DEF main_exit, Kill
<1>2. CASE main_start \/ signal_handler \/ Tick \/ NotStartedAgain
           \/ UNCHANGED vars
  BY <1>2, DueUntouched
  DEF main_start, signal_handler, Tick, NotStartedAgain, Pending
<1>3. CASE \E f \in Files : WriteFile(f) \/ RemoveFile(f)
  BY <1>3, WriteFile_Due
<1>4. CASE upload_routine
  <2>1. UNCHANGED <<remote1, last_run, last_runs, new_files, archived, skipped,
                    file_history, files_to_remove>>
    BY <1>4
    DEF upload_routine, ul_connect, upload_loop, upload_sem_wait, upload_open,
        upload_send, upload_cut_short, upload_error, delete_local_file,
        upload_exit, UploadFrame
  <2> QED
    BY <2>1, DueUntouched DEF Pending
<1>5. CASE download_routine
  <2>1. CASE dl_connect
    <3>1. CASE UNCHANGED <<last_run, last_runs>>
      BY <2>1, <3>1, DueUntouched DEF dl_connect, DownloadFrame, Pending
    <3>2. CASE last_runs' = {clock}
      <4>1. /\ UNCHANGED remote1 /\ clock \in Nat
            /\ \A f \in Files : remote1[f].mtime \in Nat
        BY <2>1, ConstantsAssumption
        DEF dl_connect, DownloadFrame, ConstantsAssumption, IInv, TypeOK,
            EnvironmentType, Seconds, RemoteFile
      <4> QED
        BY <3>2, <4>1 DEF DueInv, Due, ClockInv
    <3> QED
      BY <2>1, <3>1, <3>2 DEF dl_connect
  <2>2. CASE \E a \in batch : list_new_files(a)
    <3>1. PICK a \in batch : list_new_files(a)
      BY <2>2
    <3>2. /\ UNCHANGED <<remote1, last_run, last_runs, archived,
                         file_history, files_to_remove>>
          /\ skipped \subseteq skipped'
          /\ new_files' \in {new_files, Append(new_files, a.name)}
      BY <3>1 DEF list_new_files, DownloadFrame
    <3>3. new_files \in Seq(Files) /\ a.name \in Files
      BY DEF IInv, TypeOK, ScanType, Attributes
    <3>4. \A f : Contains(new_files, f) => Contains(new_files', f)
      BY <3>2, <3>3, AppendProperties DEF Contains
    <3> QED
      BY <3>2, <3>4 DEF DueInv, Due, Kept, Current, Pending
  <2>3. CASE check_for_new_files \/ merge_history \/ append_zip_close
    BY <2>3, check_for_new_files_Due, merge_history_Due, append_zip_close_Due
  <2>4. CASE append_zip_open
    BY <2>4, ProcessEnds_Due, DueUntouched
    DEF append_zip_open, DownloadFrame, Pending
  <2>5. CASE \/ download_loop \/ download_exit
             \/ (\E f \in Files : readdir(f)) \/ no_new_files
             \/ next_file \/ append_sem_wait \/ download_sleep
    BY <2>5, DueUntouched
    DEF download_loop, download_exit, readdir, no_new_files, next_file,
        append_sem_wait, download_sleep, DownloadFrame, Pending
  <2>6. CASE prune_history
    BY <2>6, DueUntouched, prune_history_Pending
    DEF prune_history, DownloadFrame
  <2> QED
    BY <1>5, <2>1, <2>2, <2>3, <2>4, <2>5, <2>6 DEF download_routine
<1> QED
  BY <1>1, <1>2, <1>3, <1>4, <1>5 DEF Next, Environment

\* A scan loses no name: it goes from the server to the batch to new_files.
LEMMA ListInv_Step ==
  ASSUME IInv, ScanInv, [Next]_vars
  PROVE  ListInv'
<1> USE DEF ScanInv
<1>1. CASE \/ dl_pc' # "list"
           \/ UNCHANGED <<remote1, last_run, now, dl_pc, unread, batch,
                          new_files, skipped>>
  BY <1>1 DEF ListInv, Current
<1>2. CASE main_start \/ main_exit \/ signal_handler \/ Kill \/ Tick
           \/ NotStartedAgain \/ UNCHANGED vars
  BY <1>1, <1>2
  DEF main_start, main_exit, signal_handler, Kill, Tick, NotStartedAgain,
      ProcessEnds
<1>3. CASE \E f \in Files : WriteFile(f) \/ RemoveFile(f)
  <2>1. PICK f \in Files : WriteFile(f) \/ RemoveFile(f)
    BY <1>3
  <2>2. /\ DOMAIN remote1 = Files /\ clock \in Nat /\ now \in Nat
        /\ UNCHANGED <<last_run, now, dl_pc, unread, batch, new_files, skipped>>
    BY <2>1, ConstantsAssumption
    DEF WriteFile, RemoveFile, ConstantsAssumption, IInv, TypeOK,
        EnvironmentType, ScanType, Seconds
  <2>3. ~remote1'[f].present \/ remote1'[f].mtime = clock
    BY <2>1, <2>2 DEF WriteFile, RemoveFile
  <2>4. \A g \in Files \ {f} : remote1'[g] = remote1[g]
    BY <2>1, <2>2 DEF WriteFile, RemoveFile
  <2>5. dl_pc = "list" => ~(clock < now)
    BY <2>2 DEF ClockInv
  <2> QED
    BY <2>2, <2>3, <2>4, <2>5 DEF ListInv, Current
<1>4. CASE upload_routine
  BY <1>1, <1>4
  DEF upload_routine, ul_connect, upload_loop, upload_sem_wait, upload_open,
      upload_send, upload_cut_short, upload_error, delete_local_file,
      upload_exit, UploadFrame
<1>5. CASE download_routine
  <2>1. CASE download_loop
    BY <2>1 DEF download_loop, ListInv
  <2>2. CASE \E f \in Files : readdir(f)
    BY <2>2 DEF readdir, DownloadFrame, ListInv, Current
  <2>3. CASE \E a \in batch : list_new_files(a)
    <3>1. PICK a \in batch : list_new_files(a)
      BY <2>3
    <3>2. /\ UNCHANGED <<remote1, last_run, now, dl_pc, unread>>
          /\ batch' = batch \ {a} /\ skipped \subseteq skipped'
          /\ new_files' \in {new_files, Append(new_files, a.name)}
          /\ \/ a.mtime <= last_run
             \/ [name |-> a.name, ver |-> a.ver] \in skipped'
             \/ new_files' = Append(new_files, a.name)
      BY <3>1 DEF list_new_files, DownloadFrame
    <3>3. /\ new_files \in Seq(Files) /\ a.name \in Files
          /\ a.mtime \in Nat /\ last_run \in Nat
      BY ConstantsAssumption
      DEF ConstantsAssumption, IInv, TypeOK, ScanType, Attributes, Seconds
    <3> DEFINE longer == Append(new_files, a.name)
    <3>a. /\ Len(new_files) \in Nat /\ Len(longer) = Len(new_files) + 1
          /\ \A i \in 1..Len(new_files) : longer[i] = new_files[i]
          /\ longer[Len(longer)] = a.name
      BY <3>3, AppendProperties
    <3> HIDE DEF longer
    <3>b. \A f : Contains(new_files, f) => Contains(longer, f)
      BY <3>a DEF Contains
    <3>c. Contains(longer, a.name)
      BY <3>a DEF Contains
    <3>d. new_files' = new_files \/ new_files' = longer
      BY <3>2 DEF longer
    <3>4. \A f : Contains(new_files, f) => Contains(new_files', f)
      BY <3>b, <3>d
    <3>5. new_files' = Append(new_files, a.name) => Contains(new_files', a.name)
      BY <3>c DEF longer
    <3> QED
      BY <3>2, <3>3, <3>4, <3>5 DEF ListInv, Current
  <2>4. CASE \/ dl_connect \/ download_exit \/ no_new_files
             \/ check_for_new_files \/ merge_history
    BY <1>1, <2>4
    DEF dl_connect, download_exit, no_new_files, check_for_new_files,
        merge_history
  <2>5. CASE \/ next_file \/ append_sem_wait \/ append_zip_open
             \/ append_zip_close \/ prune_history \/ download_sleep
    BY <1>1, <2>5
    DEF next_file, append_sem_wait, append_zip_open, append_zip_close,
        prune_history, download_sleep, ProcessEnds
  <2> QED
    BY <1>5, <2>1, <2>2, <2>3, <2>4, <2>5 DEF download_routine
<1> QED
  BY <1>2, <1>3, <1>4, <1>5 DEF Next, Environment

\* What append_to_zip holds is out of date only after a later write.
LEMMA ContentsInv_Step ==
  ASSUME IInv, ScanInv, [Next]_vars
  PROVE  ContentsInv'
<1> USE DEF ScanInv
<1>1. CASE \/ dl_pc' \notin AppendStates
           \/ /\ dl_pc \in AppendStates
              /\ UNCHANGED <<remote1, last_run, file_contents>>
  BY <1>1 DEF ContentsInv
<1>2. CASE main_start \/ main_exit \/ signal_handler \/ Kill \/ Tick
           \/ NotStartedAgain \/ UNCHANGED vars
  BY <1>1, <1>2
  DEF main_start, main_exit, signal_handler, Kill, Tick, NotStartedAgain,
      ProcessEnds
<1>3. CASE \E f \in Files : WriteFile(f) \/ RemoveFile(f)
  <2>1. PICK f \in Files : WriteFile(f) \/ RemoveFile(f)
    BY <1>3
  <2>2. /\ DOMAIN remote1 = Files /\ clock \in Nat /\ last_run \in Nat
        /\ UNCHANGED <<last_run, dl_pc, file_contents>>
    BY <2>1, ConstantsAssumption
    DEF WriteFile, RemoveFile, ConstantsAssumption, IInv, TypeOK,
        EnvironmentType, ScanType, Seconds
  <2>3. ~remote1'[f].present \/ remote1'[f].mtime = clock
    BY <2>1, <2>2 DEF WriteFile, RemoveFile
  <2>4. \A g \in Files \ {f} : remote1'[g] = remote1[g]
    BY <2>1, <2>2 DEF WriteFile, RemoveFile
  <2>5. ~(clock < last_run)
    BY <2>2 DEF ClockInv
  <2>6. dl_pc \in AppendStates => file_contents.name \in Files
    BY DEF IInv, SharedInv, AppendInv, Entry
  <2> QED
    BY <2>2, <2>3, <2>4, <2>5, <2>6 DEF ContentsInv
<1>4. CASE upload_routine
  BY <1>1, <1>4
  DEF upload_routine, ul_connect, upload_loop, upload_sem_wait, upload_open,
      upload_send, upload_cut_short, upload_error, delete_local_file,
      upload_exit, UploadFrame
<1>5. CASE next_file
  BY <1>5 DEF next_file, download_file, DownloadFrame, ContentsInv
<1>6. CASE download_routine /\ ~next_file
  <2>1. \/ dl_pc' \notin AppendStates
        \/ /\ dl_pc \in AppendStates
           /\ UNCHANGED <<remote1, last_run, file_contents>>
    BY <1>6
    DEF download_routine, dl_connect, download_loop, download_exit, readdir,
        list_new_files, no_new_files, check_for_new_files, merge_history,
        append_sem_wait, append_zip_open, append_zip_close, prune_history,
        download_sleep, DownloadFrame, ProcessEnds
  <2> QED
    BY <1>1, <2>1
<1> QED
  BY <1>2, <1>3, <1>4, <1>5, <1>6 DEF Next, Environment

(***************************************************************************)
(* No scan forgets a file: what was written between the connection and the *)
(* last successful scan waits, has been archived in this version, or was   *)
(* passed over under its name, whatever was removed, rewritten or uploaded *)
(* in the meantime.  The two calls whose failure the code does not notice  *)
(* must work: sftp_readdir (an error looks like the end of the directory)  *)
(* and zip_file_add.                                                       *)
(***************************************************************************)
THEOREM NoFileForgotten ==
  ASSUME "readdir" \notin Faults, "add" \notin Faults
  PROVE  Spec => []NotForgotten
<1>1. Init => ScanInv
  BY ConstantsAssumption
  DEF ConstantsAssumption, Init, NoProcess, ScanInv, ClockInv, DueInv, Due,
      ListInv, ContentsInv
<1>2. IInv /\ HistoryInv /\ ScanInv /\ [Next]_vars => ScanInv'
  BY ClockInv_Step, DueInv_Step, ListInv_Step, ContentsInv_Step DEF ScanInv
<1>3. IInv /\ HistoryInv /\ ScanInv => NotForgotten
  <2> SUFFICES ASSUME IInv, HistoryInv, ScanInv, NEW f \in Files, Due(f)
               PROVE  \/ Contains(file_history, f)
                      \/ Contains(new_files, f)
                      \/ Current(f) \in archived \cup skipped
    BY DEF NotForgotten, Due, Current
  <2>1. Kept(f)
    BY DEF ScanInv, DueInv
  <2>2. f \in Pending => Contains(file_history, f)
    BY DEF Pending, Contains, IInv, TypeOK, QueueType
  <2> QED
    BY <2>1, <2>2 DEF Kept
<1> QED
  BY <1>1, <1>2, <1>3, Invariance, HistoryInvariance, PTL DEF Spec
==============================================================================
