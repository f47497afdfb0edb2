---------------------------- MODULE ArchiveRelay -----------------------------
(***************************************************************************)
(* What the two threads promise to each other and to RemoteHost2 about the *)
(* archive, whatever happens in between: one writer that replaces the      *)
(* archive by a copy with one entry more, one sender that copies it to     *)
(* RemoteHost2 and removes it afterwards, and a crash at any moment.       *)
(* Scans, queues, sizes, the semaphore and single calls do not appear.     *)
(* FileTransfer implements this specification (see FileTransferMapping).   *)
(***************************************************************************)
CONSTANTS
    Entries,     \* names with versions
    Mistakes     \* whether the sender may take a truncated file for a whole one

VARIABLES
    staged,      \* entries of the local archive
    copy,        \* a set of copies: the one the writer works on, if any
    out,         \* entries readable on RemoteHost2
    whole,       \* FALSE while that file is truncated
    confirmed    \* the sender takes the file on RemoteHost2 for whole

relayVars == <<staged, copy, out, whole, confirmed>>

Init ==
    /\ staged = {}
    /\ copy = {}
    /\ out = {}
    /\ whole = TRUE
    /\ confirmed = FALSE

\* The writer starts from what is staged.
Take ==
    /\ copy = {}
    /\ copy' = {staged}
    /\ UNCHANGED <<staged, out, whole, confirmed>>

\* It replaces the archive by its copy and one new entry.  The archive is the
\* one it copied, or has been removed since: then all of it comes back.
Commit(e) ==
    \E z \in copy :
        /\ staged \in {z, {}}
        /\ staged' = z \cup {e}
        /\ copy' = {}
        /\ UNCHANGED <<out, whole, confirmed>>

\* It gives up; the archive is as it was.
Abandon ==
    /\ copy # {}
    /\ copy' = {}
    /\ UNCHANGED <<staged, out, whole, confirmed>>

\* The sender truncates the file on RemoteHost2.  It has something to replace
\* it with, and the writer is not at work.
Truncate ==
    /\ staged # {}
    /\ copy = {}
    /\ ~confirmed
    /\ out' = {}
    /\ whole' = FALSE
    /\ UNCHANGED <<staged, copy, confirmed>>

\* All that is staged arrives, and nothing else.
Deliver ==
    /\ ~whole
    /\ ~confirmed
    /\ copy = {}
    /\ out' = staged
    /\ whole' = TRUE
    /\ confirmed' = TRUE
    /\ UNCHANGED <<staged, copy>>

\* A truncated file is taken for a whole one.
Mistake ==
    /\ Mistakes
    /\ ~whole
    /\ ~confirmed
    /\ staged # {}
    /\ copy = {}
    /\ confirmed' = TRUE
    /\ UNCHANGED <<staged, copy, out, whole>>

\* Only a confirmed archive is removed, and it has all that was delivered.
Remove ==
    /\ confirmed
    /\ whole \/ Mistakes
    /\ out \subseteq staged
    /\ staged' = {}
    /\ confirmed' = FALSE
    /\ UNCHANGED <<copy, out, whole>>

\* The archive cannot be removed, and will be sent again.
Keep ==
    /\ confirmed
    /\ confirmed' = FALSE
    /\ UNCHANGED <<staged, copy, out, whole>>

\* Archives stay as they are; the copy and the confirmation are forgotten.
Crash ==
    /\ copy' = {}
    /\ confirmed' = FALSE
    /\ UNCHANGED <<staged, out, whole>>

Next ==
    \/ Take
    \/ \E e \in Entries : Commit(e)
    \/ Abandon
    \/ Truncate
    \/ Deliver
    \/ Mistake
    \/ Remove
    \/ Keep
    \/ Crash

Spec == Init /\ [][Next]_relayVars
=============================================================================
