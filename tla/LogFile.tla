------------------------------ MODULE LogFile -------------------------------
(***************************************************************************)
(* The log and its backup: class LogFile of turnserver_main.cc and the     *)
(* callback OnEdgeServerPerformanceRequired of UniLbsWorker, which calls   *)
(* backupLogFile on the network thread whenever a ping is due.             *)
(*                                                                         *)
(* External: everything the process prints to std::cout ends up in         *)
(* log/turnserver.log, appended line by line by whichever thread prints.   *)
(* Lines are numbered as they are printed, so the log is at any time the   *)
(* lines emptied + 1 to printed.  The name of a copy holds the second it   *)
(* was made in; two copies within one second, which take a shell that      *)
(* failed, are not told apart from two with different names.               *)
(***************************************************************************)
EXTENDS Integers

CONSTANTS
    SizeLimit,  \* 1000 * 1000 bytes, in lines
    ChunkSize,  \* 1024 bytes, in lines
    MaxLines    \* bound: lines printed by other threads, and before a ping

ASSUME LogSizes ==
    /\ SizeLimit \in Nat
    /\ ChunkSize \in Nat \ {0}
    /\ MaxLines \in Nat

VARIABLES
    printed,    \* lines printed so far
    emptied,    \* lines that are no longer in the log
    copied,     \* the last line that the copy under way has read
    saved,      \* lines that are in a copy
    backup_at,  \* where the network thread is in backupLogFile
    uncopied,   \* history: lines that a backup could not open, read or write
    late        \* history: lines printed between the end of a copy and
                \* the command that empties the log

log_vars == <<printed, emptied, copied, saved, backup_at, uncopied, late>>

LogInit ==
    /\ printed \in 0..MaxLines      \* what an earlier process left
    /\ emptied = 0 /\ copied = 0
    /\ saved = {}
    /\ backup_at = "idle"
    /\ uncopied = {} /\ late = {}

\* Another thread prints a line.
PrintLine ==
    /\ printed < MaxLines
    /\ printed' = printed + 1
    /\ late' = IF backup_at = "empty" THEN late \cup {printed + 1} ELSE late
    /\ UNCHANGED <<emptied, copied, saved, backup_at, uncopied>>

\* The callback prints the numbers and calls backupLogFile.
OnEdgeServerPerformanceRequired ==
    /\ backup_at = "idle"
    /\ printed < MaxLines
    /\ printed' = printed + 1
    /\ backup_at' = "check"
    /\ UNCHANGED <<emptied, copied, saved, uncopied, late>>

\* getFileSize: 0 when the log cannot be opened, or its size not read.
getFileSize == {0, printed - emptied}

\* backupLogFile returns false: the log is small, or it is not midnight.
NoBackup ==
    /\ backup_at = "check"
    /\ backup_at' = "idle"
    /\ UNCHANGED <<printed, emptied, copied, saved, uncopied, late>>

\* It is the hour of midnight and the log is large.
BeginBackup ==
    /\ backup_at = "check"
    /\ \E logsize \in getFileSize : logsize >= SizeLimit
    /\ printed' = printed + 1
    /\ backup_at' = "open"
    /\ UNCHANGED <<emptied, copied, saved, uncopied, late>>

\* copy_file cannot open the log or the copy, prints so and returns; its
\* caller does not ask.
OpenFails ==
    /\ backup_at = "open"
    /\ printed' = printed + 1
    /\ uncopied' = uncopied \cup ((emptied + 1)..(printed + 1))
    /\ backup_at' = "empty"
    /\ UNCHANGED <<emptied, copied, saved, late>>

Open ==
    /\ backup_at = "open"
    /\ copied' = emptied
    /\ backup_at' = "copy"
    /\ UNCHANGED <<printed, emptied, saved, uncopied, late>>

\* What one Read returns: a chunk, or what there is of it.
Chunk ==
    (copied + 1)..(IF copied + ChunkSize <= printed THEN copied + ChunkSize
                   ELSE printed)

\* One round of the loop: the chunk is written, or the write fails unnoticed.
Written(chunk) ==
    \/ saved' = saved \cup chunk /\ UNCHANGED uncopied
    \/ uncopied' = uncopied \cup chunk /\ UNCHANGED saved

CopyChunk ==
    /\ backup_at = "copy"
    /\ copied + ChunkSize <= printed
    /\ Written(Chunk)
    /\ copied' = copied + ChunkSize
    /\ UNCHANGED <<printed, emptied, backup_at, late>>

\* Mutant: only whole chunks are written.
CopyEndTruncated ==
    /\ backup_at = "copy"
    /\ printed < copied + ChunkSize
    /\ copied' = printed
    /\ printed' = printed + 1
    /\ late' = late \cup {printed + 1}
    /\ backup_at' = "empty"
    /\ UNCHANGED <<emptied, saved, uncopied>>

\* The last rounds: a Read that meets the end of the log returns what is
\* left, the next one SR_EOS.  The size of the copy is printed.
CopyEnd ==
    /\ backup_at = "copy"
    /\ printed < copied + ChunkSize
    /\ Written(Chunk)
    /\ copied' = printed
    /\ printed' = printed + 1
    /\ late' = late \cup {printed + 1}
    /\ backup_at' = "empty"
    /\ UNCHANGED emptied

\* A Read in the middle of the log fails, when it has read some lines or none:
\* to the loop that is the same as the end.  The size is printed as ever.
CopyBreaks ==
    /\ backup_at = "copy"
    /\ \E last \in {copied} \cup Chunk :
           /\ saved' = saved \cup ((copied + 1)..last)
           /\ uncopied' = uncopied \cup ((last + 1)..printed)
           /\ copied' = last
    /\ printed' = printed + 1
    /\ late' = late \cup {printed + 1}
    /\ backup_at' = "empty"
    /\ UNCHANGED emptied

\* The two commands: the log is emptied, unless the shell fails; whether gzip
\* compresses the copy makes no difference to what it holds.
EmptyLog ==
    /\ backup_at = "empty"
    /\ emptied' \in {emptied, printed}
    /\ backup_at' = "idle"
    /\ UNCHANGED <<printed, copied, saved, uncopied, late>>

backupLogFile ==
    \/ NoBackup \/ BeginBackup
    \/ OpenFails \/ Open \/ CopyChunk \/ CopyEnd \/ CopyBreaks
    \/ EmptyLog

LogNext == PrintLine \/ OnEdgeServerPerformanceRequired \/ backupLogFile

LogSpec == LogInit /\ [][LogNext]_log_vars

-----------------------------------------------------------------------------
(* Properties.                                                             *)

\* The types: a copy never holds a line that was not printed.
LogTypeOK ==
    /\ printed \in Nat /\ emptied \in Nat /\ copied \in Nat
    /\ emptied <= printed /\ copied <= printed
    /\ backup_at \in {"idle", "check", "open", "copy", "empty"}
    /\ saved \subseteq 1..printed

\* No line is lost but for two reasons: every line printed is in the log or in
\* a copy, unless a backup could not open a file, read the log to its end or
\* write what it read (nobody looks at the results, and the log is emptied all
\* the same), or another thread printed it in the short time between the end
\* of the copy and the command that empties the log.  Lines printed while the
\* copy is under way are not lost.
LinesKept ==
    \A line \in 1..printed :
        line > emptied \/ line \in saved \/ line \in uncopied \/ line \in late
=============================================================================
