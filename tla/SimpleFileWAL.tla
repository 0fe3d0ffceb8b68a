---------------------------- MODULE SimpleFileWAL ---------------------------
(***************************************************************************)
(* The write-ahead log of the event stream (chain/eventstream/types): one  *)
(* file that every Write replaces in place, by Seek, Truncate, Write and   *)
(* Sync, each of which may fail and between any two of which the process   *)
(* or the machine may stop. One goroutine uses the log; it has no lock.    *)
(*                                                                         *)
(* Bytes are abstracted to the record they come from: the contents of the  *)
(* file are a sequence of pieces, [rec, n] being n bytes of rec. The file  *)
(* system is external: after a crash it shows some contents that the file  *)
(* has had since the last Sync.                                            *)
(***************************************************************************)
EXTENDS Naturals, Sequences

CONSTANTS Records,  \* what may be written
          Size,     \* the length of a record
          NoRecord  \* none of them

ASSUME RecordAssumption == Size \in [Records -> Nat] /\ NoRecord \notin Records

VARIABLES open,     \* the process is up and the file is open
          pc,       \* the next system call of Write, or "idle"
          rec,      \* the record being written
          file,     \* the contents of the file
          offset,   \* of the open file: "start" or "end"
          disk,     \* the contents that a crash may leave
          read,     \* what Read has just returned: <<>>, or <<contents>>
          acked,    \* history: the last record whose Write returned nil
          since     \* history: the records whose Write began after that

vars == <<open, pc, rec, file, offset, disk, read, acked, since>>

\* The first n bytes of r.
Bytes(r, n) == IF n = 0 THEN <<>> ELSE <<[rec |-> r, n |-> n]>>

Whole(r) == Bytes(r, Size[r])

Init ==
    /\ open = TRUE /\ pc = "idle" /\ rec = NoRecord
    /\ file = <<>> /\ offset = "start" /\ disk = {<<>>}
    /\ read = <<>> /\ acked = NoRecord /\ since = {}

\* The file has new contents, which a crash may or may not leave.
Changed(contents) == file' = contents /\ disk' = disk \cup {contents}

\* NewSimpleFileWAL: with O_APPEND and O_CREATE, and without O_TRUNC.
NewSimpleFileWAL ==
    /\ ~open
    /\ open' = TRUE /\ pc' = "idle" /\ offset' = "start" /\ read' = <<>>
    /\ UNCHANGED <<rec, file, disk, acked, since>>

\* Write(height, r) up to its first system call; the height is not used.
WriteSeek(r) ==
    /\ open /\ pc = "idle"
    /\ rec' = r /\ pc' = "truncate" /\ offset' = "start"
    /\ since' = since \cup {r} /\ read' = <<>>
    /\ UNCHANGED <<open, file, disk, acked>>

\* Mutant of WriteTruncate: the old contents stay.
WriteNoTruncate ==
    /\ pc = "truncate"
    /\ pc' = "write"
    /\ UNCHANGED <<open, rec, file, offset, disk, read, acked, since>>

WriteTruncate ==
    /\ pc = "truncate"
    /\ Changed(<<>>)
    /\ pc' = "write"
    /\ UNCHANGED <<open, rec, offset, read, acked, since>>

\* The bytes go to the end of the file. If not all of them do, Write returns an
\* error and leaves what was written. A crash may leave fewer.
WriteBytes(n) ==
    /\ pc = "write" /\ n <= Size[rec]
    /\ file' = file \o Bytes(rec, n)
    /\ disk' = disk \cup {file \o Bytes(rec, k) : k \in 0..n}
    /\ offset' = "end"
    /\ pc' = IF n = Size[rec] THEN "sync" ELSE "idle"
    /\ UNCHANGED <<open, rec, read, acked, since>>

\* Mutant of WriteSync: nil is returned without a Sync.
WriteNoSync ==
    /\ pc = "sync"
    /\ pc' = "idle" /\ acked' = rec /\ since' = {}
    /\ UNCHANGED <<open, rec, file, offset, disk, read>>

WriteSync ==
    /\ pc = "sync"
    /\ disk' = {file}
    /\ pc' = "idle" /\ acked' = rec /\ since' = {}
    /\ UNCHANGED <<open, rec, file, offset, read>>

\* Seek, Truncate, Write (with nothing written) or Sync fails: Write returns the
\* error and undoes nothing. What a failed Sync leaves on the disk is not known.
WriteFails ==
    /\ pc # "idle"
    /\ pc' = "idle"
    /\ UNCHANGED <<open, rec, file, offset, disk, read, acked, since>>

\* Read(height): everything from the start.
Read ==
    /\ open /\ pc = "idle"
    /\ read' = <<file>>
    /\ offset' = "end"
    /\ UNCHANGED <<open, pc, rec, file, disk, acked, since>>

Close ==
    /\ open /\ pc = "idle"
    /\ open' = FALSE /\ read' = <<>>
    /\ UNCHANGED <<pc, rec, file, offset, disk, acked, since>>

\* The process stops anywhere, or the machine does.
Crash(contents) ==
    /\ open /\ contents \in disk
    /\ open' = FALSE /\ pc' = "idle" /\ read' = <<>>
    /\ file' = contents /\ disk' = {contents}
    /\ UNCHANGED <<rec, offset, acked, since>>

Next ==
    \/ NewSimpleFileWAL
    \/ \E r \in Records : WriteSeek(r)
    \/ WriteTruncate
    \/ \E n \in 0..(IF rec = NoRecord THEN 0 ELSE Size[rec]) : WriteBytes(n)
    \/ WriteSync \/ WriteFails
    \/ Read \/ Close
    \/ \E contents \in disk : Crash(contents)

Spec == Init /\ [][Next]_vars

-----------------------------------------------------------------------------
(* Properties *)

\* Contents that are part of one record of R, or nothing.
Torn(R) == {<<>>} \cup UNION {{Bytes(r, n) : n \in 0..Size[r]} : r \in R}

TypeOK ==
    /\ open \in BOOLEAN /\ pc \in {"idle", "truncate", "write", "sync"}
    /\ rec \in Records \cup {NoRecord} /\ offset \in {"start", "end"}
    /\ file \in disk /\ acked \in Records \cup {NoRecord} /\ since \subseteq Records

\* What Write acknowledged is all that is in the file, survives any crash, also
\* one after further crashes and restarts, and is what Read returns, until the
\* next Write begins.
AckedIsDurable ==
    /\ acked # NoRecord /\ since = {} => disk = {Whole(acked)} /\ file = Whole(acked)
    /\ read # <<>> => read = <<file>>

\* However Write fails and wherever a crash comes, the log never shows a mix of
\* two records: it is empty or the beginning of a record whose Write began after
\* the last acknowledged one, or it still is that one, whole.
NeverMixed == \A c \in disk : c \in Torn(since) \/ (acked # NoRecord /\ c = Whole(acked))
=============================================================================
