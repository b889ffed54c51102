--------------------------- MODULE LogConversion ---------------------------
(***************************************************************************)
(* caddylog, which follows the access log of Caddy and writes each entry   *)
(* in the format of goaccess (cmd/caddylog/main.go), and the container     *)
(* that starts it (services/goaccess/docker-compose.yml).                  *)
(*                                                                         *)
(* Entries are numbered in the order in which Caddy writes them; Caddy     *)
(* renames the log when it is full and starts a new file.  The formats,    *)
(* and lines of other loggers, are left out.                               *)
(***************************************************************************)
EXTENDS Integers, SequencesExt

CONSTANTS
  MaxEntries, MaxFiles,  \* bounds: entries and log files
  MaxRestarts            \* bound: starts of the container

VARIABLES
  logs,      \* the log files, the current one last, as the entries in each
  half,       \* the last entry of the current file is not complete
  reading,    \* the file that is open, as its index in files
  inode,      \* the file that the program believes is open
  offset,     \* the entries of it that have been read
  torn,       \* the first half of the next entry has been read as a line
  loop,         \* where the loop is: "read", "eof" or "sleep"
  out,        \* the output file
  missed,     \* entries that were read in halves, or not before a rotation
  restarts

reader == <<reading, inode, offset, torn, loop>>
logVars == <<logs, half, reader, out, missed, restarts>>

Current == Len(logs)
Written == Cardinality(UNION {ToSet(logs[i]) : i \in DOMAIN logs})

ConvertInit ==
  /\ logs = <<<<>>>> /\ half = FALSE
  /\ reading = 1 /\ inode = 1 /\ offset = 0 /\ torn = FALSE /\ loop = "read"
  /\ out = <<>> /\ missed = {} /\ restarts = 0

-----------------------------------------------------------------------------
(* Caddy                                                                   *)

\* A line becomes visible in one piece or in two.
WriteEntry ==
  /\ \/ half /\ half' = FALSE /\ UNCHANGED logs
     \/ /\ ~half /\ Written < MaxEntries
        /\ logs' = [logs EXCEPT ![Current] = Append(@, Written + 1)]
        /\ half' \in BOOLEAN
  /\ UNCHANGED <<reader, out, missed, restarts>>

Rotate ==
  /\ ~half /\ Current < MaxFiles
  /\ logs' = Append(logs, <<>>)
  /\ UNCHANGED <<half, reader, out, missed, restarts>>

-----------------------------------------------------------------------------
(* run                                                                     *)

\* The next entry of the open file, if its end has not been reached.
Unread == offset < Len(logs[reading])
IsHalf == half /\ reading = Current /\ offset = Len(logs[reading]) - 1

\* ReadString returns a line, or what there is of it at the end of the file;
\* neither half of an entry decodes.
ReadLine ==
  /\ loop = "read" /\ Unread /\ ~(IsHalf /\ torn)
  /\ LET entry == logs[reading][offset + 1]
     IN IF IsHalf THEN torn' = TRUE /\ UNCHANGED <<offset, out, missed>>
        ELSE /\ offset' = offset + 1 /\ torn' = FALSE
             /\ out' = IF torn THEN out ELSE Append(out, entry)
             /\ missed' = IF torn THEN missed \cup {entry} ELSE missed
  /\ UNCHANGED <<logs, half, reading, inode, loop, restarts>>

AtEnd ==
  /\ loop = "read" /\ (~Unread \/ (IsHalf /\ torn))
  /\ loop' = "eof"
  /\ UNCHANGED <<logs, half, reading, inode, offset, torn, out, missed, restarts>>

\* What lies between the offset and the current file is never read.
LeftBehind ==
  LET rest == SubSeq(logs[reading], offset + 1, Len(logs[reading]))
  IN ToSet(rest) \cup UNION {ToSet(logs[i]) : i \in (reading + 1)..(Current - 1)}

KeptInode == inode       \* mutant: the inode of the first file is kept
OpenedInode == Current

\* The name leads to another file than the open one: it is opened from its
\* start.  Otherwise, and when there is no file of that name for a moment,
\* the program sleeps.
CheckRotation ==
  /\ loop = "eof"
  /\ \/ /\ Current # inode
        /\ missed' = missed \cup LeftBehind
        /\ reading' = Current /\ inode' = OpenedInode
        /\ offset' = 0 /\ torn' = FALSE
        /\ loop' = "read"
     \/ loop' = "sleep" /\ UNCHANGED <<reading, inode, offset, torn, missed>>
  /\ UNCHANGED <<logs, half, out, restarts>>

Wake ==
  /\ loop = "sleep"
  /\ loop' = "read"
  /\ UNCHANGED <<logs, half, reading, inode, offset, torn, out, missed, restarts>>

\* The container starts again: it converts the rotated logs one after the
\* other and then the current one, and each time the program empties the
\* output first.
Restart ==
  /\ restarts < MaxRestarts
  /\ restarts' = restarts + 1
  /\ out' = <<>> /\ missed' = {}
  /\ reading' = Current /\ inode' = Current
  /\ offset' = 0 /\ torn' = FALSE /\ loop' = "read"
  /\ UNCHANGED <<logs, half>>

ConvertNext ==
  \/ WriteEntry
  \/ Rotate
  \/ ReadLine
  \/ AtEnd
  \/ CheckRotation
  \/ Wake
  \/ Restart

ConvertSpec == ConvertInit /\ [][ConvertNext]_logVars
-----------------------------------------------------------------------------
\* Followed over any number of rotations, the output has every entry once and
\* in order up to the last one, but for those that Caddy had written by half
\* when they were read and those it added between the last read of a file and
\* the look at its name.
ConvertedInOrder ==
  /\ \A i \in 1..(Len(out) - 1) : out[i] < out[i + 1]
  /\ out # <<>> => \A n \in Head(out)..Last(out) : n \in ToSet(out) \cup missed
=============================================================================
