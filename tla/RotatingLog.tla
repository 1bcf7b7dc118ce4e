----------------------------- MODULE RotatingLog -----------------------------
(***************************************************************************)
(* service/logging.go: the size-bounded log file and its numbered backups. *)
(*                                                                         *)
(* Write holds the mutex, so writers do not interleave; what interferes    *)
(* with a rotation is the file system, where every operation may fail (a   *)
(* viewer holds a backup open, the boundary check refuses), and the end of *)
(* the process between any two of them.  log.Printf ignores the error.     *)
(***************************************************************************)
EXTENDS Naturals, Sequences

CONSTANTS Backups,    \* numbered backups kept (5 in the source)
          Limit,      \* bytes per file (5 MiB in the source), in units
          MaxWrites,  \* bound: messages logged in a behaviour
          MaxFailures \* bound: failed file operations and crashes

ASSUME LogAssumption ==
  /\ Backups \in Nat \ {0} /\ Limit \in Nat \ {0}
  /\ MaxWrites \in Nat /\ MaxFailures \in Nat

Slots == 0..Backups     \* agent.log is 0, agent.log.n is n
Lengths == 1..(Limit + 1)

VARIABLES
  exists,   \* the files that exist
  lines,    \* messages in each file, numbered in the order of writing
  bytes,    \* size of each file
  file,     \* w.file: nil, open, or dead (closed, but not nil)
  size,     \* w.size
  control,  \* control point of Write
  len,      \* length of the message being written, 0 for none
  slot,     \* the loop variable of rotateFiles
  writes,   \* messages so far; the number of the current one
  failures, \* faults so far
  outcome   \* the last Write: none (not finished), ok or lost

disk == <<exists, lines, bytes>>
handle == <<file, size>>
logVars == <<disk, handle, control, len, slot, writes, failures, outcome>>

LogTypeOK ==
  /\ exists \subseteq Slots
  /\ lines \in [Slots -> Seq(1..MaxWrites)]
  /\ bytes \in [Slots -> Nat]
  /\ file \in {"nil", "open", "dead"}
  /\ size \in Nat
  /\ control \in {"down", "idle", "open", "check", "rotate", "remove", "rename", "reopen", "append"}
  /\ len \in Lengths \cup {0}
  /\ slot \in Slots
  /\ writes \in 0..MaxWrites
  /\ failures \in 0..MaxFailures
  /\ outcome \in {"none", "ok", "lost"}

LogInit ==
  /\ exists = {}
  /\ lines = [s \in Slots |-> <<>>] /\ bytes = [s \in Slots |-> 0]
  /\ file = "nil" /\ size = 0
  /\ control = "down" /\ len = 0 /\ slot = 0
  /\ writes = 0 /\ failures = 0 /\ outcome = "none"

-----------------------------------------------------------------------------
LogFault == failures < MaxFailures /\ failures' = failures + 1
NoLogFault == UNCHANGED failures

\* Write returns; the message is in the file or it is not.
WriteReturns(result) ==
  /\ control' = "idle" /\ len' = 0 /\ slot' = 0
  /\ outcome' = result

\* open(): append to agent.log, creating it, and take its size.
open ==
  /\ exists' = exists \cup {0}
  /\ file' = "open" /\ size' = bytes[0]
  /\ UNCHANGED <<lines, bytes>>

\* newRotatingLog at the start of the process; without a log it does not start.
Start ==
  /\ control = "down"
  /\ open
  /\ control' = "idle"
  /\ NoLogFault
  /\ UNCHANGED <<len, slot, writes, outcome>>

\* Mutant: A handle that is nil is not opened again.
WriteUnopened(n) ==
  /\ control = "idle" /\ writes < MaxWrites
  /\ writes' = writes + 1
  /\ len' = n
  /\ control' = "check"
  /\ outcome' = "none"
  /\ NoLogFault
  /\ UNCHANGED <<disk, handle, slot>>

\* Write takes the mutex.
Write(n) ==
  /\ control = "idle" /\ writes < MaxWrites
  /\ writes' = writes + 1
  /\ len' = n
  /\ control' = IF file = "nil" THEN "open" ELSE "check"
  /\ outcome' = "none"
  /\ NoLogFault
  /\ UNCHANGED <<disk, handle, slot>>

\* A handle that an earlier rotation left nil is opened again; the open at the
\* end of a rotation is followed by the write whatever the size is.
Open ==
  /\ control \in {"open", "reopen"}
  /\ \/ /\ NoLogFault /\ open
        /\ control' = IF control = "open" THEN "check" ELSE "append"
        /\ UNCHANGED <<len, slot, outcome>>
     \/ /\ LogFault /\ WriteReturns("lost")
        /\ UNCHANGED <<disk, handle>>
  /\ UNCHANGED writes

\* The message must fit behind what is there.
fits == size + len <= Limit

Check ==
  /\ control = "check"
  /\ control' = IF fits THEN "append" ELSE "rotate"
  /\ NoLogFault
  /\ UNCHANGED <<disk, handle, len, slot, writes, outcome>>

\* Mutant: The shift starts one slot too early.
RotateTooNear ==
  /\ control = "rotate" /\ NoLogFault /\ file = "open"
  /\ file' = "nil"
  /\ control' = "remove" /\ slot' = Backups - 1
  /\ UNCHANGED <<disk, size, len, writes, outcome>>

\* rotate(): the boundary check, then Close of the handle.  A failed Close has
\* closed it all the same, and the next one fails for that reason.
Rotate ==
  /\ control = "rotate"
  /\ \/ /\ NoLogFault /\ file = "open"
        /\ file' = "nil"
        /\ control' = "remove" /\ slot' = Backups
        /\ UNCHANGED <<len, outcome>>
     \/ /\ NoLogFault /\ file # "open"
        /\ WriteReturns("lost") /\ UNCHANGED file
     \/ /\ LogFault
        /\ file' \in {file, "dead"}
        /\ WriteReturns("lost")
  /\ UNCHANGED <<disk, size, writes>>

\* The older file makes room ...
Remove ==
  /\ control = "remove"
  /\ \/ /\ NoLogFault
        /\ exists' = exists \ {slot}
        /\ lines' = [lines EXCEPT ![slot] = <<>>]
        /\ bytes' = [bytes EXCEPT ![slot] = 0]
        /\ control' = "rename"
        /\ UNCHANGED <<len, slot, outcome>>
     \/ LogFault /\ WriteReturns("lost") /\ UNCHANGED disk
  /\ UNCHANGED <<handle, writes>>

\* ... for the next younger one, if that exists.
Shift ==
  IF slot - 1 \in exists
  THEN /\ exists' = (exists \ {slot - 1}) \cup {slot}
       /\ lines' = [lines EXCEPT ![slot] = lines[slot - 1], ![slot - 1] = <<>>]
       /\ bytes' = [bytes EXCEPT ![slot] = bytes[slot - 1], ![slot - 1] = 0]
  ELSE UNCHANGED disk

Rename ==
  /\ control = "rename"
  /\ \/ /\ NoLogFault /\ Shift
        /\ slot' = slot - 1
        /\ control' = IF slot = 1 THEN "reopen" ELSE "remove"
        /\ UNCHANGED <<len, outcome>>
     \/ LogFault /\ WriteReturns("lost") /\ UNCHANGED disk
  /\ UNCHANGED <<handle, writes>>

\* The message, cut to the limit, or a part of it when the write fails.
Append0(n) ==
  /\ lines' = [lines EXCEPT ![0] = IF n = 0 THEN @ ELSE Append(@, writes)]
  /\ bytes' = [bytes EXCEPT ![0] = @ + n]
  /\ size' = size + n

AppendLine ==
  /\ control = "append"
  /\ LET cut == IF len > Limit THEN Limit ELSE len IN
     \/ /\ NoLogFault /\ file = "open"
        /\ Append0(cut) /\ WriteReturns("ok")
     \/ /\ NoLogFault /\ file # "open"
        /\ Append0(0) /\ WriteReturns("lost")
     \/ /\ LogFault /\ file = "open"
        /\ \E n \in 0..(cut - 1) : Append0(n)
        /\ WriteReturns("lost")
  /\ UNCHANGED <<exists, file, writes>>

\* The process ends, orderly between two messages (Close) or in the middle.
Stop ==
  /\ control # "down"
  /\ IF control = "idle" THEN NoLogFault ELSE LogFault
  /\ file' = "nil" /\ size' = 0
  /\ control' = "down" /\ len' = 0 /\ slot' = 0
  /\ UNCHANGED <<disk, writes, outcome>>

LogNext ==
  \/ \E n \in Lengths : Write(n)
  \/ Start \/ Open \/ Check \/ Rotate \/ Remove \/ Rename \/ AppendLine \/ Stop

LogSpec == LogInit /\ [][LogNext]_logVars

\* File operations return: a Write that has begun is carried to its end.
LogFairSpec == LogSpec /\ WF_logVars(Open \/ Check \/ Rotate \/ Remove \/ Rename \/ AppendLine)

-----------------------------------------------------------------------------
(* Properties.                                                             *)

Ids(s) == {lines[s][i] : i \in 1..Len(lines[s])}

\* The numbers of the backups are their age: every message of a file is younger
\* than every message of a file with a higher number, also when rotations fail
\* half way (logging.go:113-125) and are repeated, which leaves gaps.  And the
\* log cannot fill the disk: no file is larger than the limit, and the size in
\* memory is that of the file, although a failed rotation closes and reopens it
\* and a failed write leaves a part behind (logging.go:132-147).
Intact ==
  /\ LogTypeOK
  /\ \A s, t \in Slots : s < t => \A a \in Ids(s), b \in Ids(t) : a > b
  /\ \A s \in Slots : bytes[s] <= Limit
  /\ file = "open" => 0 \in exists /\ size = bytes[0]

\* The log is intact, and only its oldest backup is ever given up: a message
\* leaves the disk from the last slot, and no message of an older file remains.
LogIntact ==
  /\ []Intact
  /\ [][\A s \in Slots, a \in 1..MaxWrites :
       a \in Ids(s) /\ (\A t \in Slots : a \notin Ids(t)') =>
         s = Backups /\ \A t \in Slots : \A b \in Ids(t)' : b > a]_logVars

\* An interrupted rotation is repaired by the next write: whatever the earlier
\* failures and crashes left on the disk and in memory, a message written once
\* the file system works again reaches the log.  The exception is a handle
\* whose Close failed (logging.go:109): it stays unusable for this process.
WritesRecover ==
  (control \in {"open", "check"} /\ file # "dead" /\ failures = MaxFailures) ~> outcome = "ok"
=============================================================================
