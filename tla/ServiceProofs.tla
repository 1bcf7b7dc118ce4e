----------------------------- MODULE ServiceProofs -----------------------------
(***************************************************************************)
(* Proofs about the files of the service: the identity, for any number of  *)
(* faults, crashes, reruns and outside edits of its migration, and the     *)
(* log, for any number of backups, writes, faults and crashes.             *)
(***************************************************************************)
EXTENDS KeyMigration, RotatingLog, SequenceTheorems, TLAPS

\* Control points reached only with a legacy identity in memory.
Migrating == {"backup", "backupWrite", "backupCheck", "protect", "recheck"} \cup Late

\* Control points behind the verified backup.
BackedUp == {"protect", "recheck"} \cup Late

\* Control points at which nothing has been written to the identity yet.
Untouched == {"read"} \cup Early \cup {"recheckEnroll", "replace"}

\* Memory, backup and identity agree at each control point.
BackupInv ==
  /\ BackupCoversReplacement
  /\ pc \in Migrating => original \in Legacy
  /\ pc \in BackedUp => backup = original
  /\ pc = "backupWrite" => backup = "absent"

\* Without outside edits: who wrote the identity last, and what was reported.
QuietInv ==
  /\ {identity, before} \subseteq {"legacy", "machine"}
  /\ backup # "foreign"
  /\ pc \notin {"read", "done", "killed"} => original = before
  /\ pc \in Untouched => identity = before
  /\ pc = "verify" => identity = candidate(original)
  /\ VerdictTruthful

\* An early edit is still in place.
EditInv ==
  /\ EditNotOverwritten
  /\ pc \in Early => identity \in {original, "foreign"}
  /\ edited = "before" => pc \in Early \cup Idle /\ (pc \in Early => original # "foreign")

IInv == TypeOK /\ BackupInv /\ (edits = 0 => QuietInv) /\ EditInv

\* Every initial state satisfies the invariant.
LEMMA InitInv == Init => IInv
BY MigrationAssumption DEF Init, IInv, TypeOK, BackupInv, QuietInv, EditInv,
   BackupCoversReplacement, EditNotOverwritten, VerdictTruthful, candidate,
   Bytes, Legacy, Migrated, Early, Late, Idle, Rollback, Migrating, BackedUp, Untouched

\* Every step of the command, a crash, a rerun and an edit preserve it.
LEMMA StepInv == IInv /\ [Next]_vars => IInv'
<1> SUFFICES ASSUME IInv, [Next]_vars PROVE IInv'
  OBVIOUS
<1> USE MigrationAssumption DEF IInv, TypeOK, BackupInv, QuietInv, EditInv,
    BackupCoversReplacement, EditNotOverwritten, VerdictTruthful, candidate,
    Bytes, Legacy, Migrated, Early, Late, Idle, Rollback, Migrating, BackedUp,
    Untouched, files, memory, history, vars, Goto, Return, Fault, NoFault
<1>1. CASE ReadIdentity
  BY <1>1 DEF ReadIdentity
<1>2. CASE ReadEnrollment
  BY <1>2 DEF ReadEnrollment, BoundTo
<1>3. CASE ReadBackup
  BY <1>3 DEF ReadBackup
<1>4. CASE WriteBackup
  BY <1>4 DEF WriteBackup
<1>5. CASE CheckBackup
  BY <1>5 DEF CheckBackup
<1>6. CASE Protect
  BY <1>6 DEF Protect
<1>7. CASE Recheck
  BY <1>7 DEF Recheck
<1>8. CASE RecheckEnrollment
  BY <1>8 DEF RecheckEnrollment
<1>9. CASE Replace
  BY <1>9 DEF Replace
<1>10. CASE ReadBack
  BY <1>10 DEF ReadBack
<1>11. CASE VerifyPublished
  BY <1>11 DEF VerifyPublished
<1>12. CASE RollbackRead
  BY <1>12 DEF RollbackRead
<1>13. CASE RollbackWrite
  BY <1>13 DEF RollbackWrite
<1>14. CASE RollbackCheck
  BY <1>14 DEF RollbackCheck
<1>15. CASE Crash
  BY <1>15 DEF Crash
<1>16. CASE Rerun
  BY <1>16 DEF Rerun
<1>17. CASE Edit
  BY <1>17 DEF Edit
<1>18. CASE UNCHANGED vars
  BY <1>18
<1>19. QED
  BY <1>1, <1>2, <1>3, <1>4, <1>5, <1>6, <1>7, <1>8, <1>9,
     <1>10, <1>11, <1>12, <1>13, <1>14, <1>15, <1>16, <1>17, <1>18
     DEF Next, Step

\* The invariant of the whole migration, faults, crashes and edits included.
THEOREM MigrationInductive == Spec => []IInv
<1>1. Init => IInv
  BY InitInv
<1>2. IInv /\ [Next]_vars => IInv'
  BY StepInv
<1> QED
  BY <1>1, <1>2, PTL DEF Spec

\* However often migratePrivateKeyProtection fails, is killed or is run again,
\* and whatever edits the files meanwhile, a migrated identity always stands
\* beside a backup of the very bytes it replaced.
THEOREM BackupAlwaysCovers == Spec => []BackupCoversReplacement
<1>1. IInv => BackupCoversReplacement
  BY DEF IInv, BackupInv
<1> QED
  BY <1>1, MigrationInductive, PTL

\* Without outside edits no report of the command, rollbackPrivateKey's
\* included, claims more than the files show.
THEOREM VerdictsAreTruthful == Spec => []VerdictTruthful
<1>1. IInv => VerdictTruthful
  BY DEF IInv, QuietInv, VerdictTruthful
<1> QED
  BY <1>1, MigrationInductive, PTL

\* An identity edited before the last check is never replaced by the candidate
\* or by a rollback.
THEOREM EditsSurvive == Spec => []EditNotOverwritten
<1>1. IInv => EditNotOverwritten
  BY DEF IInv, EditInv
<1> QED
  BY <1>1, MigrationInductive, PTL

\* No step, ambiguous failures included, changes a backup that exists.
THEOREM BackupNeverChanges == Spec => BackupIsFinal
<1>1. IInv /\ [Next]_vars => [backup # "absent" => backup' = backup]_vars
  <2> SUFFICES ASSUME IInv, Next, backup # "absent" PROVE backup' = backup
    BY DEF vars
  <2>1. CASE WriteBackup
    BY <2>1 DEF WriteBackup, IInv, BackupInv
  <2>2. CASE ~WriteBackup
    BY <2>2 DEF Next, Step, ReadIdentity, ReadEnrollment, ReadBackup, CheckBackup,
       Protect, Recheck, RecheckEnrollment, Replace, ReadBack, VerifyPublished,
       RollbackRead, RollbackWrite, RollbackCheck, Crash, Rerun, Edit, files
  <2> QED
    BY <2>1, <2>2
<1> QED
  BY <1>1, MigrationInductive, PTL DEF Spec, BackupIsFinal

-----------------------------------------------------------------------------
(* The log.                                                                *)

\* A file that does not exist has no content.
Absent ==
  \A s \in Slots \ exists : lines[s] = <<>> /\ bytes[s] = 0

\* The message being written is younger than all that is in a file.
Fresh ==
  /\ control \notin {"idle", "down"} => writes \in 1..MaxWrites
  /\ \A s \in Slots : \A a \in Ids(s) :
       /\ a \in 1..writes
       /\ control \notin {"idle", "down"} => a # writes

\* The rotation works on closed files, and comes to a slot below the last only
\* with that slot's content moved on: there is nothing for it to delete.
Rotating ==
  /\ control \in {"open", "remove", "rename", "reopen"} => file = "nil"
  /\ control \in {"remove", "rename"} => slot \in 1..Backups
  /\ control = "remove" /\ slot < Backups => lines[slot] = <<>>
  /\ control = "rename" => lines[slot] = <<>> /\ bytes[slot] = 0
  /\ control = "reopen" => bytes[0] = 0

\* The message about to be written fits, whole or cut.
Fits ==
  /\ control \notin {"idle", "down"} => len \in Lengths
  /\ control = "append" /\ file = "open" =>
       size + (IF len > Limit THEN Limit ELSE len) <= Limit

LogInv == Intact /\ Absent /\ Fresh /\ Rotating /\ Fits

\* What LogIntact says of a step: only the oldest messages are given up.
OldestGoes ==
  \A s \in Slots, a \in 1..MaxWrites :
    a \in Ids(s) /\ (\A t \in Slots : a \notin Ids(t)') =>
      s = Backups /\ \A t \in Slots : \A b \in Ids(t)' : b > a

\* The slots, and that the first is agent.log.
LEMMA SlotsAre ==
  Backups \in Nat /\ Backups >= 1 /\ Slots = 0..Backups /\ 0 \in Slots
BY LogAssumption DEF Slots

\* The log is empty before the first start.
LEMMA LogStarts == ASSUME LogInit PROVE LogInv
<1> USE LogAssumption, SlotsAre DEF LogInit
<1>1. LogTypeOK
  BY EmptySeq DEF LogTypeOK
<1>2. \A s \in Slots : Ids(s) = {}
  BY DEF Ids
<1>3. Intact
  BY <1>1, <1>2 DEF Intact, Ids
<1> QED BY <1>2, <1>3 DEF LogInv, Absent, Fresh, Rotating, Fits

\* A step that leaves the contents alone, and may create an empty agent.log.
LEMMA ContentsKept ==
  ASSUME LogInv,
         Start \/ Open \/ Check \/ Rotate \/ Stop \/ UNCHANGED logVars
         \/ \E n \in Lengths : Write(n)
  PROVE  LogInv' /\ OldestGoes
<1> USE LogAssumption, SlotsAre
<1>1. lines' = lines /\ bytes' = bytes /\ exists' \in {exists, exists \cup {0}}
  BY DEF Start, Open, open, Check, Rotate, Stop, logVars, Write, disk
<1>2. \A s : Ids(s)' = Ids(s) /\ Ids(s)' = Ids(s)
  BY <1>1 DEF Ids
<1>3. /\ size \in Nat /\ bytes \in [Slots -> Nat] /\ writes \in 0..MaxWrites
      /\ failures \in 0..MaxFailures /\ len \in Lengths \cup {0} /\ slot \in Slots
      /\ exists \subseteq Slots
  BY DEF LogInv, Intact, LogTypeOK
<1>4. /\ writes' \in 0..MaxWrites /\ failures' \in 0..MaxFailures
      /\ writes' = writes \/ (writes' = writes + 1 /\ control = "idle")
  BY <1>3 DEF Start, Open, open, Check, Rotate, Stop, logVars, Write,
              disk, LogFault, NoLogFault
<1>5. LogTypeOK'
  <2>1. size' \in Nat /\ slot' \in Slots /\ len' \in Lengths \cup {0}
    BY <1>3 DEF Start, Open, open, Check, Rotate, Stop, logVars, Write,
                handle, WriteReturns
  <2>2. /\ file' \in {"nil", "open", "dead"} /\ outcome' \in {"none", "ok", "lost"}
        /\ control' \in {"down", "idle", "open", "check", "rotate", "remove", "rename", "reopen", "append"}
    BY DEF Start, Open, open, Check, Rotate, Stop, logVars, Write,
           handle, WriteReturns, LogInv, Intact, LogTypeOK
  <2> QED BY <1>1, <1>3, <1>4, <2>1, <2>2 DEF LogInv, Intact, LogTypeOK
<1>6. file' = "open" => 0 \in exists' /\ size' = bytes'[0]
  BY <1>1 DEF Start, Open, open, Check, Rotate, Stop, logVars, Write,
              handle, disk, LogInv, Intact
<1>7. Intact'
  BY <1>1, <1>2, <1>5, <1>6 DEF LogInv, Intact
<1>8. Absent'
  BY <1>1 DEF LogInv, Absent
<1>9. Fresh'
  <2>1. control' \in {"idle", "down"} \/ control \notin {"idle", "down"} \/ writes' = writes + 1
        \/ UNCHANGED <<control, writes>>
    BY DEF Start, Open, Check, Rotate, Stop, logVars, Write, WriteReturns
  <2>2. \A s \in Slots : \A a \in Ids(s) :
          a \in 1..writes /\ (control \notin {"idle", "down"} => a # writes)
    BY DEF LogInv, Fresh
  <2>3. \A a \in 1..writes : a \in 1..writes' /\ (writes' = writes + 1 => a # writes')
    BY <1>3, <1>4
  <2>4. control' \notin {"idle", "down"} => writes' \in 1..MaxWrites
    BY <1>3, <1>4, <2>1 DEF LogInv, Fresh
  <2> QED BY <1>2, <1>4, <2>1, <2>2, <2>3, <2>4 DEF Fresh
<1>10. Rotating'
  BY <1>1, <1>3 DEF Start, Open, open, Check, Rotate, Stop, logVars, Write,
                    handle, WriteReturns, LogInv, Rotating
<1>11. Fits'
  <2>1. CASE Open
    <3>1. control = "reopen" => bytes[0] = 0
      BY DEF LogInv, Rotating
    <3> QED BY <1>3, <2>1, <3>1 DEF Open, open, WriteReturns, LogInv, Fits, Lengths
  <2>2. CASE Check
    BY <1>3, <2>2 DEF Check, fits, handle, LogInv, Fits, Lengths
  <2>3. CASE Start \/ Rotate \/ Stop \/ UNCHANGED logVars
             \/ \E n \in Lengths : Write(n)
    BY <2>3 DEF Start, Rotate, Stop, logVars, Write, WriteReturns, handle,
                LogInv, Fits
  <2> QED BY <2>1, <2>2, <2>3
<1>12. OldestGoes
  BY <1>2 DEF OldestGoes
<1> QED BY <1>7, <1>8, <1>9, <1>10, <1>11, <1>12 DEF LogInv

\* The message goes to the end of agent.log, and is younger than all the others.
LEMMA LineAppended ==
  ASSUME LogInv, AppendLine PROVE LogInv' /\ OldestGoes
<1> USE LogAssumption, SlotsAre
<1>1. /\ size \in Nat /\ bytes \in [Slots -> Nat] /\ writes \in 0..MaxWrites
      /\ lines \in [Slots -> Seq(1..MaxWrites)] /\ len \in Lengths
      /\ exists \subseteq Slots /\ failures \in 0..MaxFailures
  BY DEF LogInv, Intact, LogTypeOK, AppendLine, Fits
<1>2. /\ control' = "idle" /\ len' = 0 /\ slot' = 0 /\ outcome' \in {"ok", "lost"}
      /\ UNCHANGED <<exists, file, writes>> /\ failures' \in 0..MaxFailures
      /\ control = "append"
  BY <1>1 DEF AppendLine, WriteReturns, LogFault, NoLogFault
<1> DEFINE cut == IF len > Limit THEN Limit ELSE len
<1>3. PICK n \in 0..cut : Append0(n) /\ (n # 0 => file = "open")
  <2>1. cut \in Nat /\ cut >= 1
    BY <1>1 DEF Lengths
  <2> QED BY <2>1 DEF AppendLine
<1>4. cut \in Nat /\ n \in Nat /\ n <= cut
  BY <1>1, <1>3 DEF Lengths
<1>5. /\ bytes' \in [Slots -> Nat] /\ bytes'[0] = bytes[0] + n
      /\ \A s \in Slots \ {0} : bytes'[s] = bytes[s] /\ lines'[s] = lines[s]
      /\ size' = size + n /\ size' \in Nat
  BY <1>1, <1>3, <1>4 DEF Append0
<1>6. writes \in 1..MaxWrites /\ lines[0] \in Seq(1..MaxWrites)
  BY <1>1, <1>2 DEF LogInv, Fresh
<1>7. \/ n = 0 /\ lines'[0] = lines[0]
      \/ n # 0 /\ file = "open" /\ lines'[0] = Append(lines[0], writes)
  BY <1>1, <1>3 DEF Append0
<1>8. lines' \in [Slots -> Seq(1..MaxWrites)]
  BY <1>1, <1>3, <1>6, AppendProperties DEF Append0
<1>9. /\ \A s \in Slots \ {0} : Ids(s)' = Ids(s)
      /\ Ids(0)' = IF n = 0 THEN Ids(0) ELSE Ids(0) \cup {writes}
  <2>1. \A s \in Slots \ {0} : Ids(s)' = Ids(s)
    BY <1>5 DEF Ids
  <2>2. n = 0 => Ids(0)' = Ids(0)
    BY <1>7 DEF Ids
  <2>3. n # 0 => Ids(0)' = Ids(0) \cup {writes}
    <3>1. /\ Len(Append(lines[0], writes)) = Len(lines[0]) + 1 /\ Len(lines[0]) \in Nat
          /\ \A i \in 1..Len(lines[0]) : Append(lines[0], writes)[i] = lines[0][i]
          /\ Append(lines[0], writes)[Len(lines[0]) + 1] = writes
      BY <1>6, AppendProperties, LenProperties
    <3>2. /\ \A i \in 1..(Len(lines[0]) + 1) : i \in 1..Len(lines[0]) \/ i = Len(lines[0]) + 1
          /\ \A i \in 1..Len(lines[0]) : i \in 1..(Len(lines[0]) + 1)
          /\ Len(lines[0]) + 1 \in 1..(Len(lines[0]) + 1)
      BY <3>1
    <3>3. SUFFICES ASSUME n # 0 PROVE Ids(0)' = Ids(0) \cup {writes}
      OBVIOUS
    <3>4. lines'[0] = Append(lines[0], writes)
      BY <1>7, <3>3
    <3>5. ASSUME NEW a \in Ids(0)' PROVE a \in Ids(0) \cup {writes}
      BY <3>1, <3>2, <3>4, <3>5 DEF Ids
    <3>6. ASSUME NEW a \in Ids(0) \cup {writes} PROVE a \in Ids(0)'
      <4>1. CASE a = writes
        BY <3>1, <3>2, <3>4, <4>1 DEF Ids
      <4>2. CASE a \in Ids(0)
        BY <3>1, <3>2, <3>4, <4>2 DEF Ids
      <4> QED BY <3>6, <4>1, <4>2
    <3> QED BY <3>5, <3>6
  <2> QED BY <2>1, <2>2, <2>3
<1>10. LogTypeOK'
  BY <1>1, <1>2, <1>5, <1>8 DEF LogTypeOK, LogInv, Intact
<1>11. \A s \in Slots : \A a \in Ids(s) : a \in 1..writes /\ a # writes
  BY <1>2 DEF LogInv, Fresh
<1>12. \A s, t \in Slots : s < t => \A a \in Ids(s)', b \in Ids(t)' : a > b
  <2>1. ASSUME NEW s \in Slots, NEW t \in Slots, s < t, NEW a \in Ids(s)', NEW b \in Ids(t)'
        PROVE  a > b
    <3>1. t # 0 /\ b \in Ids(t)
      BY <1>9, <2>1
    <3>2. CASE a \in Ids(s)
      BY <2>1, <3>1, <3>2 DEF LogInv, Intact, Ids
    <3>3. CASE a = writes
      BY <1>1, <1>11, <3>1, <3>3
    <3> QED BY <1>9, <2>1, <3>2, <3>3
  <2> QED BY <2>1
<1>13. /\ \A s \in Slots : bytes'[s] <= Limit
       /\ file' = "open" => 0 \in exists' /\ size' = bytes'[0]
  <2>1. file = "open" => size + cut <= Limit /\ size = bytes[0] /\ 0 \in exists
    BY <1>2 DEF LogInv, Fits, Intact
  <2>2. bytes[0] \in Nat /\ bytes[0] <= Limit /\ \A s \in Slots : bytes[s] <= Limit
    BY <1>1 DEF LogInv, Intact
  <2>3. bytes'[0] <= Limit
    BY <1>1, <1>3, <1>4, <1>5, <2>1, <2>2
  <2> QED BY <1>2, <1>5, <2>1, <2>2, <2>3
<1>14. Intact'
  BY <1>10, <1>12, <1>13 DEF Intact, Ids
<1>15. Absent'
  <2>1. file = "open" => 0 \in exists
    BY DEF LogInv, Intact
  <2>2. \A s \in Slots \ exists : s # 0 \/ n = 0
    BY <1>3, <2>1
  <2>3. ASSUME NEW s \in Slots \ exists PROVE lines'[s] = <<>> /\ bytes'[s] = 0
    <3>1. lines[s] = <<>> /\ bytes[s] = 0
      BY <2>3 DEF LogInv, Absent
    <3>2. CASE s # 0
      BY <1>5, <2>3, <3>1, <3>2
    <3>3. CASE s = 0
      BY <1>5, <1>7, <2>2, <2>3, <3>1, <3>3
    <3> QED BY <3>2, <3>3
  <2> QED BY <1>2, <2>3 DEF Absent
<1>16. Fresh'
  BY <1>2, <1>6, <1>9, <1>11 DEF Fresh
<1>17. Rotating' /\ Fits'
  BY <1>2 DEF Rotating, Fits
<1>18. OldestGoes
  BY <1>9 DEF OldestGoes
<1> QED BY <1>14, <1>15, <1>16, <1>17, <1>18 DEF LogInv

\* A step of the rotation that fails leaves the files as they are.
LEMMA RotationFails ==
  ASSUME LogInv, LogFault, WriteReturns("lost"), UNCHANGED <<disk, handle, writes>>
  PROVE  LogInv' /\ OldestGoes
<1>1. /\ lines' = lines /\ bytes' = bytes /\ exists' = exists /\ file' = file /\ size' = size
      /\ writes' = writes
      /\ control' = "idle" /\ len' = 0 /\ slot' = 0 /\ outcome' = "lost"
  BY DEF disk, handle, WriteReturns
<1>2. \A s : Ids(s)' = Ids(s) /\ Ids(s)' = Ids(s)
  BY <1>1 DEF Ids
<1>3. LogTypeOK'
  BY <1>1, LogAssumption, SlotsAre DEF LogInv, Intact, LogTypeOK, LogFault
<1>4. Intact'
  BY <1>1, <1>2, <1>3 DEF LogInv, Intact
<1>5. Fresh'
  BY <1>1, <1>2 DEF LogInv, Fresh
<1> QED BY <1>1, <1>2, <1>4, <1>5 DEF LogInv, Absent, Rotating, Fits, OldestGoes

\* A file is deleted to make room, which below the last slot is an empty one.
LEMMA OldestRemoved ==
  ASSUME LogInv, Remove PROVE LogInv' /\ OldestGoes
<1> USE LogAssumption, SlotsAre
<1>1. CASE LogFault /\ WriteReturns("lost") /\ UNCHANGED disk
  BY <1>1, RotationFails DEF Remove
<1>2. CASE ~(LogFault /\ WriteReturns("lost") /\ UNCHANGED disk)
  <2>1. /\ control = "remove" /\ slot \in 1..Backups /\ file = "nil" /\ file' = file
        /\ UNCHANGED <<writes, size, failures, len, slot, outcome>>
        /\ control' = "rename"
        /\ exists' = exists \ {slot} /\ lines' = [lines EXCEPT ![slot] = <<>>]
        /\ bytes' = [bytes EXCEPT ![slot] = 0]
    BY <1>2 DEF Remove, NoLogFault, handle, LogInv, Rotating
  <2>2. slot < Backups => lines[slot] = <<>>
    BY <2>1 DEF LogInv, Rotating
  <2>3. /\ bytes \in [Slots -> Nat] /\ lines \in [Slots -> Seq(1..MaxWrites)]
        /\ slot \in Slots /\ <<>> \in Seq(1..MaxWrites)
    BY EmptySeq DEF LogInv, Intact, LogTypeOK
  <2>4. /\ \A s \in Slots \ {slot} : lines'[s] = lines[s] /\ bytes'[s] = bytes[s]
        /\ lines'[slot] = <<>> /\ bytes'[slot] = 0
        /\ bytes' \in [Slots -> Nat] /\ lines' \in [Slots -> Seq(1..MaxWrites)]
    BY <2>1, <2>3
  <2>5. \A s \in Slots : Ids(s)' = IF s = slot THEN {} ELSE Ids(s)
    <3>1. ASSUME NEW s \in Slots \ {slot} PROVE Ids(s)' = Ids(s)
      BY <2>4, <3>1 DEF Ids
    <3>2. ASSUME NEW s \in Slots, s = slot PROVE Ids(s)' = {}
      BY <2>4, <3>2, EmptySeq DEF Ids
    <3> QED BY <3>1, <3>2
  <2>6. slot < Backups => Ids(slot) = {}
    BY <2>2 DEF Ids
  <2>7. LogTypeOK'
    BY <2>1, <2>4 DEF LogInv, Intact, LogTypeOK
  <2>8. Intact'
    <3>1. \A s, t \in Slots : s < t => \A a \in Ids(s)', b \in Ids(t)' : a > b
      BY <2>5 DEF LogInv, Intact, Ids
    <3>2. ASSUME NEW s \in Slots PROVE bytes'[s] <= Limit
      <4>1. \A u \in Slots : bytes[u] <= Limit
        BY DEF LogInv, Intact
      <4>2. bytes'[s] \in {bytes[s], 0}
        BY <2>4, <3>2
      <4> QED BY <4>1, <4>2
    <3> QED BY <2>1, <2>7, <3>1, <3>2 DEF Intact, Ids
  <2>9. Fresh'
    BY <2>1, <2>5 DEF LogInv, Fresh
  <2>10. Absent' /\ Rotating' /\ Fits'
    BY <2>1, <2>4 DEF LogInv, Absent, Rotating, Fits
  <2>11. OldestGoes
    <3>1. ASSUME NEW s \in Slots, NEW a \in Ids(s), \A t \in Slots : a \notin Ids(t)'
          PROVE  s = slot /\ slot = Backups
      BY <2>3, <2>5, <2>6, <3>1
    <3>2. ASSUME NEW a \in Ids(Backups), slot = Backups, NEW t \in Slots, NEW b \in Ids(t)'
          PROVE  b > a
      <4>1. t # Backups /\ b \in Ids(t) /\ t < Backups
        BY <2>5, <3>2
      <4> QED BY <3>2, <4>1 DEF LogInv, Intact, Ids
    <3> QED BY <3>1, <3>2 DEF OldestGoes, Ids
  <2> QED BY <2>8, <2>9, <2>10, <2>11 DEF LogInv
<1> QED BY <1>1, <1>2

\* A file gets the next older number, which no file has, and none is lost.
LEMMA FileRenamed ==
  ASSUME LogInv, Rename PROVE LogInv' /\ OldestGoes
<1> USE LogAssumption, SlotsAre
<1>1. CASE LogFault /\ WriteReturns("lost") /\ UNCHANGED disk
  BY <1>1, RotationFails DEF Rename
<1>2. CASE ~(LogFault /\ WriteReturns("lost") /\ UNCHANGED disk)
  <2>1. /\ control = "rename" /\ slot \in 1..Backups /\ file = "nil" /\ file' = file
        /\ lines[slot] = <<>> /\ bytes[slot] = 0
        /\ UNCHANGED <<writes, size, failures, len, outcome>>
        /\ slot' = slot - 1
        /\ control' = IF slot = 1 THEN "reopen" ELSE "remove"
        /\ Shift
    BY <1>2 DEF Rename, NoLogFault, handle, LogInv, Rotating
  <2>2a. PICK k \in 1..Backups, j \in 0..Backups : k = slot /\ j = slot - 1 /\ j = k - 1
    <3>1. slot - 1 \in 0..Backups
      BY <2>1
    <3> QED BY <2>1, <3>1
  <2>2. /\ k \in Slots /\ j \in Slots /\ j # k
        /\ \A s \in Slots : s < k => s = j \/ s < j
        /\ j < k /\ j < Backups
        /\ k # 1 => j \in 1..Backups
        /\ k = 1 => j = 0
    BY <2>2a
  <2>3. /\ bytes \in [Slots -> Nat] /\ lines \in [Slots -> Seq(1..MaxWrites)]
        /\ exists \subseteq Slots /\ <<>> \in Seq(1..MaxWrites)
    BY EmptySeq DEF LogInv, Intact, LogTypeOK
  <2>4. /\ lines' \in [Slots -> Seq(1..MaxWrites)] /\ bytes' \in [Slots -> Nat]
        /\ exists' \subseteq Slots
        /\ \A s \in Slots \ {k, j} :
             lines'[s] = lines[s] /\ bytes'[s] = bytes[s] /\ (s \in exists' <=> s \in exists)
        /\ lines'[k] = lines[j] /\ bytes'[k] = bytes[j]
        /\ lines'[j] = <<>> /\ bytes'[j] = 0
    <3>1. CASE j \in exists
      <4>1. /\ exists' = (exists \ {j}) \cup {k}
            /\ lines' = [lines EXCEPT ![k] = lines[j], ![j] = <<>>]
            /\ bytes' = [bytes EXCEPT ![k] = bytes[j], ![j] = 0]
        BY <2>2a, <2>1, <3>1 DEF Shift
      <4>2. lines[j] \in Seq(1..MaxWrites) /\ bytes[j] \in Nat
        BY <2>2, <2>3
      <4>3. lines' \in [Slots -> Seq(1..MaxWrites)] /\ bytes' \in [Slots -> Nat]
        BY <2>2, <2>3, <4>1, <4>2
      <4> QED BY <2>2, <2>3, <4>1, <4>3
    <3>2. CASE j \notin exists
      <4>1. lines[j] = <<>> /\ bytes[j] = 0
        BY <2>2, <3>2 DEF LogInv, Absent
      <4>2. lines' = lines /\ bytes' = bytes /\ exists' = exists
        BY <2>2a, <2>1, <3>2 DEF Shift, disk
      <4> QED BY <2>2a, <2>1, <2>2, <2>3, <4>1, <4>2
    <3> QED BY <3>1, <3>2
  <2>5. k \in exists' \/ (lines'[k] = <<>> /\ bytes'[k] = 0)
    <3>1. CASE j \in exists
      BY <2>2a, <2>1, <3>1 DEF Shift
    <3>2. CASE j \notin exists
      BY <2>2, <2>4, <3>2 DEF LogInv, Absent
    <3> QED BY <3>1, <3>2
  <2>6. /\ \A s \in Slots \ {k, j} : Ids(s)' = Ids(s)
        /\ Ids(k)' = Ids(j) /\ Ids(j)' = {} /\ Ids(k) = {}
    <3>1. ASSUME NEW s \in Slots \ {k, j} PROVE Ids(s)' = Ids(s)
      <4>1. lines'[s] = lines[s]
        BY <2>4
      <4> QED BY <4>1 DEF Ids
    <3>2. Ids(k)' = Ids(j)
      BY <2>4 DEF Ids
    <3>3. Ids(j)' = {} /\ Ids(k) = {}
      BY <2>2a, <2>1, <2>4 DEF Ids
    <3> QED BY <3>1, <3>2, <3>3
  <2>7. LogTypeOK'
    BY <2>2a, <2>1, <2>2, <2>4 DEF LogInv, Intact, LogTypeOK
  <2>8. \A s, t \in Slots : s < t => \A a \in Ids(s)', b \in Ids(t)' : a > b
    <3>1. ASSUME NEW s \in Slots, NEW t \in Slots, s < t, NEW a \in Ids(s)', NEW b \in Ids(t)'
          PROVE  a > b
      <4>1. s # j /\ t # j
        BY <2>6, <3>1
      <4>2. CASE s = k
        <5>1. t # k /\ a \in Ids(j) /\ b \in Ids(t)
          BY <2>6, <3>1, <4>1, <4>2
        <5>2. j < t
          BY <2>2a, <3>1, <4>2
        <5> QED BY <2>2, <5>1, <5>2 DEF LogInv, Intact, Ids
      <4>3. CASE t = k
        <5>1. s < j /\ s # k /\ b \in Ids(j) /\ a \in Ids(s)
          BY <2>2, <2>6, <3>1, <4>1, <4>3
        <5> QED BY <2>2, <5>1 DEF LogInv, Intact, Ids
      <4>4. CASE s # k /\ t # k
        <5>1. a \in Ids(s) /\ b \in Ids(t)
          BY <2>6, <3>1, <4>1, <4>4
        <5> QED BY <3>1, <5>1 DEF LogInv, Intact, Ids
      <4> QED BY <4>2, <4>3, <4>4
    <3> QED BY <3>1
  <2>9. Intact'
    <3>1. ASSUME NEW s \in Slots PROVE bytes'[s] <= Limit
      <4>1. \A u \in Slots : bytes[u] <= Limit
        BY DEF LogInv, Intact
      <4>2. bytes'[s] \in {bytes[s], bytes[j], 0}
        BY <2>4, <3>1
      <4> QED BY <2>2, <4>1, <4>2
    <3> QED BY <2>1, <2>7, <2>8, <3>1 DEF Intact, Ids
  <2>10. Fresh'
    <3>1. \A s \in Slots : \A a \in Ids(s)' : \E t \in Slots : a \in Ids(t)
      BY <2>2, <2>6
    <3> QED BY <2>1, <3>1 DEF LogInv, Fresh
  <2>11. Absent'
    BY <2>4, <2>5 DEF LogInv, Absent
  <2>12. Rotating' /\ Fits'
    BY <2>2a, <2>1, <2>2, <2>4 DEF LogInv, Rotating, Fits
  <2>13. OldestGoes
    <3>1. \A s \in Slots : \A a \in Ids(s) : \E t \in Slots : a \in Ids(t)'
      BY <2>2, <2>6
    <3> QED BY <3>1 DEF OldestGoes, Ids
  <2> QED BY <2>9, <2>10, <2>11, <2>12, <2>13 DEF LogInv
<1> QED BY <1>1, <1>2

\* The log is intact after every step, and a step gives up only the oldest
\* messages, for any number of backups and any size limit: whatever operations
\* fail and wherever the process ends, a rotation neither mixes up the files nor
\* deletes one that is not the last (logging.go:100-147).
THEOREM LogStaysIntact == LogSpec => LogIntact
<1>1. LogInit => LogInv
  BY LogStarts
<1>2. LogInv /\ [LogNext]_logVars => LogInv' /\ OldestGoes
  BY ContentsKept, LineAppended, OldestRemoved, FileRenamed DEF LogNext
<1>3. LogInv => Intact
  BY DEF LogInv
<1>4. LogInv /\ [LogNext]_logVars => [OldestGoes]_logVars
  BY <1>2
<1> QED BY <1>1, <1>2, <1>3, <1>4, PTL DEF LogSpec, LogIntact, OldestGoes
=============================================================================
