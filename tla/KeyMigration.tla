----------------------------- MODULE KeyMigration -----------------------------
(***************************************************************************)
(* service/private_key_migration.go: re-encryption of the identity's       *)
(* private key from user-scoped to machine-scoped DPAPI.                   *)
(*                                                                         *)
(* The command runs under the runtime lock, may fail at every file         *)
(* operation, may be killed between any two of them, and may be run again. *)
(* A file operation that reports an error may still have taken effect      *)
(* ("an OS write can fail ambiguously"); statefile.Write replaces a file   *)
(* as a whole, so no torn content exists.                                  *)
(***************************************************************************)
EXTENDS Naturals

CONSTANTS MaxFaults,   \* bound: file, DPAPI and crash faults in a behaviour
          MaxEdits     \* bound: edits of the files by something else

ASSUME MigrationAssumption == MaxFaults \in Nat /\ MaxEdits \in Nat

VARIABLES
  identity,    \* agent_config.json: legacy or foreign (user scope), or migrated
  backup,      \* the exclusive backup beside it: absent, legacy or foreign
  enrollment,  \* enrollment state: absent, bound to the identity, or other
  pc,          \* control point of migratePrivateKeyProtection
  original,    \* identity bytes read at the start of this run
  enrolled,    \* enrollment bytes read at the start of this run
  before,      \* history: the identity when this run began
  verdict,     \* what the last finished run reported
  faults,      \* faults so far
  edits,       \* edits so far
  edited       \* the identity was edited: no, before or after the last check

files == <<identity, backup, enrollment>>
memory == <<original, enrolled>>
history == <<before, edits, edited>>
vars == <<files, pc, memory, verdict, faults, history>>

Idle == {"done", "killed"}
Rollback == {"rbRead", "rbWrite", "rbCheck"}
Early == {"enroll", "backup", "backupWrite", "backupCheck", "protect", "recheck"}
Late == {"recheckEnroll", "replace", "readback", "verify"} \cup Rollback

\* Identity files: this agent's and another one's, before and after migration.
Legacy == {"legacy", "foreign"}
Migrated == {"machine", "foreignMachine"}
Bytes == Legacy \cup Migrated

\* The candidate: the same identity with its key protected for the machine.
candidate(bytes) == IF bytes = "foreign" THEN "foreignMachine" ELSE "machine"

TypeOK ==
  /\ identity \in Bytes
  /\ backup \in {"absent", "legacy", "foreign"}
  /\ enrollment \in {"absent", "bound", "other"}
  /\ pc \in {"read"} \cup Early \cup Late \cup Idle
  /\ original \in Bytes
  /\ enrolled \in {"absent", "bound", "other"}
  /\ before \in Bytes
  /\ verdict \in {"none", "refused", "already", "migrated", "unchanged", "restored", "unverified"}
  /\ faults \in 0..MaxFaults
  /\ edits \in 0..MaxEdits
  /\ edited \in {"no", "before", "after"}

\* A Service runtime that has not been migrated, enrolled or not.
Init ==
  /\ identity = "legacy"
  /\ backup = "absent"
  /\ enrollment \in {"absent", "bound"}
  /\ pc = "read"
  /\ original = "legacy"
  /\ enrolled = "absent"
  /\ before = "legacy"
  /\ verdict = "none"
  /\ faults = 0
  /\ edits = 0
  /\ edited = "no"

-----------------------------------------------------------------------------
Goto(label) == pc' = label
Fault == faults < MaxFaults /\ faults' = faults + 1
NoFault == UNCHANGED faults

\* The function returns with a report.
Return(v) == Goto("done") /\ verdict' = v

\* read, decode and decrypt the identity.
ReadIdentity ==
  /\ pc = "read"
  /\ \/ /\ NoFault
        /\ original' = identity
        /\ Goto("enroll") /\ UNCHANGED verdict
     \/ Fault /\ Return("refused") /\ UNCHANGED original
  /\ UNCHANGED <<files, enrolled, history>>

\* validateEnrollmentKeyBinding: the enrollment state names this identity.
BoundTo(bytes) == enrollment = "bound" /\ bytes \in {"legacy", "machine"}

\* The enrollment state may be missing, else it must be bound to the identity;
\* a machine-protected identity needs nothing more.
ReadEnrollment ==
  /\ pc = "enroll"
  /\ enrolled' = enrollment
  /\ \/ Fault /\ Return("refused")
     \/ /\ NoFault
        /\ IF enrollment # "absent" /\ ~BoundTo(original)
           THEN Return("refused")
           ELSE IF original \in Migrated
                THEN Return("already")
                ELSE Goto("backup") /\ UNCHANGED verdict
  /\ UNCHANGED <<files, original, history>>

\* Mutant: An existing backup is always refused, the original's too.
ReadBackupStrict ==
  /\ pc = "backup"
  /\ \/ Fault /\ Return("refused")
     \/ /\ NoFault
        /\ \/ backup = "absent" /\ Goto("backupWrite") /\ UNCHANGED verdict
           \/ backup # "absent" /\ Return("refused")
  /\ UNCHANGED <<files, memory, history>>

\* Mutant: A backup that cannot be read is taken for granted.
ReadBackupTrusting ==
  /\ pc = "backup"
  /\ \/ Fault /\ Goto("protect")
     \/ NoFault /\ Goto(IF backup = "absent" THEN "backupWrite" ELSE "backupCheck")
  /\ UNCHANGED <<files, memory, verdict, history>>

\* An existing backup must hold the original bytes.
ReadBackup ==
  /\ pc = "backup"
  /\ \/ Fault /\ Return("refused")
     \/ /\ NoFault
        /\ \/ backup = "absent" /\ Goto("backupWrite") /\ UNCHANGED verdict
           \/ backup = original /\ Goto("backupCheck") /\ UNCHANGED verdict
           \/ backup \notin {"absent", original} /\ Return("refused")
  /\ UNCHANGED <<files, memory, history>>

\* The exclusive write of the backup; a failure may leave the complete file.
WriteBackup ==
  /\ pc = "backupWrite"
  /\ \/ /\ NoFault
        /\ backup = "absent"
        /\ backup' = original
        /\ Goto("backupCheck") /\ UNCHANGED verdict
     \/ /\ Fault
        /\ backup' \in {backup, original}
        /\ Return("refused")
  /\ UNCHANGED <<identity, enrollment, memory, history>>

CheckBackup ==
  /\ pc = "backupCheck"
  /\ \/ /\ NoFault
        /\ IF backup = original
           THEN Goto("protect") /\ UNCHANGED verdict
           ELSE Return("refused")
     \/ Fault /\ Return("refused")
  /\ UNCHANGED <<files, memory, history>>

\* Machine protection of the same key, and its verification in memory.
Protect ==
  /\ pc = "protect"
  /\ \/ NoFault /\ Goto("recheck") /\ UNCHANGED verdict
     \/ Fault /\ Return("refused")
  /\ UNCHANGED <<files, memory, history>>

\* Mutant: The identity is not compared again before it is replaced.
RecheckSkipped ==
  /\ pc = "recheck"
  /\ NoFault
  /\ Goto("recheckEnroll")
  /\ UNCHANGED <<files, memory, verdict, history>>

\* The identity must still hold the original bytes ...
Recheck ==
  /\ pc = "recheck"
  /\ \/ /\ NoFault
        /\ IF identity = original
           THEN Goto("recheckEnroll") /\ UNCHANGED verdict
           ELSE Return("refused")
     \/ Fault /\ Return("refused")
  /\ UNCHANGED <<files, memory, history>>

\* ... and the enrollment state must not have changed either.
RecheckEnrollment ==
  /\ pc = "recheckEnroll"
  /\ \/ /\ NoFault
        /\ IF enrollment = enrolled
           THEN Goto("replace") /\ UNCHANGED verdict
           ELSE Return("refused")
     \/ Fault /\ Return("refused")
  /\ UNCHANGED <<files, memory, history>>

\* statefile.Write of the candidate over the identity.
Replace ==
  /\ pc = "replace"
  /\ \/ NoFault /\ identity' = candidate(original) /\ Goto("readback")
     \/ Fault /\ identity' \in {identity, candidate(original)} /\ Goto("rbRead")
  /\ UNCHANGED <<backup, enrollment, memory, verdict, history>>

ReadBack ==
  /\ pc = "readback"
  /\ \/ NoFault /\ Goto(IF identity = candidate(original) THEN "verify" ELSE "rbRead")
     \/ Fault /\ Goto("rbRead")
  /\ UNCHANGED <<files, memory, verdict, history>>

\* The published bytes are decrypted once more.
VerifyPublished ==
  /\ pc = "verify"
  /\ \/ NoFault /\ Return("migrated")
     \/ Fault /\ Goto("rbRead") /\ UNCHANGED verdict
  /\ UNCHANGED <<files, memory, history>>

\* rollbackPrivateKey: nothing to do if the original is readable in place,
\* otherwise write it back, whatever that returns, and look again.
RollbackRead ==
  /\ pc = "rbRead"
  /\ \/ /\ NoFault
        /\ IF identity = original
           THEN Return("unchanged")
           ELSE Goto("rbWrite") /\ UNCHANGED verdict
     \/ Fault /\ Goto("rbWrite") /\ UNCHANGED verdict
  /\ UNCHANGED <<files, memory, history>>

RollbackWrite ==
  /\ pc = "rbWrite"
  /\ \/ NoFault /\ identity' = original
     \/ Fault /\ identity' \in {identity, original}
  /\ Goto("rbCheck")
  /\ UNCHANGED <<backup, enrollment, memory, verdict, history>>

\* Mutant: The restoration is believed without reading the file.
RollbackUnchecked ==
  /\ pc = "rbCheck"
  /\ NoFault
  /\ Return("restored")
  /\ UNCHANGED <<files, memory, history>>

RollbackCheck ==
  /\ pc = "rbCheck"
  /\ \/ NoFault /\ Return(IF identity = original THEN "restored" ELSE "unverified")
     \/ Fault /\ Return("unverified")
  /\ UNCHANGED <<files, memory, history>>

Step == \/ ReadIdentity \/ ReadEnrollment \/ ReadBackup \/ WriteBackup \/ CheckBackup
        \/ Protect \/ Recheck \/ RecheckEnrollment \/ Replace \/ ReadBack
        \/ VerifyPublished \/ RollbackRead \/ RollbackWrite \/ RollbackCheck

\* The process dies between two steps; the operating system frees the lock.
Crash ==
  /\ pc \notin Idle
  /\ Fault
  /\ Goto("killed")
  /\ UNCHANGED <<files, memory, verdict, history>>

\* The administrator runs the command again (the lock admits one run at a time).
Rerun ==
  /\ pc \in Idle
  /\ Goto("read")
  /\ before' = identity
  /\ edited' = "no"
  /\ UNCHANGED <<files, memory, verdict, faults, edits>>

\* Something that does not take the runtime lock changes a file.
Edit ==
  /\ edits < MaxEdits
  /\ edits' = edits + 1
  /\ \/ /\ identity # "foreign"
        /\ identity' = "foreign"
        /\ edited' = IF pc \in Early THEN "before" ELSE "after"
        /\ UNCHANGED enrollment
     \/ /\ enrollment' \in {"absent", "bound", "other"} \ {enrollment}
        /\ UNCHANGED <<identity, edited>>
  /\ UNCHANGED <<backup, pc, memory, verdict, faults, before>>

Next == Step \/ Crash \/ Rerun \/ Edit

Spec == Init /\ [][Next]_vars

\* A run that is not killed goes on, and the administrator retries.
FairSpec == Spec /\ WF_vars(Step) /\ WF_vars(Rerun)

-----------------------------------------------------------------------------
(* Properties.                                                             *)

\* The bytes of the identity never leave the disk: whenever the migrated
\* identity is in place, and after every crash, the backup holds the original
\* (docs/private-key-protection.md, "Failure and recovery").
BackupCoversReplacement ==
  \A bytes \in Legacy : identity = candidate(bytes) => backup = bytes

\* A report never claims more than the files show.  "migrated": the candidate
\* is in place and backed up; "restored" and "unchanged": the original is in
\* place and backed up; "refused": it was left
\* as the run found it; "already": there was nothing to migrate.
\* (rollbackPrivateKey: "never claim restoration merely from a return code".)
VerdictTruthful ==
  pc = "done" /\ edits = 0 =>
    /\ verdict \in {"migrated", "already"} => identity = "machine" /\ backup = "legacy"
    /\ verdict \in {"unchanged", "restored"} => identity = "legacy" /\ backup = "legacy"
    /\ verdict = "refused" => identity = before

\* An identity that changed between the first read and the last check is not
\* replaced by the candidate made from the old one (private_key_migration.go:157).
EditNotOverwritten == edited = "before" => identity = "foreign"

\* The backup, once written, is never changed ("exclusive").
BackupIsFinal == [][backup # "absent" => backup' = backup]_vars

\* No sequence of faults and crashes leaves a state from which the command,
\* run again, cannot finish: unless something else edits the files, it migrates
\* the identity for good.
Converges ==
  [](edits = 0)
    => <>[](identity = "machine") /\ []<>(pc = "done" /\ verdict = "already")
=============================================================================
