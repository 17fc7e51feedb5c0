----------------------------- MODULE SafePublish -----------------------------
(***************************************************************************)
(* publish_phonebook_xml and safe_phonebook_file_operation: how the        *)
(* fetcher and the status updater replace the public phonebook.  They hold *)
(* phonebook_file_mutex; the passive safety thread, which sweeps away the  *)
(* files a publication leaves behind, does not, and readers of the public  *)
(* file hold nothing.  The process may die between any two steps.          *)
(*                                                                         *)
(* A file is what its readers and stat tell apart: the content it was      *)
(* copied from, how much of it arrived, and the second of its last write.  *)
(* Sizes count in units of the 50 bytes below which a phonebook is taken   *)
(* for corrupt.                                                            *)
(***************************************************************************)
EXTENDS Naturals

CONSTANTS
    Publishers,  \* threads that publish: the fetcher and the status updater
    NoOne,       \* nobody holds the mutex
    Data,        \* contents of a phonebook
    Nothing,     \* there is no such content
    SizeOf,      \* size of a whole file of each content
    MaxTime,     \* bound of the clock
    Faults,      \* what may fail: "copy", "rename", or "flush", whose result is not read
    Sweeping     \* whether the passive safety thread runs

ASSUME SafePublishAssumption ==
    /\ NoOne \notin Publishers
    /\ Nothing \notin Data
    /\ SizeOf \in [Data -> Nat \ {0}]
    /\ MaxTime \in Nat
    /\ Faults \subseteq {"copy", "rename", "flush"}
    /\ Sweeping \in BOOLEAN

VARIABLES
    dest,      \* the public phonebook
    backup,    \* its name with .backup
    temp,      \* its name with .temp
    now,       \* the clock of the file system, in seconds
    op,        \* the publication that runs: locals of safe_phonebook_file_operation
    sweep,     \* the file the passive safety thread removes next
    up         \* whether the process runs

vars == <<dest, backup, temp, now, op, sweep, up>>

File == [data : Data, size : Nat, mtime : 0..MaxTime]
Absent == [data |-> Nothing, size |-> 0, mtime |-> 0]

Whole(f) == f.size = SizeOf[f.data]
Stat(f) == [size |-> f.size, mtime |-> f.mtime]

\* Who holds phonebook_file_mutex and the step it is at; what it publishes and what
\* was public before (a history); had_existing_file, pre_stat and file_size.
NoOperation ==
    [holder |-> NoOne, pc |-> "idle", source |-> Nothing, replaced |-> Nothing,
     had |-> FALSE, pre |-> Stat(Absent), measured |-> 0, result |-> "none"]

At(step) == op.pc = step
Go(step) == op' = [op EXCEPT !.pc = step]
Return(r) == op' = [op EXCEPT !.pc = "unlock", !.result = r]
Files(d, b, t) == dest' = d /\ backup' = b /\ temp' = t

-----------------------------------------------------------------------------
(* file_utils_copy_file: fopen truncates or creates the destination; what   *)
(* is written reaches the file unless the name was removed meanwhile.       *)

Written(d, n) == [data |-> d, size |-> n, mtime |-> now]
Into(f, new) == IF f = Absent THEN Absent ELSE new

CutShort(d) == {Written(d, n) : n \in 0..(SizeOf[d] - 1)}
Copied(d) ==
    {Written(d, SizeOf[d])} \cup (IF "flush" \in Faults THEN CutShort(d) ELSE {})

-----------------------------------------------------------------------------
(* One publication, under the mutex *)

Lock(p, d) ==
    /\ op.holder = NoOne
    /\ op' = [NoOperation EXCEPT !.holder = p, !.pc = "backup", !.source = d,
                                 !.replaced = dest.data]
    /\ Files(dest, backup, temp)

\* The public directory cannot be made: nothing was touched.
NoDirectory ==
    /\ At("backup") /\ "copy" \in Faults
    /\ Return("failed")
    /\ Files(dest, backup, temp)

\* Mutant: the public file is renamed to the backup.
OpenBackupMoving ==
    /\ At("backup")
    /\ \/ dest = Absent /\ Go("copy") /\ Files(dest, backup, temp)
       \/ dest # Absent /\ Go("copy") /\ Files(Absent, dest, temp)

\* Mutant: a backup that is there is kept.
OpenBackupOnce ==
    /\ At("backup")
    /\ \/ /\ dest = Absent \/ backup # Absent
          /\ Go("copy")
          /\ Files(dest, backup, temp)
       \/ /\ dest # Absent /\ backup = Absent
          /\ op' = [op EXCEPT !.pc = "fill_backup", !.had = TRUE, !.pre = Stat(dest)]
          /\ Files(dest, Written(dest.data, 0), temp)

\* Step 1: a backup of the public file, if there is one.
OpenBackup ==
    /\ At("backup")
    /\ \/ /\ dest = Absent
          /\ Go("copy")
          /\ Files(dest, backup, temp)
       \/ /\ dest # Absent
          /\ op' = [op EXCEPT !.pc = "fill_backup", !.had = TRUE, !.pre = Stat(dest)]
          /\ Files(dest, Written(dest.data, 0), temp)

FillBackup ==
    /\ At("fill_backup")
    /\ \/ /\ Go("copy")
          /\ \E f \in Copied(dest.data) : Files(dest, Into(backup, f), temp)
       \* The copy fails: what was copied stays.
       \/ /\ "copy" \in Faults
          /\ Return("failed")
          /\ \E f \in CutShort(dest.data) : Files(dest, Into(backup, f), temp)

\* Step 2: the new phonebook is copied next to the public one.
OpenTemp ==
    /\ At("copy")
    /\ Go("fill_temp")
    /\ Files(dest, backup, Written(op.source, 0))

\* Mutant: the result of the copy is not read.
FillTempUnread ==
    /\ At("fill_temp")
    /\ Go("verify")
    /\ \E f \in Copied(op.source) \cup CutShort(op.source) :
          Files(dest, backup, Into(temp, f))

FillTemp ==
    /\ At("fill_temp")
    /\ \/ /\ Go("verify")
          /\ \E f \in Copied(op.source) : Files(dest, backup, Into(temp, f))
       \* The copy fails: the backup is removed, what was copied stays.
       \/ /\ "copy" \in Faults
          /\ Return("failed")
          /\ \E f \in CutShort(op.source) : Files(dest, Absent, Into(temp, f))

\* Step 3: the copy is there and not too small.
Verify ==
    /\ At("verify")
    /\ \/ /\ temp.size >= 1
          /\ op' = [op EXCEPT !.pc = "rename", !.measured = temp.size]
          /\ Files(dest, backup, temp)
       \/ /\ temp.size < 1
          /\ Return("failed")
          /\ Files(dest, Absent, Absent)

\* Mutant: the result of the rename is not read, and step 5 is left out.
RenameUnread ==
    /\ At("rename")
    /\ Go("keep")
    /\ IF temp # Absent THEN Files(temp, backup, Absent) ELSE Files(dest, backup, temp)

\* Step 4: the copy takes the place of the public file.
Rename ==
    /\ At("rename")
    /\ \/ /\ temp # Absent
          /\ Go("check")
          /\ Files(temp, backup, Absent)
       \/ /\ temp = Absent \/ "rename" \in Faults
          /\ Go("undo")
          /\ Files(dest, backup, temp)

\* Step 5: the same size and second as before is taken for a rename that did not
\* happen.
Unchanged == op.had /\ Stat(dest) = op.pre

Check ==
    /\ At("check")
    /\ Go(IF Unchanged \/ dest.size # op.measured THEN "undo" ELSE "keep")
    /\ Files(dest, backup, temp)

\* Step 6: the backup goes, or goes back if it is there and can be renamed.
Keep ==
    /\ At("keep")
    /\ Return("ok")
    /\ Files(dest, Absent, Absent)

RollBack ==
    /\ At("undo")
    /\ Return("failed")
    /\ \/ backup # Absent /\ Files(backup, Absent, Absent)
       \/ (backup = Absent \/ "rename" \in Faults) /\ Files(dest, Absent, Absent)

Unlock ==
    /\ At("unlock")
    /\ op' = [op EXCEPT !.holder = NoOne, !.pc = "idle"]
    /\ Files(dest, backup, temp)

Publish ==
    /\ up
    /\ \/ \E p \in Publishers, d \in Data : Lock(p, d)
       \/ NoDirectory \/ OpenBackup \/ FillBackup
       \/ OpenTemp \/ FillTemp \/ Verify
       \/ Rename \/ Check \/ Keep \/ RollBack \/ Unlock
    /\ UNCHANGED <<now, sweep, up>>

-----------------------------------------------------------------------------
(* cleanup_orphaned_phonebook_files, every five minutes and with no lock *)

Sweep ==
    /\ up /\ Sweeping
    /\ \/ sweep = "backup" /\ sweep' = "temp" /\ Files(dest, Absent, temp)
       \/ sweep = "temp" /\ sweep' = "backup" /\ Files(dest, backup, Absent)
    /\ UNCHANGED <<now, op, up>>

-----------------------------------------------------------------------------
(* The process: it dies anywhere, procd starts it again, and main deletes   *)
(* the public file before it creates the threads.                           *)

Crash ==
    /\ up /\ up' = FALSE
    /\ op' = [op EXCEPT !.holder = NoOne, !.pc = "idle", !.result = "none"]
    /\ sweep' = "backup"
    /\ Files(dest, backup, temp)
    /\ UNCHANGED now

Start ==
    /\ ~up /\ up' = TRUE
    /\ Files(Absent, backup, temp)
    /\ UNCHANGED <<now, op, sweep>>

Tick ==
    /\ now < MaxTime /\ now' = now + 1
    /\ Files(dest, backup, temp)
    /\ UNCHANGED <<op, sweep, up>>

Init ==
    /\ dest = Absent /\ backup = Absent /\ temp = Absent
    /\ now = 0
    /\ op = NoOperation
    /\ sweep = "backup"
    /\ up = TRUE

Next == Publish \/ Sweep \/ Crash \/ Start \/ Tick

Spec == Init /\ [][Next]_vars

-----------------------------------------------------------------------------
(* Properties *)

Steps ==
    {"idle", "backup", "fill_backup", "copy", "fill_temp", "verify", "rename", "check",
     "keep", "undo", "unlock"}

Operation ==
    [holder : Publishers \cup {NoOne}, pc : Steps,
     source : Data \cup {Nothing}, replaced : Data \cup {Nothing},
     had : BOOLEAN, pre : [size : Nat, mtime : 0..MaxTime], measured : Nat,
     result : {"none", "ok", "failed"}]

\* Every variable has its type; the mutex is held exactly while a publication runs.
TypeOK ==
    /\ {dest, backup, temp} \subseteq File \cup {Absent}
    /\ now \in 0..MaxTime
    /\ op \in Operation
    /\ op.holder = NoOne <=> op.pc = "idle"
    /\ sweep \in {"backup", "temp"}
    /\ up \in BOOLEAN

\* Readers take no lock: at every moment the public phonebook is missing or whole,
\* whatever fails, is swept away or dies, as long as a failed write is reported.
PublicWhole == dest # Absent => Whole(dest)

\* Once published, the phonebook never disappears until the program starts again:
\* there is no moment between two versions, or in a rollback, without a file.
PublicStays == [][dest # Absent /\ up => dest' # Absent]_vars

\* A publication that returns success has put its phonebook in place.
SuccessIsPublished ==
    At("unlock") /\ op.result = "ok" => dest.data = op.source /\ Whole(dest)

\* When a publication is over nothing is left of a rollback that was not needed:
\* after a success there is no backup that a later rollback could bring back.
SuccessLeavesNoBackup == op.result = "ok" => backup = Absent /\ temp = Absent

\* What readers see is what Publication promises them.
\* A file cut short is no version at all.
Seen == IF dest = Absent \/ Whole(dest) THEN dest.data ELSE dest
Public == INSTANCE Publication
    WITH shown <- Seen, offered <- op.source, replaced <- op.replaced, running <- up
PublicSpec == Public!Spec

-----------------------------------------------------------------------------
(* What the sources say, and the code does not do *)

\* passive_safety.c:120, "Never corrupt phonebook data": checked with a write that
\* fails in fflush, and with a rename that fails after a crash has left a backup.
NeverCorrupt == PublicWhole

\* The functional specification, "Automatic rollback on failure": a publication
\* that returns failure has left the phonebook as it was.
FailureKeepsOld == At("unlock") /\ op.result = "failed" => dest.data = op.replaced

\* The functional specification, "Temporary files cleaned up on all code paths".
TempsCleaned == up /\ At("idle") => backup = Absent /\ temp = Absent

\* passive_safety.c:88, "Remove any leftover backup/temp files": the sweep leaves
\* the files of a running publication alone.
SweepsOrphansOnly == [][Sweep => op.holder = NoOne \/ UNCHANGED <<backup, temp>>]_vars

\* passive_safety.c:189, "Verify the rename actually worked": without a failure and
\* without the sweep, a publication succeeds.
PublishSucceeds == op.result # "failed"
=============================================================================
