-------------------------- MODULE SafePublishProofs --------------------------
(***************************************************************************)
(* What holds of a publication for any threads, phonebooks, sizes and      *)
(* clock.  As long as a failed write is reported and no rename fails by    *)
(* itself, readers see whole versions only and SafePublish implements      *)
(* Publication, although the sweep takes no lock and the process may die   *)
(* at any step.                                                            *)
(*                                                                         *)
(* The inductive invariant says what each step relies on.  Its heart is    *)
(* that a rollback never finds a backup left by an earlier life of the     *)
(* process: such a backup exists only while there is no public file, and   *)
(* then the sweep would remove it before it removes the new copy.          *)
(***************************************************************************)
EXTENDS SafePublish, TLAPS

Before == {"backup", "fill_backup", "copy", "fill_temp", "verify", "rename"}
Copying == {"fill_temp", "verify", "rename"}
Saved == {"copy", "fill_temp", "verify", "rename", "check", "keep", "undo"}

\* A backup made by this publication is a whole copy of what it replaces.
BackupIsReplaced ==
    op.had /\ op.pc \in Saved /\ backup # Absent
        => Whole(backup) /\ backup.data = op.replaced

\* Until the rename, the public file is the one that was there at the start.
OldInPlace ==
    /\ op.pc \in Before => dest.data = op.replaced
    /\ op.pc = "fill_backup" => dest # Absent /\ op.had

\* Without a public file nothing is backed up, and an older backup outlives the new copy
\* at no moment.
NothingToSave ==
    /\ op.pc = "backup" => ~op.had
    /\ ~op.had /\ op.pc \in Saved \ {"check", "keep", "undo"} => dest = Absent
    /\ ~op.had /\ op.pc \in Copying /\ temp = Absent => backup = Absent
    /\ ~op.had /\ op.pc = "undo" => backup = Absent

\* An older backup has not met the sweep yet.
StaleUnswept ==
    /\ dest = Absent /\ backup # Absent => sweep = "backup"
    /\ ~up => sweep = "backup" /\ op.pc = "idle"

\* The copy that was verified is the one that is renamed.
CopyIsSource ==
    /\ op.pc \in {"verify", "rename"} /\ temp # Absent
           => Whole(temp) /\ temp.data = op.source
    /\ op.pc = "rename" /\ temp # Absent => temp.size = op.measured
    /\ op.pc \in {"check", "keep"}
           => dest # Absent /\ Whole(dest) /\ dest.data = op.source /\ dest.size = op.measured

Outcome ==
    /\ op.pc # "idle" => op.source \in Data
    /\ op.pc \notin {"idle", "unlock"} => op.result = "none"
    /\ SuccessIsPublished /\ SuccessLeavesNoBackup

Inv ==
    /\ TypeOK /\ PublicWhole
    /\ BackupIsReplaced /\ OldInPlace /\ NothingToSave /\ StaleUnswept
    /\ CopyIsSource /\ Outcome
Reported == Faults \subseteq {"copy"}

-----------------------------------------------------------------------------
(* What a copy leaves behind *)

\* A copy that reports success has copied the whole content.
LEMMA CopiedWhole ==
    ASSUME Reported, TypeOK, NEW d \in Data, NEW f \in Copied(d)
    PROVE  f \in File /\ f # Absent /\ Whole(f) /\ f.data = d
BY SafePublishAssumption DEF Reported, TypeOK, Copied, Written, File, Absent, Whole

\* One that stops early leaves a file all the same.
LEMMA CutTyped ==
    ASSUME TypeOK, NEW d \in Data, NEW f \in CutShort(d)
    PROVE  f \in File /\ f # Absent
BY SafePublishAssumption DEF TypeOK, CutShort, Written, File, Absent

\* A file that has just been opened is there, and empty.
LEMMA OpenedTyped ==
    ASSUME TypeOK, NEW d \in Data
    PROVE  Written(d, 0) \in File /\ Written(d, 0) # Absent
BY SafePublishAssumption DEF TypeOK, Written, File, Absent

\* A file that is there has a content.
LEMMA FileTyped ==
    ASSUME NEW f \in File \cup {Absent}
    PROVE  /\ f # Absent => f \in File /\ f.data \in Data
           /\ f.size \in Nat /\ f.data \in Data \cup {Nothing}
           /\ Stat(f) \in [size : Nat, mtime : 0..MaxTime]
           /\ f.data = Nothing => f = Absent
BY SafePublishAssumption DEF File, Absent, Stat

-----------------------------------------------------------------------------
(* The locals stay well typed *)

LEMMA GoTyped ==
    ASSUME op \in Operation, NEW s \in Steps, Go(s)
    PROVE  op' \in Operation
BY DEF Operation, Go

LEMMA ReturnTyped ==
    ASSUME op \in Operation, NEW r \in {"ok", "failed"}, Return(r)
    PROVE  op' \in Operation
BY DEF Operation, Steps, Return

\* Only the start of a publication changes what is published and what it replaces.
LEMMA SourceKept ==
    ASSUME op \in Operation, (\E s \in Steps : Go(s)) \/ (\E r \in {"ok", "failed"} : Return(r))
    PROVE  op'.source = op.source /\ op'.replaced = op.replaced
BY DEF Operation, Go, Return

LEMMA LockTyped ==
    ASSUME NEW p \in Publishers, NEW d \in Data, TypeOK, Lock(p, d)
    PROVE  op' \in Operation
<1>1. dest.data \in Data \cup {Nothing}
  BY FileTyped DEF TypeOK
<1>2. Stat(Absent) \in [size : Nat, mtime : 0..MaxTime]
  BY SafePublishAssumption DEF Stat, Absent
<1> QED
  BY <1>1, <1>2, SafePublishAssumption DEF Lock, NoOperation, Operation, Steps

-----------------------------------------------------------------------------
(* The invariant *)

LEMMA InitInv == Init => Inv
BY SafePublishAssumption
   DEF Init, Inv, TypeOK, PublicWhole, BackupIsReplaced, OldInPlace, NothingToSave,
       StaleUnswept, CopyIsSource, Outcome, SuccessIsPublished, SuccessLeavesNoBackup,
       NoOperation, Operation, Steps, Absent, Stat, File, At, Before, Copying, Saved

\* Every step of a publication, of the sweep and of the process keeps it.
LEMMA StepInv ==
    ASSUME Reported, Inv, [Next]_vars
    PROVE  Inv'
<1> USE SafePublishAssumption
<1>1. /\ dest \in File \cup {Absent} /\ backup \in File \cup {Absent}
      /\ temp \in File \cup {Absent}
  BY DEF Inv, TypeOK
<1>2. /\ dest # Absent => dest.data \in Data
      /\ dest.data \in Data \cup {Nothing}
      /\ dest.data = Nothing => dest = Absent
      /\ temp.size \in Nat
      /\ Stat(dest) \in [size : Nat, mtime : 0..MaxTime]
  BY <1>1, FileTyped
<1>3. CASE Publish
  <2>0. up /\ UNCHANGED <<now, sweep, up>>
    BY <1>3 DEF Publish
  <2>1. CASE \E p \in Publishers, d \in Data : Lock(p, d)
    <3>0. PICK p \in Publishers, d \in Data : Lock(p, d)
      BY <2>1
    <3>1. TypeOK'
      <4>1. {dest, backup, temp}' \subseteq File \cup {Absent}
        BY <1>1, <1>2, <2>0, <3>0 DEF Lock, NoOperation, At, Go, Return, Files
      <4>2. op' \in Operation
        BY <3>0, LockTyped DEF Inv
      <4>3. op'.holder = NoOne <=> op'.pc = "idle"
        BY <1>1, <1>2, <2>0, <3>0 DEF Lock, NoOperation, Inv, TypeOK, Operation, At, Go, Return
      <4>q. QED
        BY <2>0, <4>1, <4>2, <4>3 DEF Inv, TypeOK
    <3>2. PublicWhole' /\ BackupIsReplaced'
      BY <1>1, <1>2, <2>0, <3>0
         DEF Lock, NoOperation, Inv, TypeOK, Operation, PublicWhole, BackupIsReplaced, OldInPlace, NothingToSave,
             Before, Saved,
             At, Go, Return, Files
    <3>3. OldInPlace'
      BY <1>1, <1>2, <2>0, <3>0
         DEF Lock, NoOperation, Inv, TypeOK, Operation, OldInPlace, Before,
             At, Go, Return, Files
    <3>4. NothingToSave' /\ StaleUnswept'
      BY <1>1, <1>2, <2>0, <3>0
         DEF Lock, NoOperation, Inv, TypeOK, Operation, OldInPlace, NothingToSave, StaleUnswept,
             Copying, Saved, Before,
             At, Go, Return, Files
    <3>5. CopyIsSource'
      BY <1>1, <1>2, <2>0, <3>0
         DEF Lock, NoOperation, Inv, TypeOK, Operation, CopyIsSource, NothingToSave, Copying,
             At, Go, Return, Files
    <3>6. Outcome'
      BY <1>1, <1>2, <2>0, <3>0
         DEF Lock, NoOperation, Inv, TypeOK, Operation, CopyIsSource, Outcome, SuccessIsPublished,
             SuccessLeavesNoBackup,
             At, Go, Return, Files
    <3>q. QED
      BY <3>1, <3>2, <3>3, <3>4, <3>5, <3>6 DEF Inv
  <2>2. CASE NoDirectory
    BY <1>1, <2>0, <2>2
       DEF NoDirectory, Inv, TypeOK, Operation, Steps, PublicWhole, BackupIsReplaced, OldInPlace,
           NothingToSave, StaleUnswept, CopyIsSource, Outcome, SuccessIsPublished,
           SuccessLeavesNoBackup, At, Go, Return, Files, Before, Copying, Saved
  <2>3. CASE OpenBackup
    <3>a. dest # Absent => Written(dest.data, 0) \in File /\ Written(dest.data, 0) # Absent
      BY <1>2, OpenedTyped DEF Inv
    <3>0. /\ op.pc = "backup" /\ op'.result = op.result
          /\ op'.holder = op.holder /\ op'.source = op.source /\ op'.replaced = op.replaced
          /\ dest' = dest /\ temp' = temp
          /\ \/ /\ dest = Absent /\ op'.pc = "copy" /\ op'.had = op.had
                /\ backup' = backup
             \/ /\ dest # Absent /\ op'.pc = "fill_backup" /\ op'.had
                /\ backup' = Written(dest.data, 0)
      <4>1. CASE dest = Absent
        BY <2>3, <4>1 DEF OpenBackup, Inv, TypeOK, Operation, At, Go, Files
      <4>2. CASE dest # Absent
        <5>1. /\ op' = [op EXCEPT !.pc = "fill_backup", !.had = TRUE, !.pre = Stat(dest)]
              /\ op.pc = "backup" /\ Files(dest, Written(dest.data, 0), temp)
          BY <2>3, <4>2 DEF OpenBackup, At
        <5> QED
          BY <4>2, <5>1 DEF Inv, TypeOK, Operation, Files
      <4> QED
        BY <4>1, <4>2
    <3>1. TypeOK'
      <4>1. {dest, backup, temp}' \subseteq File \cup {Absent}
        BY <1>1, <3>a, <3>0
      <4>2. op' \in Operation
        <5>1. CASE Go("copy")
          BY <5>1, GoTyped DEF Inv, TypeOK, Steps
        <5>2. CASE op' = [op EXCEPT !.pc = "fill_backup", !.had = TRUE, !.pre = Stat(dest)]
          BY <1>2, <5>2 DEF Inv, TypeOK, Operation, Steps
        <5> QED
          BY <2>3, <5>1, <5>2 DEF OpenBackup
      <4>3. op'.holder = NoOne <=> op'.pc = "idle"
        BY <3>0 DEF Inv, TypeOK
      <4> QED
        BY <2>0, <4>1, <4>2, <4>3 DEF Inv, TypeOK
    <3>2. PublicWhole' /\ BackupIsReplaced'
      BY <2>0, <3>a, <3>0 DEF Inv, PublicWhole, BackupIsReplaced, NothingToSave, Saved
    <3>3. OldInPlace'
      BY <2>0, <3>a, <3>0 DEF Inv, OldInPlace, Before
    <3>4. NothingToSave' /\ StaleUnswept'
      BY <2>0, <3>a, <3>0 DEF Inv, NothingToSave, StaleUnswept, OldInPlace, Before, Copying, Saved
    <3>5. CopyIsSource'
      BY <2>0, <3>a, <3>0 DEF Inv, CopyIsSource
    <3>6. Outcome'
      BY <2>0, <3>a, <3>0 DEF Inv, Outcome, SuccessIsPublished, SuccessLeavesNoBackup, At
    <3> QED
      BY <3>1, <3>2, <3>3, <3>4, <3>5, <3>6 DEF Inv
  <2>4. CASE FillBackup
    <3>a. /\ op.pc = "fill_backup" /\ dest # Absent /\ op.had
          /\ dest.data = op.replaced /\ dest.data \in Data
      BY <1>2, <2>4 DEF Inv, OldInPlace, FillBackup, At, Before
    <3>b. /\ dest' = dest /\ temp' = temp
          /\ backup' \in File \cup {Absent}
          /\ \/ /\ Go("copy")
                /\ backup' # Absent => Whole(backup') /\ backup'.data = op.replaced
             \/ Return("failed")
      <4>1. CASE Go("copy") /\ \E f \in Copied(dest.data) : Files(dest, Into(backup, f), temp)
        BY <3>a, <4>1, CopiedWhole DEF Inv, Into, Files
      <4>2. CASE /\ Return("failed")
                 /\ \E f \in CutShort(dest.data) : Files(dest, Into(backup, f), temp)
        BY <3>a, <4>2, CutTyped DEF Inv, Into, Files
      <4> QED
        BY <2>4, <4>1, <4>2 DEF FillBackup
    <3>0. /\ op'.holder = op.holder /\ op'.source = op.source /\ op'.replaced = op.replaced
          /\ op'.had = op.had
          /\ \/ /\ op'.pc = "copy" /\ op'.result = op.result
                /\ backup' # Absent => Whole(backup') /\ backup'.data = op.replaced
             \/ op'.pc = "unlock" /\ op'.result = "failed"
      <4>1. CASE /\ Go("copy")
                 /\ backup' # Absent => Whole(backup') /\ backup'.data = op.replaced
        BY <4>1 DEF Inv, TypeOK, Operation, Go
      <4>2. CASE Return("failed")
        BY <4>2 DEF Inv, TypeOK, Operation, Return
      <4> QED
        BY <3>b, <4>1, <4>2
    <3>1. TypeOK'
      <4>1. {dest, backup, temp}' \subseteq File \cup {Absent}
        BY <1>1, <3>b
      <4>2. op' \in Operation
        BY <3>b, GoTyped, ReturnTyped DEF Inv, TypeOK, Steps
      <4>3. op'.holder = NoOne <=> op'.pc = "idle"
        BY <3>a, <3>0 DEF Inv, TypeOK
      <4> QED
        BY <2>0, <4>1, <4>2, <4>3 DEF Inv, TypeOK
    <3>2. PublicWhole' /\ BackupIsReplaced'
      BY <2>0, <3>a, <3>b, <3>0 DEF Inv, PublicWhole, BackupIsReplaced, Saved
    <3>3. OldInPlace'
      BY <2>0, <3>a, <3>b, <3>0 DEF Inv, OldInPlace, Before
    <3>4. NothingToSave' /\ StaleUnswept'
      BY <2>0, <3>a, <3>b, <3>0 DEF Inv, NothingToSave, StaleUnswept, OldInPlace, Before, Copying, Saved
    <3>5. CopyIsSource'
      BY <2>0, <3>a, <3>b, <3>0 DEF Inv, CopyIsSource
    <3>6. Outcome'
      BY <2>0, <3>a, <3>b, <3>0 DEF Inv, Outcome, SuccessIsPublished, SuccessLeavesNoBackup, At
    <3> QED
      BY <3>1, <3>2, <3>3, <3>4, <3>5, <3>6 DEF Inv
  <2>5. CASE OpenTemp
    <3>1. Written(op.source, 0) \in File /\ Written(op.source, 0) # Absent
      BY <2>5, OpenedTyped DEF Inv, Outcome, OpenTemp, At
    <3> QED
      BY <2>0, <2>5, <3>1
         DEF OpenTemp, Inv, TypeOK, Operation, Steps, PublicWhole, BackupIsReplaced, OldInPlace,
           NothingToSave, StaleUnswept, CopyIsSource, Outcome, SuccessIsPublished,
           SuccessLeavesNoBackup, At, Go, Return, Files, Before, Copying, Saved
  <2>6. CASE FillTemp
    <3>a. op.pc = "fill_temp" /\ op.source \in Data
      BY <2>6 DEF Inv, Outcome, FillTemp, At
    <3>b. /\ dest' = dest
          /\ temp' \in File \cup {Absent} /\ (temp' = Absent <=> temp = Absent)
          /\ \/ /\ Go("verify") /\ backup' = backup
                /\ temp' # Absent => Whole(temp') /\ temp'.data = op.source
             \/ Return("failed") /\ backup' = Absent
      <4>1. CASE /\ Go("verify")
                 /\ \E f \in Copied(op.source) : Files(dest, backup, Into(temp, f))
        BY <3>a, <4>1, CopiedWhole DEF Inv, Into, Files
      <4>2. CASE /\ Return("failed")
                 /\ \E f \in CutShort(op.source) : Files(dest, Absent, Into(temp, f))
        BY <3>a, <4>2, CutTyped DEF Inv, Into, Files
      <4> QED
        BY <2>6, <4>1, <4>2 DEF FillTemp
    <3>0. /\ op'.holder = op.holder /\ op'.source = op.source /\ op'.replaced = op.replaced
          /\ op'.had = op.had
          /\ \/ /\ op'.pc = "verify" /\ op'.result = op.result /\ backup' = backup
                /\ temp' # Absent => Whole(temp') /\ temp'.data = op.source
             \/ op'.pc = "unlock" /\ op'.result = "failed" /\ backup' = Absent
      <4>1. CASE /\ Go("verify") /\ backup' = backup
                 /\ temp' # Absent => Whole(temp') /\ temp'.data = op.source
        BY <4>1 DEF Inv, TypeOK, Operation, Go
      <4>2. CASE Return("failed") /\ backup' = Absent
        BY <4>2 DEF Inv, TypeOK, Operation, Return
      <4> QED
        BY <3>b, <4>1, <4>2
    <3>1. TypeOK'
      <4>1. {dest, backup, temp}' \subseteq File \cup {Absent}
        BY <1>1, <3>b
      <4>2. op' \in Operation
        BY <3>b, GoTyped, ReturnTyped DEF Inv, TypeOK, Steps
      <4>3. op'.holder = NoOne <=> op'.pc = "idle"
        BY <3>a, <3>0 DEF Inv, TypeOK
      <4> QED
        BY <2>0, <4>1, <4>2, <4>3 DEF Inv, TypeOK
    <3>2. PublicWhole' /\ BackupIsReplaced'
      BY <2>0, <3>a, <3>b, <3>0 DEF Inv, PublicWhole, BackupIsReplaced, Saved
    <3>3. OldInPlace'
      BY <2>0, <3>a, <3>b, <3>0 DEF Inv, OldInPlace, Before
    <3>4. NothingToSave' /\ StaleUnswept'
      BY <2>0, <3>a, <3>b, <3>0 DEF Inv, NothingToSave, StaleUnswept, OldInPlace, Before, Copying, Saved
    <3>5. CopyIsSource'
      BY <2>0, <3>a, <3>b, <3>0 DEF Inv, CopyIsSource
    <3>6. Outcome'
      BY <2>0, <3>a, <3>b, <3>0 DEF Inv, Outcome, SuccessIsPublished, SuccessLeavesNoBackup, At
    <3> QED
      BY <3>1, <3>2, <3>3, <3>4, <3>5, <3>6 DEF Inv
  <2>7. CASE Verify
    <3>0. /\ op.pc = "verify" /\ op'.had = op.had
          /\ op'.holder = op.holder /\ op'.source = op.source /\ op'.replaced = op.replaced
          /\ dest' = dest
          /\ \/ /\ op'.pc = "rename" /\ op'.result = op.result /\ op'.measured = temp.size
                /\ backup' = backup /\ temp' = temp
             \/ /\ op'.pc = "unlock" /\ op'.result = "failed"
                /\ backup' = Absent /\ temp' = Absent
      <4>1. CASE /\ op' = [op EXCEPT !.pc = "rename", !.measured = temp.size]
                 /\ Files(dest, backup, temp)
        BY <2>7, <4>1 DEF Verify, Inv, TypeOK, Operation, At, Files
      <4>2. CASE Return("failed") /\ Files(dest, Absent, Absent)
        BY <2>7, <4>2 DEF Verify, Inv, TypeOK, Operation, At, Return, Files
      <4> QED
        BY <2>7, <4>1, <4>2 DEF Verify
    <3>1. TypeOK'
      <4>1. {dest, backup, temp}' \subseteq File \cup {Absent}
        BY <1>1, <3>0
      <4>2. op' \in Operation
        <5>1. CASE op' = [op EXCEPT !.pc = "rename", !.measured = temp.size]
          BY <1>2, <5>1 DEF Inv, TypeOK, Operation, Steps
        <5> QED
          BY <2>7, <5>1, ReturnTyped DEF Verify, Inv, TypeOK
      <4>3. op'.holder = NoOne <=> op'.pc = "idle"
        BY <3>0 DEF Inv, TypeOK
      <4> QED
        BY <2>0, <4>1, <4>2, <4>3 DEF Inv, TypeOK
    <3>2. PublicWhole' /\ BackupIsReplaced'
      BY <2>0, <3>0 DEF Inv, PublicWhole, BackupIsReplaced, Saved
    <3>3. OldInPlace'
      BY <2>0, <3>0 DEF Inv, OldInPlace, Before
    <3>4. NothingToSave' /\ StaleUnswept'
      BY <2>0, <3>0 DEF Inv, NothingToSave, StaleUnswept, OldInPlace, Before, Copying, Saved
    <3>5. CopyIsSource'
      BY <2>0, <3>0 DEF Inv, CopyIsSource
    <3>6. Outcome'
      BY <2>0, <3>0 DEF Inv, Outcome, SuccessIsPublished, SuccessLeavesNoBackup, At
    <3> QED
      BY <3>1, <3>2, <3>3, <3>4, <3>5, <3>6 DEF Inv
  <2>8. CASE Rename
    <3>0. /\ op.pc = "rename" /\ op'.had = op.had /\ op'.result = op.result
          /\ op'.measured = op.measured
          /\ op'.holder = op.holder /\ op'.source = op.source /\ op'.replaced = op.replaced
          /\ backup' = backup
          /\ \/ op'.pc = "check" /\ temp # Absent /\ dest' = temp /\ temp' = Absent
             \/ op'.pc = "undo" /\ temp = Absent /\ dest' = dest /\ temp' = temp
      BY <2>8 DEF Rename, Reported, Inv, TypeOK, Operation, At, Go, Files
    <3>1. TypeOK'
      <4>1. {dest, backup, temp}' \subseteq File \cup {Absent}
        BY <1>1, <3>0
      <4>2. op' \in Operation
        BY <2>8, GoTyped DEF Rename, Inv, TypeOK, Steps
      <4>3. op'.holder = NoOne <=> op'.pc = "idle"
        BY <3>0 DEF Inv, TypeOK
      <4> QED
        BY <2>0, <4>1, <4>2, <4>3 DEF Inv, TypeOK
    <3>2. PublicWhole' /\ BackupIsReplaced'
      BY <2>0, <3>0 DEF Inv, PublicWhole, BackupIsReplaced, CopyIsSource, Saved
    <3>3. OldInPlace'
      BY <2>0, <3>0 DEF Inv, OldInPlace, Before
    <3>4. NothingToSave' /\ StaleUnswept'
      BY <2>0, <3>0 DEF Inv, NothingToSave, StaleUnswept, OldInPlace, Before, Copying, Saved
    <3>5. CopyIsSource'
      BY <2>0, <3>0 DEF Inv, CopyIsSource
    <3>6. Outcome'
      BY <2>0, <3>0 DEF Inv, Outcome, SuccessIsPublished, SuccessLeavesNoBackup, At
    <3> QED
      BY <3>1, <3>2, <3>3, <3>4, <3>5, <3>6 DEF Inv
  <2>9. CASE Check
    <3>0. /\ op.pc = "check" /\ op'.had = op.had /\ op'.result = op.result
          /\ op'.measured = op.measured
          /\ op'.holder = op.holder /\ op'.source = op.source /\ op'.replaced = op.replaced
          /\ dest' = dest /\ backup' = backup /\ temp' = temp
          /\ op'.pc \in {"keep", "undo"} /\ (op'.pc = "undo" => op.had)
      BY <2>9 DEF Check, Unchanged, Inv, TypeOK, Operation, CopyIsSource, At, Go, Files
    <3>1. TypeOK'
      <4>1. {dest, backup, temp}' \subseteq File \cup {Absent}
        BY <1>1, <3>0
      <4>2. op' \in Operation
        BY <2>9, GoTyped DEF Check, Inv, TypeOK, Steps
      <4>3. op'.holder = NoOne <=> op'.pc = "idle"
        BY <3>0 DEF Inv, TypeOK
      <4> QED
        BY <2>0, <4>1, <4>2, <4>3 DEF Inv, TypeOK
    <3>2. PublicWhole' /\ BackupIsReplaced'
      BY <2>0, <3>0 DEF Inv, PublicWhole, BackupIsReplaced, Saved
    <3>3. OldInPlace'
      BY <2>0, <3>0 DEF Inv, OldInPlace, Before
    <3>4. NothingToSave' /\ StaleUnswept'
      BY <2>0, <3>0 DEF Inv, NothingToSave, StaleUnswept, OldInPlace, Before, Copying, Saved
    <3>5. CopyIsSource'
      BY <2>0, <3>0 DEF Inv, CopyIsSource
    <3>6. Outcome'
      BY <2>0, <3>0 DEF Inv, Outcome, SuccessIsPublished, SuccessLeavesNoBackup, At
    <3> QED
      BY <3>1, <3>2, <3>3, <3>4, <3>5, <3>6 DEF Inv
  <2>10. CASE Keep
    BY <1>1, <2>0, <2>10
       DEF Keep, Inv, TypeOK, Operation, Steps, PublicWhole, BackupIsReplaced, OldInPlace,
           NothingToSave, StaleUnswept, CopyIsSource, Outcome, SuccessIsPublished,
           SuccessLeavesNoBackup, At, Go, Return, Files, Before, Copying, Saved
  <2>11. CASE RollBack
    <3>0. /\ op.pc = "undo" /\ op'.pc = "unlock" /\ op'.result = "failed"
          /\ op'.holder = op.holder /\ op'.source = op.source /\ op'.replaced = op.replaced
          /\ backup' = Absent /\ temp' = Absent
          /\ \/ backup # Absent /\ dest' = backup
             \/ backup = Absent /\ dest' = dest
      BY <2>11 DEF RollBack, Reported, Inv, TypeOK, Operation, At, Return, Files
    <3>1. TypeOK'
      <4>1. {dest, backup, temp}' \subseteq File \cup {Absent}
        BY <1>1, <3>0
      <4>2. op' \in Operation
        BY <2>11, ReturnTyped DEF RollBack, Inv, TypeOK
      <4>3. op'.holder = NoOne <=> op'.pc = "idle"
        BY <3>0 DEF Inv, TypeOK
      <4> QED
        BY <2>0, <4>1, <4>2, <4>3 DEF Inv, TypeOK
    <3>2. PublicWhole' /\ BackupIsReplaced'
      BY <2>0, <3>0 DEF Inv, PublicWhole, BackupIsReplaced, NothingToSave, Saved
    <3>3. OldInPlace'
      BY <2>0, <3>0 DEF Inv, OldInPlace, Before
    <3>4. NothingToSave' /\ StaleUnswept'
      BY <2>0, <3>0 DEF Inv, NothingToSave, StaleUnswept, OldInPlace, Before, Copying, Saved
    <3>5. CopyIsSource'
      BY <2>0, <3>0 DEF Inv, CopyIsSource
    <3>6. Outcome'
      BY <2>0, <3>0 DEF Inv, Outcome, SuccessIsPublished, SuccessLeavesNoBackup, At
    <3> QED
      BY <3>1, <3>2, <3>3, <3>4, <3>5, <3>6 DEF Inv
  <2>12. CASE Unlock
    BY <1>1, <2>0, <2>12
       DEF Unlock, Inv, TypeOK, Operation, Steps, PublicWhole, BackupIsReplaced, OldInPlace,
           NothingToSave, StaleUnswept, CopyIsSource, Outcome, SuccessIsPublished,
           SuccessLeavesNoBackup, At, Go, Return, Files, Before, Copying, Saved
  <2>q. QED
    BY <1>3, <2>1, <2>2, <2>3, <2>4, <2>5, <2>6, <2>7, <2>8, <2>9, <2>10, <2>11, <2>12 DEF Publish
<1>4. CASE Sweep
  BY <1>4
     DEF Sweep, Inv, TypeOK, PublicWhole, BackupIsReplaced, OldInPlace, NothingToSave,
         StaleUnswept, CopyIsSource, Outcome, SuccessIsPublished,
         SuccessLeavesNoBackup, At, Files, Before, Copying, Saved
<1>5. CASE Crash
  BY <1>5
     DEF Crash, Operation, Steps, Inv, TypeOK, PublicWhole, BackupIsReplaced, OldInPlace, NothingToSave,
         StaleUnswept, CopyIsSource, Outcome, SuccessIsPublished,
         SuccessLeavesNoBackup, At, Files, Before, Copying, Saved
<1>6. CASE Start
  BY <1>6
     DEF Start, Inv, TypeOK, PublicWhole, BackupIsReplaced, OldInPlace, NothingToSave,
         StaleUnswept, CopyIsSource, Outcome, SuccessIsPublished,
         SuccessLeavesNoBackup, At, Files, Before, Copying, Saved
<1>7. CASE Tick
  BY <1>7
     DEF Tick, Inv, TypeOK, PublicWhole, BackupIsReplaced, OldInPlace, NothingToSave,
         StaleUnswept, CopyIsSource, Outcome, SuccessIsPublished,
         SuccessLeavesNoBackup, At, Files, Before, Copying, Saved
<1>8. CASE UNCHANGED vars
  BY <1>8
     DEF vars, Inv, TypeOK, PublicWhole, BackupIsReplaced, OldInPlace, NothingToSave,
         StaleUnswept, CopyIsSource, Outcome, SuccessIsPublished,
         SuccessLeavesNoBackup, At, Files, Before, Copying, Saved, Whole
<1>9. QED
  BY <1>3, <1>4, <1>5, <1>6, <1>7, <1>8 DEF Next

-----------------------------------------------------------------------------
(* What readers and publishers may rely on *)

\* The invariant holds throughout as long as failed writes are reported and renames that
\* can be done are done.
THEOREM InvHolds == Reported => (Spec => []Inv)
<1> SUFFICES ASSUME Reported PROVE Spec => []Inv
  OBVIOUS
<1>1. Init => Inv
  BY InitInv
<1>2. Inv /\ [Next]_vars => Inv'
  BY StepInv
<1> QED
  BY <1>1, <1>2, PTL DEF Spec

\* The types, and that the mutex is held exactly while a publication runs.
THEOREM PublishTypeOK == Reported => (Spec => []TypeOK)
<1>1. Inv => TypeOK
  BY DEF Inv
<1> QED
  BY <1>1, InvHolds, PTL

\* Readers, who take no lock, find a whole phonebook or none.
THEOREM ReadersSeeWhole == Reported => (Spec => []PublicWhole)
<1>1. Inv => PublicWhole
  BY DEF Inv
<1> QED
  BY <1>1, InvHolds, PTL

\* A publication that returns success has put its phonebook in place, and has left no
\* backup that a later rollback could bring back.
THEOREM SuccessHolds == Reported => (Spec => []SuccessIsPublished /\ []SuccessLeavesNoBackup)
<1>1. Inv => SuccessIsPublished /\ SuccessLeavesNoBackup
  BY DEF Inv, Outcome
<1> QED
  BY <1>1, InvHolds, PTL

\* Whatever fails, the public file never disappears while the program runs: this needs no
\* invariant, each step alone keeps a file there.
THEOREM PublicNeverVanishes == Spec => PublicStays
<1>1. ASSUME [Next]_vars, dest # Absent, up
      PROVE  dest' # Absent
  BY <1>1 DEF Next, Publish, Lock, NoDirectory, OpenBackup, FillBackup, OpenTemp, FillTemp,
              Verify, Rename, Check, Keep, RollBack, Unlock, Sweep, Crash, Start, Tick,
              Files, vars, Into
<1>2. [Next]_vars => [dest # Absent /\ up => dest' # Absent]_vars
  BY <1>1
<1> QED
  BY <1>2, PTL DEF Spec, PublicStays

-----------------------------------------------------------------------------
(* Refinement *)

\* What a reader finds does not change while the public file does not.
LEMMA SeenStays == ASSUME dest' = dest PROVE Seen' = Seen
BY DEF Seen, Whole

\* A file that is whole, or missing, is seen as its content.
LEMMA SeenWhole == ASSUME PublicWhole PROVE Seen = dest.data
BY DEF PublicWhole, Seen

\* Once it has begun, a publication holds the mutex, and what it publishes and replaces
\* does not change.
LEMMA Working ==
    ASSUME Inv, Publish, ~(\E p \in Publishers, d \in Data : Lock(p, d))
    PROVE  /\ up /\ up' = up /\ op.holder # NoOne
           /\ op'.source = op.source /\ op'.replaced = op.replaced
<1>1. /\ op.pc # "idle"
      /\ \/ (\E s \in Steps : Go(s)) \/ (\E r \in {"ok", "failed"} : Return(r))
         \/ op' = [op EXCEPT !.pc = "fill_backup", !.had = TRUE, !.pre = Stat(dest)]
         \/ op' = [op EXCEPT !.pc = "rename", !.measured = temp.size]
         \/ op' = [op EXCEPT !.holder = NoOne, !.pc = "idle"]
  BY DEF Publish, At, Steps, NoDirectory, OpenBackup, FillBackup, OpenTemp, FillTemp, Verify,
         Rename, Check, Keep, RollBack, Unlock
<1>2. op \in Operation /\ op.holder # NoOne
  BY <1>1 DEF Inv, TypeOK
<1>3. CASE \/ (\E s \in Steps : Go(s)) \/ (\E r \in {"ok", "failed"} : Return(r))
  BY <1>2, <1>3, SourceKept DEF Publish
<1>4. CASE op' = [op EXCEPT !.pc = "fill_backup", !.had = TRUE, !.pre = Stat(dest)]
  BY <1>2, <1>4 DEF Operation, Publish
<1>5. CASE op' = [op EXCEPT !.pc = "rename", !.measured = temp.size]
  BY <1>2, <1>5 DEF Operation, Publish
<1>6. CASE op' = [op EXCEPT !.holder = NoOne, !.pc = "idle"]
  BY <1>2, <1>6 DEF Operation, Publish
<1> QED
  BY <1>1, <1>2, <1>3, <1>4, <1>5, <1>6

\* Every step is one that Publication allows, or one that readers cannot see.
LEMMA StepPublic ==
    ASSUME Reported, Inv, Inv', [Next]_vars
    PROVE  [Public!Next]_(Public!vars)
<1> USE SafePublishAssumption
<1>0. Seen = dest.data /\ Seen' = dest'.data
  <2>1. PublicWhole /\ PublicWhole'
    BY DEF Inv
  <2> QED
    BY <2>1, SeenWhole DEF PublicWhole, Seen, Whole
<1>1. CASE UNCHANGED vars
  BY <1>0, <1>1 DEF vars, Public!vars
<1>2. CASE Publish
  <2>0. up /\ up' = up
    BY <1>2 DEF Publish
  <2>1. CASE \E p \in Publishers, d \in Data : Lock(p, d)
    <3>1. PICK p \in Publishers, d \in Data : Lock(p, d)
      BY <2>1
    <3>2. op'.source = d /\ op'.replaced = dest.data /\ dest' = dest
      BY <3>1 DEF Lock, NoOperation, Files
    <3> QED
      BY <1>0, <2>0, <3>2 DEF Public!Next, Public!Prepare
  <2>2. CASE ~(\E p \in Publishers, d \in Data : Lock(p, d))
    <3>1. op'.source = op.source /\ op'.replaced = op.replaced
      BY <1>2, <2>2, Working
    <3>2. CASE dest' = dest
      BY <1>0, <2>0, <3>1, <3>2 DEF Public!vars
    <3>3. CASE Rename /\ dest' # dest
      <4>1. dest'.data = op.source
        BY <3>3 DEF Inv, CopyIsSource, Rename, At, Files
      <4> QED
        BY <1>0, <2>0, <3>1, <4>1 DEF Public!Next, Public!Replace
    <3>4. CASE RollBack /\ dest' # dest
      <4>1. dest' = backup /\ backup # Absent /\ op.pc = "undo"
        BY <3>4 DEF RollBack, At, Files
      <4>2. backup.data = op.replaced /\ op.replaced # Nothing
        BY <4>1, FileTyped
           DEF Inv, TypeOK, Operation, NothingToSave, BackupIsReplaced, Saved
      <4> QED
        BY <1>0, <2>0, <3>1, <4>1, <4>2 DEF Public!Next, Public!Retract
    <3>5. dest' = dest \/ Rename \/ RollBack
      BY <1>2, <2>2
         DEF Publish, NoDirectory, OpenBackup, FillBackup, OpenTemp, FillTemp, Verify, Check,
             Keep, Unlock, Files
    <3> QED
      BY <3>2, <3>3, <3>4, <3>5
  <2> QED
    BY <2>1, <2>2
<1>3. CASE Sweep \/ Tick
  BY <1>0, <1>3 DEF Sweep, Tick, Files, Public!vars
<1>4. CASE Crash
  <2>1. /\ dest' = dest /\ up' = FALSE
        /\ op'.source = op.source /\ op'.replaced = op.replaced
    BY <1>4 DEF Crash, Inv, TypeOK, Operation, Files
  <2> QED
    BY <1>0, <2>1 DEF Public!Next, Public!Stop
<1>5. CASE Start
  <2>1. dest'.data = Nothing /\ ~up /\ up' = TRUE /\ op' = op
    BY <1>5 DEF Start, Files, Absent
  <2> QED
    BY <1>0, <2>1 DEF Public!Next, Public!Restart
<1> QED
  BY <1>1, <1>2, <1>3, <1>4, <1>5 DEF Next

\* The publication of a phonebook implements Publication: whatever is copied, swept or
\* killed, readers see the version on offer or the one before, and nothing else.
THEOREM ImplementsPublication == Reported => (Spec => PublicSpec)
<1> SUFFICES ASSUME Reported PROVE Spec => PublicSpec
  OBVIOUS
<1>1. Init => Public!Init
  BY DEF Init, Public!Init, Seen, NoOperation, Absent
<1>2. Inv /\ Inv' /\ [Next]_vars => [Public!Next]_(Public!vars)
  BY StepPublic
<1>3. Spec => []Inv
  BY InvHolds
<1> QED
  BY <1>1, <1>2, <1>3, PTL DEF Spec, PublicSpec, Public!Spec

-----------------------------------------------------------------------------
(* A publication as one step, which is how Phonebook takes it *)

\* What is public when nothing of the publication that runs counts yet.
Settled == IF op.holder = NoOne THEN Seen ELSE op.replaced

Ends == op.holder # NoOne /\ op'.holder = NoOne
Restarts == ~up /\ up'

\* Seen from its end, a publication replaces the public phonebook or leaves it alone, and
\* replaces it if it returns success; one that a crash ends has done either.  Between its
\* ends nothing else replaces it but the start of the program, which removes it.
PublishedAtOnce ==
    [][/\ Settled' # Settled => \/ Ends /\ Settled' = op.source
                                \/ Restarts /\ Settled' = Nothing
       /\ Unlock /\ op.result = "ok" => Settled' = op.source]_vars

\* While a publication runs, readers see its version or the one before.
EitherVersion ==
    op.holder # NoOne => up /\ Seen \in {op.replaced, op.source}

\* Only its last step gives the mutex back.
LEMMA OnlyUnlockEnds ==
    ASSUME Inv, Publish, Ends
    PROVE  Unlock
<1>1. CASE \E s \in Steps : Go(s)
  BY <1>1 DEF Ends, Go, Inv, TypeOK, Operation
<1>2. CASE \E r \in {"ok", "failed"} : Return(r)
  BY <1>2 DEF Ends, Return, Inv, TypeOK, Operation
<1>3. CASE \/ op' = [op EXCEPT !.pc = "fill_backup", !.had = TRUE, !.pre = Stat(dest)]
           \/ op' = [op EXCEPT !.pc = "rename", !.measured = temp.size]
  BY <1>3 DEF Ends, Inv, TypeOK, Operation
<1>4. CASE \E p \in Publishers, d \in Data : Lock(p, d)
  BY <1>4 DEF Lock, Ends
<1> QED
  BY <1>1, <1>2, <1>3, <1>4
     DEF Publish, Steps, NoDirectory, OpenBackup, FillBackup, OpenTemp, FillTemp, Verify,
         Rename, Check, Keep, RollBack

\* What Publication promises of one step is enough to keep to the two versions.
LEMMA EitherStays ==
    ASSUME Reported, Inv, Inv', EitherVersion, [Next]_vars
    PROVE  EitherVersion'
<1>1. CASE Publish
  <2>0. up /\ up' = up
    BY <1>1 DEF Publish
  <2>1. CASE \E p \in Publishers, d \in Data : Lock(p, d)
    <3>1. op'.replaced = dest.data /\ dest' = dest
      BY <2>1 DEF Lock, NoOperation, Files
    <3>2. Seen = dest.data /\ Seen' = Seen
      BY <3>1, SeenWhole, SeenStays DEF Inv
    <3> QED
      BY <2>0, <3>1, <3>2 DEF EitherVersion
  <2>2. CASE ~(\E p \in Publishers, d \in Data : Lock(p, d))
    <3>1. op.holder # NoOne
      BY <1>1, <2>2, Working
    <3>2. [Public!Next]_(Public!vars)
      BY StepPublic
    <3>3. Seen' \in {op'.replaced, op'.source}
      BY <2>0, <3>1, <3>2
         DEF EitherVersion, Public!Next, Public!Prepare, Public!Replace, Public!Retract,
             Public!Stop, Public!Restart, Public!vars
    <3> QED
      BY <2>0, <3>3 DEF EitherVersion
  <2> QED
    BY <2>1, <2>2
<1>2. CASE Sweep \/ Tick \/ UNCHANGED vars
  <2>1. dest' = dest /\ op' = op /\ up' = up
    BY <1>2 DEF Sweep, Tick, Files, vars
  <2> QED
    BY <2>1, SeenStays DEF EitherVersion
<1>3. CASE Crash
  BY <1>3 DEF Crash, EitherVersion, Inv, TypeOK, Operation
<1>4. CASE Start
  BY <1>4 DEF Start, EitherVersion
<1> QED
  BY <1>1, <1>2, <1>3, <1>4 DEF Next

\* Each step does to Settled what Phonebook's one step does, or nothing.
LEMMA StepSettled ==
    ASSUME Reported, Inv, Inv', EitherVersion, [Next]_vars
    PROVE  /\ Settled' # Settled => \/ Ends /\ Settled' = op.source
                                    \/ Restarts /\ Settled' = Nothing
           /\ Unlock /\ op.result = "ok" => Settled' = op.source
<1>0. Seen = dest.data
  BY SeenWhole DEF Inv
<1>1. CASE Publish
  <2>1. CASE \E p \in Publishers, d \in Data : Lock(p, d)
    <3>1. op.holder = NoOne /\ op'.holder # NoOne /\ op'.replaced = dest.data /\ ~Unlock
      BY <2>1, SafePublishAssumption DEF Lock, NoOperation, Unlock, At, Inv, TypeOK
    <3> QED
      BY <1>0, <3>1 DEF Settled
  <2>2. CASE ~(\E p \in Publishers, d \in Data : Lock(p, d))
    <3>1. op.holder # NoOne /\ op'.replaced = op.replaced
      BY <1>1, <2>2, Working
    <3>2. CASE Ends
      <4>1. Unlock
        BY <1>1, <3>2, OnlyUnlockEnds
      <4>2. dest' = dest
        BY <4>1 DEF Unlock, Files
      <4>3. Settled' = Seen /\ Settled = op.replaced
        BY <3>2, <4>2, SeenStays DEF Settled, Ends
      <4>4. Seen \in {op.replaced, op.source}
        BY <3>1 DEF EitherVersion
      <4>5. op.result = "ok" => Seen = op.source
        BY <1>0, <4>1 DEF Unlock, Inv, Outcome, SuccessIsPublished
      <4> QED
        BY <3>2, <4>3, <4>4, <4>5
    <3>3. CASE ~Ends
      <4>1. op'.holder # NoOne
        BY <3>1, <3>3 DEF Ends
      <4>2. ~Unlock
        BY <4>1 DEF Unlock, Inv, TypeOK, Operation
      <4> QED
        BY <3>1, <4>1, <4>2 DEF Settled
    <3> QED
      BY <3>2, <3>3
  <2> QED
    BY <2>1, <2>2
<1>2. CASE Sweep \/ Tick \/ UNCHANGED vars
  <2>1. dest' = dest /\ op' = op
    BY <1>2 DEF Sweep, Tick, Files, vars
  <2>2. ~Unlock
    BY <2>1 DEF Unlock, At, Inv, TypeOK, Operation
  <2> QED
    BY <2>1, <2>2, SeenStays DEF Settled
<1>3. CASE Crash
  <2>1. dest' = dest /\ op'.holder = NoOne /\ op'.result = "none"
    BY <1>3 DEF Crash, Files, Inv, TypeOK, Operation
  <2>2. Settled' = Seen
    BY <2>1, SeenStays DEF Settled
  <2>3. Unlock /\ op.result = "ok" => Seen = op.source
    BY <1>0 DEF Unlock, Inv, Outcome, SuccessIsPublished
  <2>4. CASE op.holder = NoOne
    BY <2>2, <2>3, <2>4 DEF Settled
  <2>5. CASE op.holder # NoOne
    <3>1. Ends /\ Seen \in {op.replaced, op.source}
      BY <2>1, <2>5 DEF Ends, EitherVersion
    <3> QED
      BY <2>2, <2>3, <2>5, <3>1 DEF Settled
  <2> QED
    BY <2>4, <2>5
<1>4. CASE Start
  <2>1. Restarts /\ op' = op /\ dest' = Absent /\ op.holder = NoOne
    BY <1>4 DEF Start, Restarts, Files, EitherVersion
  <2>2. Settled' = Nothing
    BY <2>1 DEF Settled, Seen, Absent
  <2>3. ~Unlock
    BY <2>1 DEF Unlock, At, Inv, TypeOK
  <2> QED
    BY <2>1, <2>2, <2>3
<1> QED
  BY <1>1, <1>2, <1>3, <1>4 DEF Next

\* Phonebook may take a publication for one step: the copies, the renames, the sweep and a
\* crash in between show nothing that this step does not.
THEOREM OneStepPublication == Reported => (Spec => PublishedAtOnce)
<1> SUFFICES ASSUME Reported PROVE Spec => PublishedAtOnce
  OBVIOUS
<1>1. Init => EitherVersion
  BY DEF Init, NoOperation, EitherVersion
<1>2. Inv /\ Inv' /\ EitherVersion /\ [Next]_vars => EitherVersion'
  BY EitherStays
<1>3. Inv /\ Inv' /\ EitherVersion /\ [Next]_vars =>
        [/\ Settled' # Settled => \/ Ends /\ Settled' = op.source
                                  \/ Restarts /\ Settled' = Nothing
         /\ Unlock /\ op.result = "ok" => Settled' = op.source]_vars
  BY StepSettled
<1>4. Spec => []Inv
  BY InvHolds
<1> QED
  BY <1>1, <1>2, <1>3, <1>4, PTL DEF Spec, PublishedAtOnce
=============================================================================
