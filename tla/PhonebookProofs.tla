--------------------------- MODULE PhonebookProofs ---------------------------
(***************************************************************************)
(* What holds of the fetcher for any phonebooks, releases, hashes and any  *)
(* failures: the types, that the table of users is only replaced by a      *)
(* phonebook with rows, and that a cycle is only skipped when flash and    *)
(* table hold a release with the hash of what was downloaded.  The second  *)
(* rests on what the fetcher knows at each step: what it compares and      *)
(* copies has been validated, and what it loads is the whole of it.  The   *)
(* third rests on what the stored hash means: a release with it is in      *)
(* flash and in the table, or the servers have left it since and do not    *)
(* return to it.  Releases may share a hash: the checksum of the code does *)
(* not see an edit far from the end of the file.                           *)
(***************************************************************************)
EXTENDS Phonebook, TLAPS

Steps ==
    {"boot", "boot_convert", "boot_publish", "download", "compare", "copy", "populate",
     "convert", "publish", "hash", "fill_hash", "sleep"}

Reported == "flush" \notin Faults

\* What was downloaded is valid from the comparison on, and is in flash when it is loaded.
Validated ==
    /\ fetcher.pc \in {"compare", "copy"} => fetcher.new \in Valid
    /\ fetcher.pc = "populate" => csv \in Valid

Known ==
    /\ fetcher.pc \in {"compare", "copy", "hash", "fill_hash"} => fetcher.new \in Data
    /\ fetcher.pc \in {"populate", "convert", "boot_convert"} => csv \in Data
    /\ fetcher.pc \in {"publish", "boot_publish"} => fetcher.xml \in Data
    /\ fetcher.pc \in {"copy", "populate", "convert", "publish"} => fetcher.new \in Data

Inv == TypeOK /\ Known /\ (Reported => Validated)

-----------------------------------------------------------------------------

LEMMA WrittenTyped ==
    ASSUME NEW d \in Data
    PROVE  /\ Written(d) \subseteq Data /\ CutShort[d] \subseteq Data
           /\ Reported => Written(d) = {d}
BY PhonebookAssumption DEF Written, Reported

LEMMA ServedTyped ==
    ASSUME TypeOK
    PROVE  /\ OnServers \subseteq Data
           /\ Releases[release] \in Data
<1>1. \A r \in 1..release : Releases[r] \in Data
  BY PhonebookAssumption DEF TypeOK
<1>2. release \in 1..release
  BY PhonebookAssumption DEF TypeOK
<1> QED
  BY <1>1, <1>2, PhonebookAssumption DEF OnServers

LEMMA GoTyped ==
    ASSUME TypeOK, NEW s \in Steps, Go(s)
    PROVE  /\ fetcher' \in [pc : Steps, new : Data \cup {Nothing}, xml : Data \cup {Nothing}]
           /\ fetcher'.pc = s /\ fetcher'.new = fetcher.new /\ fetcher'.xml = fetcher.xml
BY DEF TypeOK, Steps, Go

LEMMA FailuresTyped ==
    ASSUME TypeOK, NoFault \/ \E f : Fault(f)
    PROVE  failures' \in 0..MaxFailures
BY PhonebookAssumption DEF TypeOK, NoFault, Fault

LEMMA InitInv == Init => Inv
<1>1. 1 \in DOMAIN Releases
  <2>1. Len(Releases) \in Nat /\ DOMAIN Releases = 1..Len(Releases) /\ Len(Releases) # 0
    BY PhonebookAssumption
  <2> QED
    BY <2>1
<1>2. 0 \in 0..MaxFailures
  BY PhonebookAssumption
<1>3. Init => TypeOK
  <2>1. Init => fetcher \in [pc : Steps, new : Data \cup {Nothing}, xml : Data \cup {Nothing}]
    BY DEF Init, Starting, Steps
  <2>2. Init => fetcher = Starting /\ table = Nothing /\ public = Nothing /\ seen = Nothing
    BY DEF Init
  <2> QED
    BY <1>1, <1>2, <2>1, <2>2 DEF Init, TypeOK, Steps
<1>4. Init => Known /\ Validated
  BY DEF Init, Known, Validated, Starting
<1> QED
  BY <1>3, <1>4 DEF Inv

\* Every step keeps the types and what the fetcher knows.
LEMMA StepInv ==
    ASSUME Inv, [Next]_vars
    PROVE  Inv'
<1> USE PhonebookAssumption
<1>1. /\ TypeOK /\ Known /\ (Reported => Validated)
      /\ fetcher \in [pc : Steps, new : Data \cup {Nothing}, xml : Data \cup {Nothing}]
  BY DEF Inv, TypeOK, Steps
<1>2. CASE Fetcher
  <2>1. CASE BootNothing
    BY <1>1, <2>1, FailuresTyped, WrittenTyped, ServedTyped
       DEF BootNothing, Inv, TypeOK, Known, Validated, Steps, At, Go, flash, memory, NoFault, Fault
  <2>2. CASE BootLoad
    BY <1>1, <2>2, FailuresTyped, WrittenTyped, ServedTyped
       DEF BootLoad, Inv, TypeOK, Known, Validated, Steps, At, Go, flash, memory, NoFault, Fault
  <2>3. CASE Download
    <3>1. /\ up /\ UNCHANGED <<release, csv, hash, table, populated, public, seen, up>>
          /\ failures' \in 0..MaxFailures
      BY <1>1, <2>3, FailuresTyped DEF Download, At, flash, memory
    <3>2. CASE \E d \in OnServers \cap Valid :
                  fetcher' = [fetcher EXCEPT !.pc = "compare", !.new = d]
      <4>1. PICK d \in Data \cap Valid : fetcher' = [fetcher EXCEPT !.pc = "compare", !.new = d]
        BY <1>1, <3>2, ServedTyped
      <4>2. fetcher'.pc = "compare" /\ fetcher'.new = d
        BY <1>1, <4>1
      <4> QED
        BY <1>1, <3>1, <4>1, <4>2 DEF Inv, TypeOK, Known, Validated, Steps
    <3>3. CASE Go("sleep")
      BY <1>1, <3>1, <3>3 DEF Inv, TypeOK, Known, Validated, Steps, Go
    <3> QED
      BY <2>3, <3>2, <3>3 DEF Download
  <2>4. CASE Skip
    BY <1>1, <2>4, FailuresTyped, WrittenTyped, ServedTyped
       DEF Skip, Inv, TypeOK, Known, Validated, Steps, At, Go, flash, memory, NoFault, Fault
  <2>5. CASE OpenCsv
    BY <1>1, <2>5, FailuresTyped, WrittenTyped, ServedTyped
       DEF OpenCsv, Inv, TypeOK, Known, Validated, Steps, At, Go, flash, memory, NoFault, Fault
  <2>6. CASE FillCsv
    BY <1>1, <2>6, FailuresTyped, WrittenTyped, ServedTyped
       DEF FillCsv, Inv, TypeOK, Known, Validated, Steps, At, Go, flash, memory, NoFault, Fault
  <2>7. CASE Populate
    BY <1>1, <2>7, FailuresTyped, WrittenTyped, ServedTyped
       DEF Populate, Inv, TypeOK, Known, Validated, Steps, At, Go, flash, memory, NoFault, Fault
  <2>8. CASE Convert
    <3>1. /\ csv \in Data /\ up /\ fetcher.pc \in {"convert", "boot_convert"}
          /\ UNCHANGED <<release, csv, hash, table, populated, public, seen, up>>
          /\ failures' \in 0..MaxFailures
      BY <1>1, <2>8, FailuresTyped DEF Convert, Known, At, flash, memory
    <3>2. CASE \E d \in Written(csv) :
                  fetcher' = [fetcher EXCEPT
                                !.pc = IF Booting THEN "boot_publish" ELSE "publish",
                                !.xml = d]
      <4>1. PICK d \in Data : fetcher' = [fetcher EXCEPT
                                !.pc = IF Booting THEN "boot_publish" ELSE "publish",
                                !.xml = d]
        BY <3>1, <3>2, WrittenTyped
      <4> QED
        BY <1>1, <3>1, <4>1 DEF Inv, TypeOK, Known, Validated, Steps, Booting
    <3>3. CASE Abandon
      BY <1>1, <3>1, <3>3 DEF Abandon, Inv, TypeOK, Known, Validated, Steps, Go, Booting
    <3> QED
      BY <2>8, <3>2, <3>3 DEF Convert
  <2>9. CASE Publish
    <3>1. /\ up /\ public' \in Data \cup {Nothing} /\ fetcher.pc \in {"publish", "boot_publish"}
          /\ UNCHANGED <<release, csv, hash, table, populated, seen, up>>
          /\ failures' \in 0..MaxFailures
      BY <1>1, <2>9, FailuresTyped DEF Publish, TypeOK, Known, At, flash, memory
    <3>2. \E s \in {"download", "sleep", "hash"} :
             Go(s) /\ (s = "hash" => fetcher.pc = "publish")
      BY <2>9, <3>1 DEF Publish, Abandon, Booting
    <3> QED
      BY <1>1, <3>1, <3>2 DEF Inv, TypeOK, Known, Validated, Steps, Go
  <2>10. CASE OpenHash
    BY <1>1, <2>10, FailuresTyped, WrittenTyped, ServedTyped
       DEF OpenHash, Inv, TypeOK, Known, Validated, Steps, At, Go, flash, memory, NoFault, Fault
  <2>11. CASE FillHash
    BY <1>1, <2>11, FailuresTyped, WrittenTyped, ServedTyped
       DEF FillHash, Inv, TypeOK, Known, Validated, Steps, At, Go, flash, memory, NoFault, Fault
  <2>12. CASE Wake
    BY <1>1, <2>12, FailuresTyped, WrittenTyped, ServedTyped
       DEF Wake, Inv, TypeOK, Known, Validated, Steps, At, Go, flash, memory, NoFault, Fault
  <2> QED
    BY <1>2, <2>1, <2>2, <2>3, <2>4, <2>5, <2>6, <2>7, <2>8, <2>9, <2>10, <2>11, <2>12 DEF Fetcher
<1>3. CASE Updater
  BY <1>1, <1>3, FailuresTyped, WrittenTyped
     DEF Updater, OpenPublic, PublishMarked, Inv, TypeOK, Known, Validated, Steps, At, Go, flash, memory, NoFault, Fault
<1>4. CASE Crash
  BY <1>1, <1>4, FailuresTyped, WrittenTyped
     DEF Crash, Starting, Inv, TypeOK, Known, Validated, Steps, At, Go, flash, memory, NoFault, Fault
<1>5. CASE Start
  BY <1>1, <1>5, FailuresTyped, WrittenTyped
     DEF Start, Inv, TypeOK, Known, Validated, Steps, At, Go, flash, memory, NoFault, Fault
<1>6. CASE Release
  BY <1>1, <1>6, FailuresTyped, WrittenTyped
     DEF Release, Inv, TypeOK, Known, Validated, Steps, At, Go, flash, memory, NoFault, Fault
<1>7. CASE UNCHANGED vars
  BY <1>1, <1>7, FailuresTyped, WrittenTyped
     DEF vars, Inv, TypeOK, Known, Validated, Steps, At, Go, flash, memory, NoFault, Fault
<1> QED
  BY <1>2, <1>3, <1>4, <1>5, <1>6, <1>7 DEF Next

\* The types, for any contents, releases and failures.
THEOREM PhonebookTypeOK == Spec => []TypeOK
<1>1. Inv /\ [Next]_vars => Inv'
  BY StepInv
<1>2. Inv => TypeOK
  BY DEF Inv
<1> QED
  BY <1>1, <1>2, InitInv, PTL DEF Spec

\* Unless a write fails without notice, the table of users is never replaced by anything
\* but a phonebook that was validated, whatever else fails.
THEOREM TableReplacedByValid == Reported => (Spec => TableStaysValid)
<1> SUFFICES ASSUME Reported PROVE Spec => TableStaysValid
  OBVIOUS
<1>1. Inv /\ [Next]_vars => Inv'
  BY StepInv
<1>2. Inv /\ [Next]_vars => [table' # table /\ up /\ up' /\ ~At("boot") => table' \in Valid]_vars
  <2> SUFFICES ASSUME Inv, Next, table' # table, up, up', ~At("boot")
               PROVE  table' \in Valid
    BY DEF vars
  <2>1. Populate
    BY DEF Next, Fetcher, BootNothing, BootLoad, Download, Skip, OpenCsv, FillCsv, Populate,
           Convert, Publish, OpenHash, FillHash, Wake, Updater, OpenPublic, PublishMarked,
           Crash, Start, Release, memory
  <2> QED
    BY <2>1 DEF Populate, Inv, Validated, At
<1> QED
  BY <1>1, <1>2, InitInv, PTL DEF Spec, TableStaysValid
-----------------------------------------------------------------------------
(* The comparison of hashes *)

\* A release has the hash of an earlier one only if all between them have it: edits that
\* the hash does not see are allowed, a return to a release that had another is not.
NoReturn ==
    \A i, j, k \in DOMAIN Releases :
        i <= j /\ j <= k /\ HashOf[Releases[i]] = HashOf[Releases[k]] =>
            HashOf[Releases[j]] = HashOf[Releases[i]]

\* The steps at which the phonebook downloaded is at hand, replaces the CSV, and is in
\* the table.
Served == {"compare", "copy", "populate", "convert", "publish", "hash", "fill_hash"}
Replacing == Served \ {"compare"}
Loaded == Replacing \ {"copy", "populate"}

\* A hash is stored only where a CSV was before, and the process has loaded it.
HashHasCsv ==
    /\ hash # NoHash => csv # Nothing
    /\ up /\ fetcher.pc # "boot" /\ hash # NoHash => populated
    /\ fetcher.pc \in Loaded => populated

\* A cycle that goes on past the comparison has met another hash, and has copied what it
\* downloaded when it loads it.
CycleReplaces ==
    /\ fetcher.pc \in Replacing => ~Same
    /\ fetcher.pc \in Loaded \cup {"populate"} => csv = fetcher.new
    /\ trusted /\ fetcher.pc \in Loaded => table = fetcher.new

\* The stored hash is that of a release, and of none later than the one at hand unless
\* that one has it too.
HashIsOlder ==
    trusted =>
        /\ hash # NoHash => \E j \in 1..release : hash = HashOf[Releases[j]]
        /\ fetcher.pc \in Served =>
              \E k \in 1..release :
                  /\ fetcher.new = Releases[k]
                  /\ \A j \in 1..release :
                        hash = HashOf[Releases[j]] => j <= k \/ hash = HashOf[Releases[k]]

\* A release with the stored hash is in flash and in the table.
InPlace ==
    /\ \E j \in 1..release : csv = Releases[j] /\ hash = HashOf[csv]
    /\ up /\ fetcher.pc # "boot" => table = csv

\* What the servers have now has another hash, and so has what is at hand.
Outdated ==
    /\ hash # HashOf[Releases[release]]
    /\ fetcher.pc \in Served => hash # HashOf[fetcher.new]

HashIsTrue == trusted /\ hash # NoHash => InPlace \/ Outdated

TrustInv == HashHasCsv /\ CycleReplaces /\ HashIsOlder /\ HashIsTrue

LEMMA TrustInit == HistoryInit => TrustInv
BY PhonebookAssumption
   DEF HistoryInit, Init, Starting, TrustInv, HashHasCsv, CycleReplaces, HashIsOlder, HashIsTrue,
       Served, Replacing, Loaded

\* What the proofs of the steps use of the releases.
LEMMA ReleasesKnown ==
    ASSUME TypeOK, NoReturn
    PROVE  /\ release \in Nat /\ release \in 1..release
           /\ \A j \in 1..release : /\ j \in Nat /\ Releases[j] \in Valid
                                    /\ Releases[j] \in Data /\ Releases[j] # Nothing
                                    /\ HashOf[Releases[j]] # NoHash
           /\ \A i, j, k \in 1..release :
                 i <= j /\ j <= k /\ HashOf[Releases[i]] = HashOf[Releases[k]] =>
                     HashOf[Releases[j]] = HashOf[Releases[i]]
<1>1. Len(Releases) \in Nat /\ DOMAIN Releases = 1..Len(Releases)
  BY PhonebookAssumption
<1>2. release \in 1..Len(Releases)
  BY <1>1 DEF TypeOK
<1>3. \A j \in 1..release : j \in DOMAIN Releases
  BY <1>1, <1>2
<1>4. \A j \in 1..release : Releases[j] \in Valid
  BY <1>3, PhonebookAssumption
<1>5. \A d \in Data : HashOf[d] # NoHash
  BY PhonebookAssumption
<1> QED
  BY <1>1, <1>2, <1>3, <1>4, <1>5, PhonebookAssumption DEF NoReturn

\* When what is at hand has another hash than the stored one, so has what the servers
\* have now.
LEMMA DifferentIsOutdated ==
    ASSUME TypeOK, NoReturn, HashIsOlder, trusted, hash # NoHash,
           fetcher.pc \in Served, ~Same
    PROVE  hash # HashOf[Releases[release]] /\ hash # HashOf[fetcher.new]
<1>1. PICK j \in 1..release : hash = HashOf[Releases[j]]
  BY DEF HashIsOlder
<1>2. PICK k \in 1..release :
         /\ fetcher.new = Releases[k]
         /\ \A i \in 1..release :
               hash = HashOf[Releases[i]] => i <= k \/ hash = HashOf[Releases[k]]
  BY DEF HashIsOlder
<1>3. j <= k /\ hash # HashOf[Releases[k]]
  BY <1>1, <1>2 DEF Same
<1>4. k <= release
  BY ReleasesKnown
<1> QED
  BY <1>1, <1>2, <1>3, <1>4, ReleasesKnown DEF Same

LEMMA TrustStep ==
    ASSUME Reported, NoReturn, Inv, TrustInv, [HistoryNext]_<<vars, trusted>>
    PROVE  TrustInv'
<1> DEFINE F == [pc : Steps, new : Data \cup {Nothing}, xml : Data \cup {Nothing}]
<1>1. /\ TypeOK /\ Known /\ Validated /\ fetcher \in F
      /\ HashHasCsv /\ CycleReplaces /\ HashIsOlder /\ HashIsTrue
  BY DEF Inv, TypeOK, Steps, TrustInv
<1>0. CASE UNCHANGED <<vars, trusted>>
  BY <1>0, <1>1
     DEF vars, TrustInv, HashHasCsv, CycleReplaces, HashIsOlder, HashIsTrue, InPlace, Outdated, Same
<1> SUFFICES ASSUME HistoryNext PROVE TrustInv'
  BY <1>0
<1>2. /\ trusted' => trusted
      /\ trusted' /\ (Populate \/ BootLoad) => UNCHANGED failures
      /\ trusted' /\ Download => GetsLatest \/ failures' > failures
  BY Zenon DEF HistoryNext
<1>3. CASE BootNothing
  BY <1>1, <1>2, <1>3, ReleasesKnown, PhonebookAssumption
     DEF BootNothing, TrustInv, HashHasCsv, CycleReplaces, HashIsOlder, HashIsTrue, InPlace, Outdated, Served, Replacing, Loaded, At, Go, flash, memory
<1>4. CASE BootLoad
  <2>1. trusted' => table' = csv
    BY <1>1, <1>2, <1>4 DEF BootLoad, Fault, TypeOK
  <2>2. /\ At("boot") /\ csv # Nothing /\ populated' = TRUE /\ Go("boot_convert")
        /\ UNCHANGED <<release, csv, hash, up>>
    BY <1>4 DEF BootLoad, flash
  <2> QED
    BY <1>1, <1>2, <2>1, <2>2
       DEF TrustInv, HashHasCsv, CycleReplaces, HashIsOlder, HashIsTrue, InPlace, Outdated, Served,
           Replacing, Loaded, At, Go, flash, memory
<1>5. CASE Download
  <2>1. UNCHANGED <<release, csv, hash, table, populated, up>> /\ At("download")
    BY <1>5 DEF Download, flash, memory
  <2>2. CASE Go("sleep")
    BY <1>1, <1>2, <2>1, <2>2
       DEF TrustInv, HashHasCsv, CycleReplaces, HashIsOlder, HashIsTrue, InPlace, Outdated, Served,
           Replacing, Loaded, At, Go, flash, memory
  <2>3. CASE \E d \in OnServers : fetcher' = [fetcher EXCEPT !.pc = "compare", !.new = d]
                                    /\ NoFault
    <3>1. fetcher'.pc = "compare" /\ failures' = failures
      BY <1>1, <2>3 DEF NoFault
    <3>2. trusted' => fetcher'.new = Releases[release]
      BY <1>1, <1>2, <1>5, <2>1, <3>1 DEF GetsLatest, TypeOK
    <3>3. HashHasCsv' /\ CycleReplaces'
      BY <1>1, <2>1, <3>1 DEF HashHasCsv, CycleReplaces, Served, Replacing, Loaded, At
    <3>4. HashIsOlder'
      BY <1>1, <1>2, <2>1, <3>1, <3>2, ReleasesKnown DEF HashIsOlder, Served
    <3>5. HashIsTrue'
      <4> SUFFICES ASSUME trusted', hash # NoHash PROVE InPlace' \/ Outdated'
        BY <2>1 DEF HashIsTrue
      <4>1. InPlace \/ Outdated
        BY <1>1, <1>2 DEF HashIsTrue
      <4>2. InPlace => InPlace'
        BY <2>1, <3>1 DEF InPlace, At
      <4>3. Outdated => Outdated'
        BY <2>1, <3>1, <3>2 DEF Outdated
      <4> QED
        BY <4>1, <4>2, <4>3
    <3> QED
      BY <3>3, <3>4, <3>5 DEF TrustInv
  <2> QED
    BY <1>5, <2>2, <2>3 DEF Download
<1>6. CASE Skip
  BY <1>1, <1>2, <1>6, ReleasesKnown, PhonebookAssumption
     DEF Skip, Same, TrustInv, HashHasCsv, CycleReplaces, HashIsOlder, HashIsTrue, InPlace, Outdated, Served, Replacing, Loaded, At, Go, flash, memory
<1>7. CASE OpenCsv
  <2>1. /\ At("compare") /\ UNCHANGED <<release, hash, table, populated, up>>
        /\ \/ Go("copy") /\ csv' = Empty
           \/ Go("sleep") /\ csv' = csv
        /\ hash # NoHash => ~Same
    BY <1>1, <1>7 DEF OpenCsv, memory, HashHasCsv, At
  <2>2. /\ fetcher'.pc \in {"copy", "sleep"} /\ fetcher'.new = fetcher.new
        /\ fetcher'.pc = "sleep" => csv' = csv
        /\ csv' \in {csv, Empty} /\ fetcher.new \in Data
        /\ hash # NoHash => csv' # Nothing
    BY <1>1, <2>1, PhonebookAssumption DEF Go, Known, At, HashHasCsv
  <2>3. HashHasCsv' /\ CycleReplaces' /\ HashIsOlder'
    <3>1. HashHasCsv'
      BY <1>1, <2>1, <2>2 DEF HashHasCsv, Served, Replacing, Loaded, At
    <3>2. CycleReplaces'
      <4>1. ~Same'
        BY <1>1, <2>1, <2>2, PhonebookAssumption DEF Same
      <4> QED
        BY <2>2, <4>1 DEF CycleReplaces, Served, Replacing, Loaded
    <3>3. HashIsOlder'
      BY <1>1, <1>2, <2>1, <2>2 DEF HashIsOlder, Served, At
    <3> QED
      BY <3>1, <3>2, <3>3
  <2>4. HashIsTrue'
    <3> SUFFICES ASSUME trusted', hash # NoHash PROVE Outdated'
      BY <2>1 DEF HashIsTrue
    <3>1. trusted /\ fetcher.pc \in Served /\ ~Same
      BY <1>2, <2>1 DEF At, Served
    <3>2. hash # HashOf[Releases[release]] /\ hash # HashOf[fetcher.new]
      BY <1>1, <3>1, DifferentIsOutdated
    <3> QED
      BY <2>1, <2>2, <3>2 DEF Outdated
  <2> QED
    BY <2>3, <2>4 DEF TrustInv
<1>8. CASE FillCsv
  <2>1. /\ At("copy") /\ UNCHANGED <<release, hash, table, populated, up>>
        /\ Written(fetcher.new) = {fetcher.new} /\ fetcher.new # Nothing
        /\ CutShort[fetcher.new] \subseteq Data
    BY <1>1, <1>8, WrittenTyped, PhonebookAssumption DEF FillCsv, memory, Validated, At
  <2>2. \/ Go("populate") /\ csv' = fetcher.new
        \/ Go("sleep") /\ csv' \in Data
    BY <1>8, <2>1 DEF FillCsv
  <2>3. csv' # Nothing
    BY <2>1, <2>2, PhonebookAssumption
  <2>4. HashHasCsv' /\ CycleReplaces' /\ HashIsOlder'
    BY <1>1, <1>2, <2>1, <2>2, <2>3
       DEF HashHasCsv, CycleReplaces, HashIsOlder, Served, Replacing, Loaded, At, Go, Same
  <2>5. HashIsTrue'
    <3> SUFFICES ASSUME trusted', hash # NoHash PROVE Outdated'
      BY <2>1 DEF HashIsTrue
    <3>1. trusted /\ fetcher.pc \in Served /\ ~Same
      BY <1>1, <1>2, <2>1 DEF At, Served, Replacing, CycleReplaces
    <3>2. hash # HashOf[Releases[release]] /\ hash # HashOf[fetcher.new]
      BY <1>1, <3>1, DifferentIsOutdated
    <3>3. fetcher'.new = fetcher.new
      BY <1>1, <2>2 DEF Go
    <3> QED
      BY <2>1, <3>2, <3>3 DEF Outdated
  <2> QED
    BY <2>4, <2>5 DEF TrustInv
<1>9. CASE Populate
  <2>1. trusted' => table' = csv
    BY <1>1, <1>2, <1>9 DEF Populate, Fault, TypeOK
  <2>2. /\ At("populate") /\ populated' = TRUE /\ Go("convert")
        /\ UNCHANGED <<release, csv, hash, up>>
    BY <1>9 DEF Populate, flash
  <2> QED
    BY <1>1, <1>2, <2>1, <2>2
       DEF Same, TrustInv, HashHasCsv, CycleReplaces, HashIsOlder, HashIsTrue, InPlace, Outdated, Served,
           Replacing, Loaded, At, Go, flash, memory
<1>10. CASE Convert
  <2>1. /\ up /\ UNCHANGED <<release, csv, hash, table, populated, up>>
        /\ fetcher'.new = fetcher.new
        /\ \/ fetcher.pc = "convert" /\ fetcher'.pc \in {"publish", "sleep"}
           \/ fetcher.pc = "boot_convert" /\ fetcher'.pc \in {"boot_publish", "download"}
    BY <1>1, <1>10 DEF Convert, Abandon, Booting, At, Go, flash, memory
  <2> QED
    BY <1>1, <1>2, <2>1
       DEF Same, TrustInv, HashHasCsv, CycleReplaces, HashIsOlder, HashIsTrue, InPlace, Outdated, Served,
           Replacing, Loaded, At, Go, flash, memory
<1>11. CASE Publish
  <2>1. /\ up /\ UNCHANGED <<release, csv, hash, table, populated, up>>
        /\ fetcher'.new = fetcher.new
        /\ \/ fetcher.pc = "publish" /\ fetcher'.pc \in {"hash", "sleep"}
           \/ fetcher.pc = "boot_publish" /\ fetcher'.pc = "download"
    BY <1>1, <1>11 DEF Publish, Abandon, Booting, At, Go, flash, memory
  <2> QED
    BY <1>1, <1>2, <2>1
       DEF Same, TrustInv, HashHasCsv, CycleReplaces, HashIsOlder, HashIsTrue, InPlace, Outdated, Served,
           Replacing, Loaded, At, Go, flash, memory
<1>12. CASE OpenHash
  BY <1>1, <1>2, <1>12, ReleasesKnown, PhonebookAssumption
     DEF OpenHash, Same, TrustInv, HashHasCsv, CycleReplaces, HashIsOlder, HashIsTrue, InPlace, Outdated, Served, Replacing, Loaded, At, Go, flash, memory
<1>13. CASE FillHash
  <2>1. /\ At("fill_hash") /\ Go("sleep") /\ hash' = HashOf[fetcher.new]
        /\ UNCHANGED <<release, csv, table, populated, up>>
    BY <1>13 DEF FillHash, memory
  <2>2. csv = fetcher.new /\ populated /\ fetcher.new # Nothing
    BY <1>1, <2>1, PhonebookAssumption DEF At, CycleReplaces, HashHasCsv, Loaded, Replacing, Served, Known
  <2>3. HashHasCsv' /\ CycleReplaces'
    BY <1>1, <2>1, <2>2, PhonebookAssumption
       DEF HashHasCsv, CycleReplaces, Served, Replacing, Loaded, At, Go
  <2>4. trusted => /\ table = fetcher.new
                   /\ \E k \in 1..release : fetcher.new = Releases[k]
    BY <1>1, <2>1 DEF At, CycleReplaces, HashIsOlder, Loaded, Replacing, Served
  <2>5. HashIsOlder'
    BY <1>1, <1>2, <2>1, <2>4 DEF HashIsOlder, Served, At, Go
  <2>6. HashIsTrue'
    BY <1>1, <1>2, <2>1, <2>2, <2>4, ReleasesKnown
       DEF HashIsTrue, InPlace, At, Go
  <2> QED
    BY <2>3, <2>5, <2>6 DEF TrustInv
<1>14. CASE Wake
  BY <1>1, <1>2, <1>14, ReleasesKnown, PhonebookAssumption
     DEF Wake, TrustInv, HashHasCsv, CycleReplaces, HashIsOlder, HashIsTrue, InPlace, Outdated, Served, Replacing, Loaded, At, Go, flash, memory
<1>15. CASE Updater
  BY <1>1, <1>2, <1>15, ReleasesKnown, PhonebookAssumption
     DEF Updater, OpenPublic, PublishMarked, Same, TrustInv, HashHasCsv, CycleReplaces, HashIsOlder, HashIsTrue, InPlace, Outdated, Served, Replacing, Loaded, At, Go, flash, memory
<1>16. CASE Crash
  BY <1>1, <1>2, <1>16, ReleasesKnown, PhonebookAssumption
     DEF Crash, Starting, Same, TrustInv, HashHasCsv, CycleReplaces, HashIsOlder, HashIsTrue, InPlace, Outdated, Served, Replacing, Loaded, At, Go, flash, memory
<1>17. CASE Start
  BY <1>1, <1>2, <1>17, ReleasesKnown, PhonebookAssumption
     DEF Start, TypeOK, Starting, Same, TrustInv, HashHasCsv, CycleReplaces, HashIsOlder, HashIsTrue, InPlace, Outdated, Served, Replacing, Loaded, At, Go, flash, memory
<1>18. CASE Release
  <2>1. /\ UNCHANGED <<csv, hash, table, populated, fetcher, up>> /\ release' = release + 1
        /\ release \in Nat /\ TypeOK'
    BY <1>1, <1>18, ReleasesKnown, StepInv DEF Release, flash, memory, HistoryNext, Inv
  <2>2. \A j \in 1..release' : j \in 1..release \/ j = release'
    BY <2>1
  <2>3. \A i, j \in 1..release' :
           /\ HashOf[Releases[i]] # NoHash
           /\ i <= j /\ HashOf[Releases[i]] = HashOf[Releases[release']] =>
                 HashOf[Releases[j]] = HashOf[Releases[i]]
    <3>1. Len(Releases) \in Nat /\ DOMAIN Releases = 1..Len(Releases)
      BY PhonebookAssumption
    <3>2. \A i \in 1..release' : i \in DOMAIN Releases /\ i <= release' /\ release' \in 1..release'
      BY <2>1, <3>1 DEF TypeOK
    <3>3. \A i \in DOMAIN Releases : HashOf[Releases[i]] # NoHash
      <4>1. \A i \in DOMAIN Releases : Releases[i] \in Data
        BY PhonebookAssumption
      <4>2. \A d \in Data : HashOf[d] # NoHash
        BY PhonebookAssumption
      <4> QED
        BY <4>1, <4>2
    <3> QED
      BY <3>2, <3>3 DEF NoReturn
  <2>4. HashHasCsv' /\ CycleReplaces'
    BY <1>1, <1>2, <2>1 DEF HashHasCsv, CycleReplaces, Same
  <2>0. \A k \in 1..release : k \in 1..release' /\ k <= release
    BY <2>1
  <2>5. HashIsOlder'
    <3> SUFFICES ASSUME trusted'
                 PROVE  /\ hash # NoHash => \E j \in 1..release' : hash = HashOf[Releases[j]]
                        /\ fetcher.pc \in Served =>
                              \E k \in 1..release' :
                                  /\ fetcher.new = Releases[k]
                                  /\ \A j \in 1..release' :
                                        hash = HashOf[Releases[j]] =>
                                            j <= k \/ hash = HashOf[Releases[k]]
      BY <2>1 DEF HashIsOlder
    <3>1. hash # NoHash => \E j \in 1..release : hash = HashOf[Releases[j]]
      BY <1>1, <1>2 DEF HashIsOlder
    <3>2. ASSUME fetcher.pc \in Served
          PROVE  \E k \in 1..release' :
                    /\ fetcher.new = Releases[k]
                    /\ \A j \in 1..release' :
                          hash = HashOf[Releases[j]] => j <= k \/ hash = HashOf[Releases[k]]
      <4>1. PICK k \in 1..release :
               /\ fetcher.new = Releases[k]
               /\ \A j \in 1..release :
                     hash = HashOf[Releases[j]] => j <= k \/ hash = HashOf[Releases[k]]
        BY <1>1, <1>2, <3>2 DEF HashIsOlder
      <4>2. ASSUME hash = HashOf[Releases[release']]
            PROVE  hash = HashOf[Releases[k]]
        <5>1. release' \in 1..release'
          BY <2>1
        <5>2. hash # NoHash
          BY <2>3, <4>2, <5>1
        <5>3. PICK j \in 1..release : hash = HashOf[Releases[j]]
          BY <3>1, <5>2
        <5>4. CASE j <= k
          BY <2>0, <2>3, <4>2, <5>3, <5>4
        <5> QED
          BY <4>1, <5>3, <5>4
      <4> QED
        BY <2>0, <2>2, <4>1, <4>2
    <3> QED
      BY <2>0, <3>1, <3>2
  <2>6. HashIsTrue'
    <3> SUFFICES ASSUME trusted', hash # NoHash PROVE InPlace' \/ Outdated'
      BY <2>1 DEF HashIsTrue
    <3>1. InPlace \/ Outdated
      BY <1>1, <1>2 DEF HashIsTrue
    <3>2. InPlace => InPlace'
      BY <2>0, <2>1 DEF InPlace
    <3>3. ASSUME Outdated PROVE Outdated'
      <4>1. PICK j \in 1..release : hash = HashOf[Releases[j]]
        BY <1>1, <1>2 DEF HashIsOlder
      <4>2. hash # HashOf[Releases[release]]
        BY <3>3 DEF Outdated
      <4>3. release \in 1..release
        BY <1>1, ReleasesKnown
      <4>4. hash # HashOf[Releases[release']]
        BY <2>0, <2>3, <4>1, <4>2, <4>3
      <4> QED
        BY <2>1, <3>3, <4>4 DEF Outdated
    <3> QED
      BY <3>1, <3>2, <3>3
  <2> QED
    BY <2>4, <2>5, <2>6 DEF TrustInv
<1>19. CASE UNCHANGED <<vars, trusted>>
  BY <1>1, <1>2, <1>19, ReleasesKnown, PhonebookAssumption
     DEF vars, Same, TrustInv, HashHasCsv, CycleReplaces, HashIsOlder, HashIsTrue, InPlace, Outdated, Served, Replacing, Loaded, At, Go, flash, memory
<1> QED
  BY <1>3, <1>4, <1>5, <1>6, <1>7, <1>8, <1>9, <1>10, <1>11, <1>12, <1>13, <1>14, <1>15, <1>16, <1>17, <1>18, <1>19 DEF HistoryNext, Next, Fetcher

\* As long as a write that fails is reported and the servers do not return to a hash they
\* have left, a cycle that ends at the comparison leaves in flash and in the table one and
\* the same release, which has the hash of what was downloaded, whatever else fails and
\* wherever the process dies.  Releases may share a hash with those next to them: then it
\* need not be the release that was downloaded.
THEOREM SkippingIsSafe == Reported /\ NoReturn => (HistorySpec => SkipIsSafe)
<1> SUFFICES ASSUME Reported, NoReturn PROVE HistorySpec => SkipIsSafe
  OBVIOUS
<1>1. HistoryInit => Inv /\ TrustInv
  BY InitInv, TrustInit DEF HistoryInit
<1>2. Inv /\ TrustInv /\ [HistoryNext]_<<vars, trusted>> => (Inv /\ TrustInv)'
  <2> SUFFICES ASSUME Inv, TrustInv, [HistoryNext]_<<vars, trusted>>
               PROVE  Inv' /\ TrustInv'
    OBVIOUS
  <2>1. [Next]_vars
    BY DEF HistoryNext, vars
  <2> QED
    BY <2>1, StepInv, TrustStep
<1>3. Inv /\ TrustInv /\ [HistoryNext]_<<vars, trusted>> =>
          [Skip /\ trusted => /\ table = csv
                              /\ \E j \in 1..release : csv = Releases[j]
                              /\ HashOf[csv] = HashOf[fetcher.new]]_vars
  <2> SUFFICES ASSUME Inv, TrustInv, Skip, trusted
               PROVE  /\ table = csv
                      /\ \E j \in 1..release : csv = Releases[j]
                      /\ HashOf[csv] = HashOf[fetcher.new]
    OBVIOUS
  <2>1. At("compare") /\ hash = HashOf[fetcher.new]
    BY DEF Skip, Same
  <2>2. fetcher.new \in Data
    BY <2>1 DEF Inv, Known, At
  <2>3. hash # NoHash
    BY <2>1, <2>2, PhonebookAssumption
  <2>4. ~Outdated
    BY <2>1 DEF Outdated, Served, At
  <2>5. InPlace
    BY <2>3, <2>4 DEF TrustInv, HashIsTrue
  <2> QED
    BY <2>1, <2>5 DEF InPlace, At
<1> QED
  BY <1>1, <1>2, <1>3, PTL DEF HistorySpec, SkipIsSafe
=============================================================================
