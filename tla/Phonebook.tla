------------------------------ MODULE Phonebook ------------------------------
(***************************************************************************)
(* phonebook_fetcher_thread and status_updater_thread: how a phonebook     *)
(* goes from a server to the CSV in flash, the table of users, the public  *)
(* XML file and the stored hash, in that order, with failures and crashes  *)
(* between any two steps.  Flash survives a crash, the table does not.     *)
(*                                                                         *)
(* A publication is one step here: SafePublish says what its outcomes are. *)
(* So is the load of the table, which UserTable has row by row.            *)
(***************************************************************************)
EXTENDS Naturals, Sequences, FiniteSets

CONSTANTS
    Data,         \* contents of a phonebook, whole or cut short
    Nothing,      \* no file, no table
    Empty,        \* the content of a file that has just been opened for writing
    CutShort,     \* what a copy of each content can leave when it stops early
    Valid,        \* contents with at least one row with a telephone
    Hashes,       \* what the files are compared by
    NoHash,       \* no hash is stored
    HashOf,       \* the hash of each content, which contents may share
    Releases,     \* what the servers publish, in time
    Faults,       \* what may happen: "crash"; "download", "cut", "lag"; "copy", "flush",
                  \* "read", "convert", "publish", "hash"
    MaxFailures,  \* bound of how often
    Updating      \* whether the status updater runs

ASSUME PhonebookAssumption ==
    /\ Nothing \notin Data
    /\ Empty \in Data
    /\ CutShort \in [Data -> SUBSET Data]
    /\ \A d \in Data : Empty \in CutShort[d]
    /\ Valid \subseteq Data
    /\ HashOf \in [Data -> Hashes]
    /\ NoHash \notin Hashes
    /\ Releases \in Seq(Valid) /\ Releases # <<>>
    /\ MaxFailures \in Nat
    /\ Updating \in BOOLEAN

VARIABLES
    release,    \* how many releases the servers have seen
    csv,        \* PB_CSV_PATH, in flash
    hash,       \* PB_LAST_GOOD_CSV_HASH_PATH, in flash
    table,      \* the phonebook in registered_users
    populated,  \* initial_population_done
    public,     \* PB_XML_PUBLIC_PATH: the content it was made from
    fetcher,    \* the fetcher thread: its step, what it downloaded and converted
    seen,       \* what the status updater is rewriting
    up,         \* whether the process runs
    failures    \* failures so far

flash == <<csv, hash>>
memory == <<table, populated>>
vars == <<release, csv, hash, table, populated, public, fetcher, seen, up, failures>>

At(step) == up /\ fetcher.pc = step
Go(step) == fetcher' = [fetcher EXCEPT !.pc = step]
Starting == [pc |-> "boot", new |-> Nothing, xml |-> Nothing]

NoFault == UNCHANGED failures
Fault(f) ==
    /\ f \in Faults /\ failures < MaxFailures
    /\ failures' = failures + 1

\* What a file holds when its writer is done: fflush, fsync and fprintf are not
\* checked, so it may be cut short all the same.
Written(d) == {d} \cup (IF "flush" \in Faults THEN CutShort[d] ELSE {})

-----------------------------------------------------------------------------
(* Emergency boot: the CSV in flash is loaded and published *)

BootNothing ==
    /\ At("boot") /\ csv = Nothing
    /\ Go("download")
    /\ NoFault
    /\ UNCHANGED <<release, flash, memory, public, seen, up>>

BootLoad ==
    /\ At("boot") /\ csv # Nothing
    /\ populated' = TRUE
    /\ Go("boot_convert")
    /\ \/ table' = csv /\ NoFault
       \/ UNCHANGED table /\ Fault("read")
    /\ UNCHANGED <<release, flash, public, seen, up>>

-----------------------------------------------------------------------------
(* A cycle: download, compare, copy, populate, convert, publish, write hash *)

\* The first server that answers: a mirror may be behind.  A connection that is
\* closed early is taken for the end of the file.
OnServers ==
    LET offered == {Releases[r] : r \in IF "lag" \in Faults THEN 1..release ELSE {release}}
    IN  offered \cup (IF "cut" \in Faults THEN UNION {CutShort[d] : d \in offered} ELSE {})

Download ==
    /\ At("download")
    /\ \/ \E d \in OnServers \cap Valid :
             /\ fetcher' = [fetcher EXCEPT !.pc = "compare", !.new = d]
             /\ NoFault
       \/ OnServers \ Valid # {} /\ Go("sleep") /\ NoFault
       \/ Go("sleep") /\ Fault("download")
    /\ UNCHANGED <<release, flash, memory, public, seen, up>>

Same == hash = HashOf[fetcher.new]

Skip ==
    /\ At("compare") /\ Same /\ populated
    /\ Go("sleep")
    /\ NoFault
    /\ UNCHANGED <<release, flash, memory, public, seen, up>>

\* Mutant: the hash is stored before the copy.
OpenCsvHashing ==
    /\ At("compare") /\ ~(Same /\ populated)
    /\ Go("copy") /\ csv' = Empty /\ hash' = HashOf[fetcher.new] /\ NoFault
    /\ UNCHANGED <<release, memory, public, seen, up>>

\* file_utils_copy_file opens the CSV in flash itself, which empties it.
OpenCsv ==
    /\ At("compare") /\ ~(Same /\ populated)
    /\ \/ Go("copy") /\ csv' = Empty /\ NoFault
       \/ Go("sleep") /\ UNCHANGED csv /\ Fault("copy")
    /\ UNCHANGED <<release, hash, memory, public, seen, up>>

\* Mutant: the result of the copy is not read.
FillCsvUnread ==
    /\ At("copy")
    /\ Go("populate")
    /\ \/ csv' \in Written(fetcher.new) /\ NoFault
       \/ csv' \in CutShort[fetcher.new] /\ Fault("copy")
    /\ UNCHANGED <<release, hash, memory, public, seen, up>>

FillCsv ==
    /\ At("copy")
    /\ \/ Go("populate") /\ csv' \in Written(fetcher.new) /\ NoFault
       \/ Go("sleep") /\ csv' \in CutShort[fetcher.new] /\ Fault("copy")
    /\ UNCHANGED <<release, hash, memory, public, seen, up>>

\* Mutant: the table is loaded the first time only.
PopulateOnce ==
    /\ At("populate")
    /\ populated' = TRUE
    /\ Go("convert")
    /\ table' = IF populated THEN table ELSE csv
    /\ NoFault
    /\ UNCHANGED <<release, flash, public, seen, up>>

Populate ==
    /\ At("populate")
    /\ populated' = TRUE
    /\ Go("convert")
    /\ \/ table' = csv /\ NoFault
       \/ UNCHANGED table /\ Fault("read")
    /\ UNCHANGED <<release, flash, public, seen, up>>

\* At boot the cycle that follows does not wait.
Booting == fetcher.pc \in {"boot_convert", "boot_publish"}
Abandon == Go(IF Booting THEN "download" ELSE "sleep")

Convert ==
    /\ At("convert") \/ At("boot_convert")
    /\ \/ \E d \in Written(csv) :
             /\ fetcher' = [fetcher EXCEPT
                              !.pc = IF Booting THEN "boot_publish" ELSE "publish",
                              !.xml = d]
             /\ NoFault
       \/ Abandon /\ Fault("convert")
    /\ UNCHANGED <<release, flash, memory, public, seen, up>>

\* publish_phonebook_xml: a failure may leave either version.
Publish ==
    /\ At("publish") \/ At("boot_publish")
    /\ \/ public' = fetcher.xml /\ Go(IF Booting THEN "download" ELSE "hash") /\ NoFault
       \/ public' \in {public, fetcher.xml} /\ Abandon /\ Fault("publish")
    /\ UNCHANGED <<release, flash, memory, seen, up>>

\* The file is opened, then written.
OpenHash ==
    /\ At("hash")
    /\ \/ ~Same /\ Go("fill_hash") /\ hash' = NoHash /\ NoFault
       \/ ~Same /\ Go("sleep") /\ UNCHANGED hash /\ Fault("hash")
       \/ Same /\ Go("sleep") /\ UNCHANGED hash /\ NoFault
    /\ UNCHANGED <<release, csv, memory, public, seen, up>>

FillHash ==
    /\ At("fill_hash")
    /\ hash' = HashOf[fetcher.new]
    /\ Go("sleep")
    /\ NoFault
    /\ UNCHANGED <<release, csv, memory, public, seen, up>>

\* The interval is over, or a reload was requested.
Wake ==
    /\ At("sleep")
    /\ Go("download")
    /\ NoFault
    /\ UNCHANGED <<release, flash, memory, public, seen, up>>

Fetcher ==
    \/ BootNothing \/ BootLoad
    \/ Download \/ Skip \/ OpenCsv \/ FillCsv
    \/ Populate \/ Convert \/ Publish \/ OpenHash \/ FillHash \/ Wake

-----------------------------------------------------------------------------
(* The status updater marks the entries of the public file whose phones     *)
(* have a name in the DNS, which may take long, and publishes the result.   *)

OpenPublic ==
    /\ up /\ Updating
    /\ seen = Nothing /\ public # Nothing
    /\ seen' = public
    /\ NoFault
    /\ UNCHANGED <<release, flash, memory, public, fetcher, up>>

PublishMarked ==
    /\ up /\ seen # Nothing
    /\ seen' = Nothing
    /\ \E d \in Written(seen) :
          \/ public' = d /\ NoFault
          \/ public' \in {public, d} /\ Fault("publish")
    /\ UNCHANGED <<release, flash, memory, fetcher, up>>

Updater == OpenPublic \/ PublishMarked

-----------------------------------------------------------------------------
(* The process and the servers *)

Crash ==
    /\ up /\ up' = FALSE
    /\ Fault("crash")
    /\ table' = Nothing /\ populated' = FALSE
    /\ seen' = Nothing
    /\ fetcher' = Starting
    /\ UNCHANGED <<release, flash, public>>

\* main deletes the public file before it creates the threads.
Start ==
    /\ ~up /\ up' = TRUE
    /\ public' = Nothing
    /\ NoFault
    /\ UNCHANGED <<release, flash, memory, fetcher, seen>>

Release ==
    /\ release < Len(Releases) /\ release' = release + 1
    /\ NoFault
    /\ UNCHANGED <<flash, memory, public, fetcher, seen, up>>

Init ==
    /\ release = 1
    /\ csv = Nothing /\ hash = NoHash
    /\ table = Nothing /\ populated = FALSE
    /\ public = Nothing
    /\ fetcher = Starting
    /\ seen = Nothing
    /\ up = TRUE
    /\ failures = 0

Next == Fetcher \/ Updater \/ Crash \/ Start \/ Release

\* The fetcher wakes up every hour, procd restarts the process, and no call of the
\* fetcher blocks for ever.
Fairness == WF_vars(Fetcher) /\ WF_vars(Start)

Spec == Init /\ [][Next]_vars

-----------------------------------------------------------------------------
(* Properties *)

\* Every variable has its type, and a process that is down has nothing in memory.
TypeOK ==
    /\ release \in DOMAIN Releases
    /\ csv \in Data \cup {Nothing} /\ hash \in Hashes \cup {NoHash}
    /\ {table, public, seen} \subseteq Data \cup {Nothing}
    /\ populated \in BOOLEAN /\ up \in BOOLEAN
    /\ fetcher \in
         [pc : {"boot", "boot_convert", "boot_publish", "download", "compare", "copy",
                "populate", "convert", "publish", "hash", "fill_hash", "sleep"},
          new : Data \cup {Nothing}, xml : Data \cup {Nothing}]
    /\ failures \in 0..MaxFailures
    /\ ~up => table = Nothing /\ ~populated /\ seen = Nothing /\ fetcher = Starting

\* While the program runs the table goes from one phonebook with rows to another, and is
\* never cleared for less, whatever fails or arrives: only an emergency boot may load what
\* a crash left of a copy.  A write that fails must be reported for this, and a file that
\* was opened must be readable to its end.
TableStaysValid ==
    [][table' # table /\ up /\ up' /\ ~At("boot") => table' \in Valid]_vars

-----------------------------------------------------------------------------
(* The history variable "trusted" is true until a mirror serves an older    *)
(* release or a part of one, or the CSV in flash cannot be read: what the   *)
(* comparison of hashes takes for granted.                                  *)

VARIABLE trusted

GetsLatest == fetcher'.pc = "compare" /\ fetcher'.new = Releases[release]

HistoryInit == Init /\ trusted = TRUE
HistoryNext ==
    /\ Next
    /\ trusted' = (trusted /\ (Download => GetsLatest \/ failures' > failures)
                           /\ (Populate \/ BootLoad => UNCHANGED failures))
HistorySpec == HistoryInit /\ [][HistoryNext]_<<vars, trusted>> /\ Fairness

\* A cycle of the fetcher ends early only when flash and table hold the same phonebook,
\* one that the servers have published and that the hash cannot tell from the one that
\* was downloaded, whatever failed or crashed before.  It need not be the one that was
\* downloaded: see SkippedIsIdentical.  This takes releases that share a hash only with
\* those right before and after them: if the servers go back to the release whose hash
\* is stored after the copy of the next one has failed, the cycle ends on what the copy
\* left.
SkipIsSafe ==
    [][Skip /\ trusted =>
          /\ table = csv
          /\ \E j \in 1..release : csv = Releases[j]
          /\ HashOf[csv] = HashOf[fetcher.new]]_vars

\* Flash and table hold a release that the hash cannot tell from release r.
Matches(r) ==
    /\ table = csv
    /\ \E j \in 1..r : csv = Releases[j] /\ HashOf[csv] = HashOf[Releases[r]]

\* Once the servers stop changing and nothing fails any more, flash and table get a
\* phonebook with the hash of the last release and keep it, although every step before
\* may have failed half-way.  It is the last release itself when no release before it
\* has its hash; otherwise the last release may never arrive.
Converges ==
    []trusted => \A r \in DOMAIN Releases : <>[](release = r) => <>[]Matches(r)

-----------------------------------------------------------------------------
(* What the sources say, and the code does not do *)

\* phonebook_fetcher.c:176, "Downloaded CSV is identical to flash copy": checked without
\* any fault, with an edit that the checksum does not see; and with releases of different
\* checksums, with mirrors that lag behind, and with writes whose failure goes unnoticed.
SkippedIsIdentical == [][Skip => csv = fetcher.new]_vars

\* The functional specification, "The user table is never cleared unless we have verified
\* good data in hand": checked with writes whose failure goes unnoticed.
ClearedForGoodOnly == TableStaysValid

\* The functional specification, "Last good phonebook never deleted (persistent storage
\* only updated after validation)".
LastGoodKept == [][(csv \in Valid) => (csv' \in Valid)]_vars

\* The functional specification, "Updates hash file on successful processing": when
\* neither thread is at work, the phonebook whose hash is stored is the public one.
HashedIsPublic ==
    At("sleep") /\ seen = Nothing /\ csv \in Data /\ hash = HashOf[csv] => public = csv
=============================================================================
