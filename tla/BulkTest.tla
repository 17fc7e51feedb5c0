------------------------------ MODULE BulkTest -------------------------------
(***************************************************************************)
(* The bulk test of the phones, ping_bulk_test.c, and the table of results *)
(* it keeps in shared memory for the dashboard, phone_ping.c, composed     *)
(* with the table of users that the main thread and the fetcher change     *)
(* while it runs.                                                          *)
(*                                                                         *)
(* Each cycle walks over registered_users[] with registered_users_mutex    *)
(* held, DNS lookups included, and releases it while a phone is tested.    *)
(* The entry under test is a pointer into the table: its id is read again  *)
(* for every test and for the result.  The functions of user_manager.c     *)
(* hold the mutex from their first to their last access, so they are       *)
(* single steps that need it free.                                         *)
(*                                                                         *)
(* A result is told apart by the phones that were dialled for it.  What    *)
(* the tests measure is left out, traced routes are only logged, and the   *)
(* softphone that places the test calls is in Softphone.                   *)
(***************************************************************************)
EXTENDS UserTable, FiniteSetsExt

CONSTANTS
    Configs,      \* the configurations of the tests that are looked at
    MaxResults,   \* MAX_PING_RESULTS
    Leftovers,    \* what an earlier process may have left in the shared memory
    MaxTime,      \* bound: values of the clock
    MaxChanges    \* bound: REGISTERs and phonebook loads

\* PHONE_PING_COUNT and PHONE_OPTIONS_COUNT positive, PHONE_CALL_TEST_ENABLED, and
\* a host name that can be read when a route is traced.
Config == [ping : BOOLEAN, options : BOOLEAN, call : BOOLEAN, hostname : BOOLEAN]

Entries == 1..MaxResults

\* A result, for the ids that were dialled for it; cut if the test was cut off.
Result == [phone : Ids, valid : BOOLEAN, stamp : 0..MaxTime, of : SUBSET Ids, cut : BOOLEAN]

\* The shared memory outlives the process.  What it holds at the start is older than
\* the process, and kept the way this process keeps it.
Memory == {m \in [results : [Entries -> Result], header : Nat] :
              LET res == m.results IN
              \A r \in Entries :
                 /\ res[r].valid => res[r].stamp = 0
                 /\ res[r].cut \/ res[r].of \subseteq {res[r].phone}
                 /\ \A q \in Entries :
                      res[q].valid /\ res[r].valid /\ res[q].phone = res[r].phone => q = r}

ASSUME BulkAssumption ==
    /\ Configs \subseteq Config
    /\ MaxResults \in Nat \ {0}
    /\ MaxTime \in Nat \ {0}
    /\ MaxChanges \in Nat

\* Set apart, because it depends on the bounds of the above.
ASSUME LeftoverAssumption == \A m \in Leftovers : m \in Memory

Phases == {"asleep", "scan", "ping", "options", "call", "write", "stamp", "relock"}

VARIABLES
    config,    \* the configuration, read before the thread starts
    mutex,     \* registered_users_mutex: "free", or "bulk" while the tester holds it
    pc,        \* where the tester is
    at,        \* the slot it is at
    test,      \* history of the test: the ids dialled, and whether it was cut off
    entry,     \* the entry of the result that is being written, if any
    results,   \* results[] of the shared memory
    counted,   \* phones_online + phones_offline
    header,    \* num_results of the shared memory
    now,       \* time(NULL)
    began,     \* history: when the cycle began, at first the process
    kept,      \* history: entries that have not left their slot since then
    recorded,  \* history: ids with a result of this cycle
    unnamed,   \* history: ids that this cycle found without a DNS entry
    changes    \* REGISTERs and loads so far

testerVars == <<config, mutex, pc, at, test, entry, results, counted, header, now,
                began, kept, recorded, unnamed>>
bulkVars == <<vars, testerVars, changes>>

NoTest == [dialled |-> {}, cut |-> FALSE]

Here == users[at].id

-----------------------------------------------------------------------------
(* phone_ping_write_result *)

OfPhone(id) == {r \in Entries : results[r].valid /\ results[r].phone = id}
Unused == {r \in Entries : ~results[r].valid}
Oldest == {r \in Entries : \A q \in Entries : results[r].stamp <= results[q].stamp}

\* Mutant: an unused entry is taken even if the phone has one.
EntryNew(id) == Min(IF Unused # {} THEN Unused ELSE Oldest)

\* Mutant: the first entry is overwritten when the table is full.
EntryFirst(id) == Min(IF OfPhone(id) # {} THEN OfPhone(id) ELSE Unused \cup {1})

\* The entry of the phone, else the first unused one, else the oldest.
EntryFor(id) ==
    Min(IF OfPhone(id) # {} THEN OfPhone(id)
        ELSE IF Unused # {} THEN Unused ELSE Oldest)

\* The entry is overwritten with a record that is not valid yet; the id is read
\* from the table now, without the mutex.
WriteResult ==
    /\ pc = "write"
    /\ entry' = EntryFor(Here)
    /\ results' = [results EXCEPT ![entry'] =
                      [phone |-> Here, valid |-> FALSE, stamp |-> 0,
                       of |-> test.dialled, cut |-> test.cut]]
    /\ recorded' = recorded \cup {Here}
    /\ pc' = "stamp"
    /\ UNCHANGED <<config, mutex, at, test, counted, header, now, began, kept, unnamed>>

\* The record turns valid and is dated, and the header counts the valid ones.
StampResult ==
    /\ pc = "stamp"
    /\ now' \in {t \in now..now + 1 : t <= MaxTime}
    /\ results' = [results EXCEPT ![entry].valid = TRUE, ![entry].stamp = now']
    /\ header' = Cardinality(Entries \ (Unused \ {entry}))
    /\ test' = NoTest
    /\ entry' = 0
    /\ pc' = "relock"
    /\ UNCHANGED <<config, mutex, at, counted, began, kept, recorded, unnamed>>

-----------------------------------------------------------------------------
(* The tests of one phone *)

Dial == test' = [test EXCEPT !.dialled = @ \cup {Here}]

\* The phase that follows the ping, given the tests that are configured.
AfterPing == IF config.options THEN "options" ELSE "call"

Ping ==
    /\ pc = "ping"
    /\ Dial
    /\ \/ pc' = AfterPing /\ UNCHANGED counted
       \/ pc' = "write" /\ counted' = counted + 1
    /\ UNCHANGED <<config, mutex, at, entry, results, header, now, began, kept, recorded, unnamed>>

OptionsAnswered ==
    /\ pc = "options"
    /\ Dial
    /\ counted' = counted + 1
    /\ pc' = "write"
    /\ UNCHANGED <<config, mutex, at, entry, results, header, now, began, kept, recorded, unnamed>>

\* The phone answers, and the host name for its route cannot be read: the loop
\* goes on to the next user, without a result and without the mutex.
OptionsSkipped ==
    /\ pc = "options"
    /\ ~config.hostname
    /\ counted' = counted + 1
    /\ at' = at + 1
    /\ pc' = "scan"
    /\ test' = NoTest
    /\ UNCHANGED <<config, mutex, entry, results, header, now, began, kept, recorded, unnamed>>

OptionsUnanswered ==
    /\ pc = "options"
    /\ Dial
    /\ pc' = "call"
    /\ UNCHANGED <<config, mutex, at, entry, results, counted, header, now, began, kept, recorded, unnamed>>

\* The INVITE test is off.
NoCall ==
    /\ pc = "call"
    /\ ~config.call
    /\ counted' = counted + 1
    /\ pc' = "write"
    /\ UNCHANGED <<config, mutex, at, test, entry, results, header, now, began, kept, recorded, unnamed>>

\* The phone rings, answers or refuses, or is silent; or the call cannot be placed,
\* and the phone is counted neither way.
Call ==
    /\ pc = "call"
    /\ config.call
    /\ Dial
    /\ counted' \in {counted, counted + 1}
    /\ pc' = "write"
    /\ UNCHANGED <<config, mutex, at, entry, results, header, now, began, kept, recorded, unnamed>>

-----------------------------------------------------------------------------
(* The walk *)

\* The header starts again from zero, and the table is locked for the walk.
BeginCycle ==
    /\ pc = "asleep"
    /\ mutex = "free"
    /\ now < MaxTime
    /\ mutex' = "bulk"
    /\ pc' = "scan"
    /\ at' = 1
    /\ counted' = 0
    /\ header' = 0
    /\ now' = now + 1
    /\ began' = now'
    /\ kept' = {<<s, users[s].id>> : s \in Occupied}
    /\ recorded' = {}
    /\ unnamed' = {}
    /\ UNCHANGED <<config, test, entry, results>>

SkipEmpty ==
    /\ pc = "scan" /\ at \in Slots
    /\ Here = NoId
    /\ at' = at + 1
    /\ UNCHANGED <<config, mutex, pc, test, entry, results, counted, header, now, began, kept, recorded, unnamed>>

Unresolved ==
    /\ pc = "scan" /\ at \in Slots
    /\ Here # NoId
    /\ unnamed' = unnamed \cup {Here}
    /\ at' = at + 1
    /\ UNCHANGED <<config, mutex, pc, test, entry, results, counted, header, now, began, kept, recorded>>

\* Mutant: the mutex stays locked during the tests.
ResolvedLocked ==
    /\ pc = "scan" /\ at \in Slots
    /\ Here # NoId
    /\ pc' = IF config.ping THEN "ping" ELSE AfterPing
    /\ test' = NoTest
    /\ UNCHANGED <<config, mutex, at, entry, results, counted, header, now, began, kept, recorded, unnamed>>

\* The phone has a DNS entry: the table is unlocked while it is tested.
Resolved ==
    /\ pc = "scan" /\ at \in Slots
    /\ Here # NoId
    /\ mutex' = "free"
    /\ pc' = IF config.ping THEN "ping" ELSE AfterPing
    /\ test' = NoTest
    /\ UNCHANGED <<config, at, entry, results, counted, header, now, began, kept, recorded, unnamed>>

Relock ==
    /\ pc = "relock"
    /\ mutex = "free"
    /\ mutex' = "bulk"
    /\ at' = at + 1
    /\ pc' = "scan"
    /\ UNCHANGED <<config, test, entry, results, counted, header, now, began, kept, recorded, unnamed>>

\* The walk is over: the table is unlocked and the header counts the phones tested.
EndCycle ==
    /\ pc = "scan" /\ at \notin Slots
    /\ mutex' = "free"
    /\ header' = counted
    /\ pc' = "asleep"
    /\ UNCHANGED <<config, at, test, entry, results, counted, now, began, kept, recorded, unnamed>>

Walk == SkipEmpty \/ Unresolved \/ Resolved \/ Relock \/ EndCycle
TestPhone == Ping \/ OptionsAnswered \/ OptionsSkipped \/ OptionsUnanswered \/ NoCall \/ Call
Tester == BeginCycle \/ Walk \/ TestPhone \/ WriteResult \/ StampResult

-----------------------------------------------------------------------------
(* The other threads *)

Testing == pc \in {"ping", "options", "call", "write"}

\* The REGISTER of the last step signs off the user under test, who has no
\* directory entry.
SignsOff ==
    /\ ~users[at].known
    /\ lastReg'.id = Here /\ ~Lasting(lastReg'.expires)

Watch(cuts) ==
    /\ test' = IF Testing /\ cuts THEN [test EXCEPT !.cut = TRUE] ELSE test
    /\ kept' = {k \in kept : users'[k[1]].id = k[2]}
    /\ UNCHANGED <<config, mutex, pc, at, entry, results, counted, header,
                   now, began, recorded, unnamed>>

\* A load drops every entry, also the one under test.
OthersLoad ==
    /\ mutex = "free"
    /\ changes < MaxChanges /\ changes' = changes + 1
    /\ \E book \in Phonebooks : BeginLoad(book)
    /\ Watch(TRUE)

OthersRegister ==
    /\ mutex = "free"
    /\ changes < MaxChanges /\ changes' = changes + 1
    /\ MainThread
    /\ Watch(SignsOff)

OthersRow ==
    /\ mutex = "free"
    /\ AddRow
    /\ Watch(FALSE)
    /\ UNCHANGED changes

OthersEnd ==
    /\ EndLoad
    /\ Watch(FALSE)
    /\ UNCHANGED changes

Others == OthersLoad \/ OthersRegister \/ OthersRow \/ OthersEnd

-----------------------------------------------------------------------------

\* phone_ping_init clears the memory when it is new, or of another version only.
BulkInit ==
    /\ Init
    /\ config \in Configs
    /\ mutex = "free"
    /\ pc = "asleep"
    /\ at = 1
    /\ test = NoTest
    /\ entry = 0
    /\ \E m \in Leftovers : results = m.results /\ header = m.header
    /\ counted = 0
    /\ now = 1
    /\ began = 1
    /\ kept = {}
    /\ recorded = {}
    /\ unnamed = {}
    /\ changes = 0

BulkNext ==
    \/ Tester /\ UNCHANGED <<vars, changes>>
    \/ Others

BulkSpec == BulkInit /\ [][BulkNext]_bulkVars

\* DNS lookups and tests end, the mutex goes to a thread that waits for it, and a
\* load that has begun is read to its end.
FairBulkSpec ==
    /\ BulkSpec
    /\ WF_bulkVars(Tester /\ UNCHANGED <<vars, changes>>)
    /\ WF_bulkVars(OthersRow \/ OthersEnd)

-----------------------------------------------------------------------------
(* Properties *)

\* Every variable has its type, and the tester works on a slot of the table.
BulkTypeOK ==
    /\ config \in Configs
    /\ mutex \in {"free", "bulk"}
    /\ pc \in Phases
    /\ at \in 1..MaxUsers + 1
    /\ pc \notin {"asleep", "scan"} => at \in Slots
    /\ test \in [dialled : SUBSET Ids, cut : BOOLEAN]
    /\ entry \in Entries \cup {0}
    /\ pc = "stamp" => entry \in Entries
    /\ results \in [Entries -> Result]
    /\ counted \in Nat /\ header \in Nat
    /\ now \in 0..MaxTime /\ began \in 0..MaxTime
    /\ kept \subseteq Slots \X Ids
    /\ recorded \subseteq Ids /\ unnamed \subseteq Ids
    /\ changes \in Nat

\* A result shown for a phone is of that phone, although its id is read from the
\* table again for every test and for the result, with the mutex released: the
\* entry under test changes hands only when a phonebook load begins, or when a
\* user without directory entry signs off.
ResultIsOfPhone ==
    \A r \in Entries : results[r].cut \/ results[r].of \subseteq {results[r].phone}

\* A phone has one result.
OneResultEach ==
    \A q, r \in Entries :
        results[q].valid /\ results[r].valid /\ results[q].phone = results[r].phone
            => q = r

\* After a cycle, each user who was in the table all the time is on the dashboard
\* with a result of that cycle, or has no DNS entry: whatever the table of results
\* held before, and unless the cycle tested more phones than it can hold.
CycleIsShown ==
    pc = "asleep" /\ config.hostname /\ Cardinality(recorded) <= MaxResults =>
        \A k \in kept :
            \/ k[2] \in unnamed
            \/ \E r \in Entries : /\ results[r].valid
                                  /\ results[r].phone = k[2]
                                  /\ results[r].stamp >= began
DashboardTrue == OneResultEach /\ CycleIsShown

\* Every cycle ends, with the table unlocked for the REGISTERs.
CycleEnds == pc = "scan" ~> pc = "asleep" /\ mutex = "free"

-----------------------------------------------------------------------------
(* What the sources say, and the code does not do *)

\* "If no DNS: Mark as NO_DNS": no result of an earlier cycle is shown for a phone
\* that the last cycle found without DNS entry.
NoDnsMarked ==
    pc = "asleep" =>
        \A r \in Entries : results[r].valid /\ results[r].stamp < began
                              => results[r].phone \notin unnamed

\* "num_results: Number of valid results", when no result is being written.
HeaderCounts == pc \notin {"stamp"} => header = Cardinality(Entries \ Unused)

\* A result is always of the phone it is shown for.
ResultAlwaysOfPhone ==
    \A r \in Entries : results[r].valid => results[r].of \subseteq {results[r].phone}

\* The walk looks at the table with the mutex held.
ScanIsLocked == pc = "scan" => mutex = "bulk"
=============================================================================
