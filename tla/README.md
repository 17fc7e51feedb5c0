# A TLA+ model of AREDN-Phonebook

AREDN-Phonebook runs on a mesh router. It is a SIP registrar and proxy for the phones of the
node, fetches a phonebook from a list of servers, publishes it as XML for the phones, and
watches itself and the network. This directory models its core in TLA+, model-checks it with
TLC and proves what matters most with TLAPS. Paths below are relative to `src/Phonebook/src/`
unless they begin with `src/`; *the specification* is `src/docs/AREDN-phonebook-fsd.md`.

## The system

One process, started and restarted by procd, with these threads:

| thread | code | works on |
|---|---|---|
| main | `main.c`, `sip_core/`, `call-sessions/` | the SIP socket, `call_sessions[]`, `registered_users[]`, the export of active calls, the test phone |
| phonebook fetcher | `phonebook_fetcher/`, `csv_processor/` | the CSV and its hash in flash, `registered_users[]`, the public XML |
| status updater | `status_updater/` | the public XML |
| passive safety | `passive_safety/` | `call_sessions[]` and their export, the left-over files of a publication, the fetch interval |
| bulk test | `phone_testing/`, `softphone/`, `phone_monitoring/` | the test phone, `registered_users[]`, the table of ping results in shared memory |
| health reporter | `software_health/` | the heartbeats of all threads, the status file, the reports to the collector |
| topology crawler | `network_monitor/` | its own database and JSON file |

They meet in shared state: `registered_users[]` (main, fetcher, bulk test; a mutex held per
operation, not per load), `call_sessions[]` (main and passive safety; no lock), the temporary
file of the active-calls export (main and passive safety; no lock), the public phonebook (fetcher
and updater under `phonebook_file_mutex`; the sweep of passive safety and all readers without it),
the test phone (main and bulk test), and the condition variables that wake fetcher and updater.

### Components, their state and what makes them correct

| component | state | operations | what must hold |
|---|---|---|---|
| user table | `registered_users[256]`, two counters | REGISTER, de-register, load row by row | the capacity test never lies, no directory entry lost to a registration, no id twice |
| SIP proxy | `call_sessions[10]`, the export | one handler per method and response, clean-up of old sessions | no slot in a dead state, a call keeps slot and addresses, the export is exact, every slot comes back |
| calls | proxy, phones and datagrams | a call from INVITE to BYE | messages go to the other party, ended calls hold no slot, callers are answered |
| active-calls export | one temporary and one public file | write and rename, from two threads | readers see whole files, only old sessions are cleaned |
| publication | public file, `.backup`, `.temp` | copy, verify, rename, check, roll back; sweep; crash | readers see whole versions, the file never vanishes, success is true |
| phonebook pipeline | CSV and hash in flash, table, public file | download, compare, copy, populate, convert, publish, store hash; emergency boot | nothing is skipped that is not done, as far as the checksum can tell, the table is never replaced by less than a phonebook, it converges |
| test phone | one call, its timers | place, cancel, hang up, time out | verdicts come from the phone under test, the call follows its lifecycle, a stuck call ends |
| bulk test and phone monitoring | a place in the user table, `results[100]` in shared memory | walk, unlock, test, record, lock again | a result is of the phone it is shown for, no phone in the table is missing after a cycle, the table does not stay locked |
| threads | condition variables, flags | wake, relay a reload, wait, join | no reload request is dropped, every thread ends, nothing is destroyed that is in use |
| topology | tables of nodes and connections, a queue | crawl, age | tables bounded, the search complete and finite, nothing lost that was reported |
| software health | heartbeats and marks, readings, score, the last report | beat, mark, score, write the file, decide, report | no thread at work is called hung, one that hangs is shown and told, the collector knows what has changed |
| configuration, log, CGI | constants, text | read once, format | not modelled: input, output and formatting |

What is hard here is not in one function: loads that release the lock between rows, two threads
that walk the same table without a lock, files that are replaced in several steps while others
read, sweep or crash, datagrams lost and reordered around a table of ten slots, and a hash that
stands for three copies of the same data. `PROJECT.json` lists each of these at its line.

## Modules

`X` is the specification of a component, `MCX` its instance for TLC, `XProofs` the theorems.

| module | models | abstraction |
|---|---|---|
| `UserTable` | `user_manager.c` and the REGISTER branch | an id and what the nine characters of a slot keep of it (`Stored`); one action per row of a load, between which REGISTERs land |
| `SipProxy` | `process_incoming_sip_message` and `call_sessions.c` | a message is its method, Call-ID and the fields the handler branches on; `sockaddr_to_ip_str` returns one buffer, so the comparison of parties is of ports, as in the code |
| `CallBoard` | what the dashboard may see of a call | abstract: appear, progress, vanish |
| `SipCalls` | `SipProxy`, its cleanup included, closed with the phones and UDP | phones are external: RFC 3261 user agents; `expired` remembers the calls the cleanup has ended |
| `ActiveCalls` | the same table, access by access, for main and passive safety | a session is whether it is in use, when it was created and its Call-ID; file names point to files, as open descriptors outlive a rename |
| `Publication` | what readers of the public file may rely on | abstract: a version replaced by the one on offer or put back |
| `SafePublish` | `publish_phonebook_xml`, `safe_phonebook_file_operation`, `file_utils_copy_file`, the sweep | a file is what it was copied from, how much arrived, and the second of the last write; sizes in units of 50 bytes |
| `Phonebook` | `phonebook_fetcher_thread`, `csv_processor.c`, `status_updater_thread` | a phonebook is a whole release or a part of one, and contents may share a hash (`MCPhonebook` computes the checksum of the code); publication and load are one step each, refined by `SafePublish` and `UserTable` |
| `BulkTest` | `ping_bulk_test.c` and the table of results of `phone_ping.c`, composed with `UserTable` | the mutex is held or free, a function of `user_manager.c` needs it free for one step; a result is told apart by the ids that were dialled for it |
| `Health` | `software_health.c`, `health_scorer.c`, `health_reporter.c`, and what the other threads and the fetcher tell them | time passes in ticks; a thread at work beats once per lap, which is a constant; each access under `g_health_mutex` is a step |
| `Softphone` | `softphone.c`, the INVITE phase of `ping_bulk_test.c`, what the proxy does with their messages | split where the other thread can come between; a response carries its call for the properties only; time passes in sleeps, not in steps |
| `Topology` | `topology_crawler_thread`, the search and the database of `topology_db.c`, the ageing by the bulk test | a host is a model value; what routers answer is open; ages count clean-up periods |
| `Threads` | the main loop, the signal handlers, the waits of fetcher and updater, the joins | what a thread does between two waits is one step; a signal wakes only who waits now |

An action is a whole handler where the code holds a lock or one thread owns the data, and a single
access where it does not. `SipProxy` takes each handler as one step; `ActiveCalls` checks, access by
access, that this is so while the clean-up does not overlap a handler. `Phonebook` takes a
publication as one step; `OneStepPublication` shows that `SafePublish` has no other outcomes.

## What the runs check

| run | question | bounds | result |
|---|---|---|---|
| `user_table` | does the table survive REGISTERs, of any id, during loads? | 3 slots, 5 ids with an empty and a truncated one, 4 phonebooks (empty, repeated, holed, too long) | holds, see below for "odd" ids |
| `proxy` | what can any message from anywhere do to the table, and does every call leave it? | 2 slots, 2 calls, 1 host with 2 ports, ages 0..1, fair clean-up | holds; implements `CallBoard` |
| `calls` | do two calls work over one slot, with a message lost anywhere and the 24 h cleanup beside them? | 2 phones each in 2 calls, one loss, hang-up and cancel races, a cleanup at any time | holds; see below for the calls the cleanup ends |
| `calls_bye` | does a BYE reach the other party? | both phones on port 5060 | violated |
| `active` | may the two threads be taken as atomic, and is a temporary file left? | 2 slots, 4 files, 2 ticks | atomic while they do not overlap; no file is left |
| `publish` | what do readers see of a publication? | 2 publishers, 3 phonebooks (two of one size), copies that fail, sweep, crashes, 2 ticks | holds; implements `Publication` |
| `phonebook` | does the pipeline stay consistent and converge? | 3 releases, two of one checksum, a part of one, lagging mirrors, 2 failures or crashes | holds, up to the checksum |
| `bulk` | is the table walked right while it changes, and is the dashboard complete? | 2 slots and 3 phones, 2 results, new memory or one result left from before, 3 seconds, 3 REGISTERs or loads, two configurations | holds |
| `health` | who is called hung, and what do file and collector know? | the reporter and one thread, 2 levels of CPU, 2 of memory, silences to 4 ticks | holds |
| `softphone` | what do two threads do to the one test call? | 2 calls, answer of each phone open, timeouts 1 < 2 < 3, 2 s of waiting, 1 s of polling and of settling | holds; the call never stays stuck |
| `topology` | does a search cover the mesh, keep what it hears and end? | 5 hosts (3 routers, a phone two of them list, a host filtered out), 2 nodes, 3 connections, a queue of 3, ages 0..2 | holds |
| `threads` | is a reload request served and does the process end? | the main thread, fetcher, updater and 2 sleepers | holds |

Why these bounds are enough. Two slots show a full table, a reused slot and two calls side by
side; the handlers never compare more than two sessions. Three slots of users show the three kinds
of entry (dynamic, directory, free) at once, and phonebooks that are longer than the table. Two
publications of equal size and one of another cover each result of the size and time test. Two
failures cover a failure during the repair of another. Three releases cover a release that comes
while the one before is half-way. Two test calls let each late message, time stamp and reset of one
meet the next; the timeouts keep the order of the code's (1 s polled, 5 s for a response, 10 s of
waiting or ringing, 30 s for a call), which is all that is compared with them. Each table of `Topology`
is smaller than what the mesh can put into it, so that every limit is met, and a host is at one, two and
three hops. The sleepers of `Threads` differ in nothing; two of them end in either order. In `BulkTest` three phones
share two slots and two results, so that slots change hands during a test and the oldest result gives way;
three seconds are two cycles and the time stamps between them, three changes a load and REGISTERs around it.
In `Health` a tick is half an hour and longer silences than four ticks are not told apart; the levels of CPU
and memory are one below and one above each threshold, and each of the six reasons to report occurs.

In `Softphone` a round of the main loop handles one datagram of the SIP socket and at most one of the
test phone. `softphone_reset_state` is two steps for the main thread (state, then fields) and one
for the bulk test, which resets only what nobody else is moving or what it forces to idle; the state
TERMINATED is overwritten in the same handler and left out; the proxy is reduced to what the test
phone sees of `SipProxy`, and its 200s are not repeated.

`Topology` takes names that fit the buffers of the code: lists of neighbours longer than 2047 bytes are
cut there. A phone whose name has dashes is left out too: the host files may list one (`topology_db.c:998`), which is then
listed and connected, but `should_crawl_node` takes digits only, so it is never queued. Positions, round-trip times, the address map and the JSON are left out, as nothing is decided
by them. `BulkTest` leaves out what ping and OPTIONS measure and the traced routes, which are only logged; a call test
is one step that counts the phone or does not (`Softphone` has its inside). The shared memory outlives the
process and is cleared only for another version, so `Leftovers` says what an earlier process left; its
reader in another process only prints. A result is written in two
steps, the record and its stamp, with the mutex free; `relock` is where the tester waits to lock the table again.
`Health` takes a report that was put together as sent, because the POST is commented out
(`software_health.c:323`); `COLLECTOR_ENABLED` is 0 by default, so both settings are looked at.

`Threads` does not split the code between two waits; its locks are taken for a signal or a wait
only, and no thread takes a second one of them while it waits.

*The cleanup and the calls.* `passive_cleanup_stale_call_sessions` frees every session older than 24 hours, also an
ESTABLISHED one whose phones still talk, and tells neither. In `SipCalls` it runs beside the calls (`Expire`, `GrowOld`):
with `MaxAge = 0` a session may be old one tick after it began, so a cleanup may meet a call anywhere. After it the BYE
of one phone is answered 481 and the other phone stays in the call, with no message lost. `TalkingIsEstablished` and
`NobodyIsLeft` therefore leave out the calls it has ended (`expired`), and `OnlyLostByesAreCleaned`, which is what the
comment of the code says of it, is in `MCSipCalls_said.cfg`. The other three properties hold of every call.

*The checksum.* `(checksum << 1) + byte` shifts every byte out of an `unsigned long` after 64 more of them (32 where a
`long` has 32 bits), so the stored "hash" depends on the end of the file only. `MCPhonebook.Checksum` is that sum in three bits, over
contents of three and four bytes of 0 or 1, and the third release edits the second above its last three bytes: the fetcher takes
it for identical, and neither flash nor table gets it. `SkipIsSafe` and `Converges` promise what is true all the
same: flash and table hold one and the same published release, with the checksum of the one that was downloaded, or of the
last. `MCPhonebook_identical` shows the skip that should not be, without any fault.

*Histories.* Some properties hold only until something the code does not expect has happened. The
specification then carries a history variable, and the property says "until": `odd` (an empty id, or one
longer than a slot keeps, was used), `met` (both threads were at work), `trusted` (a mirror served
an older or partial release, or the CSV could not be read), `course` (`disturbed`: a response of another
call came in, or an ACK could not be sent; `met`: main and bulk test were both at work), `apart`
(the bulk test has not aged the topology during this crawl). `told` (what routers have reported in this
crawl), `owed` (a SIGUSR1 no download has followed), `kept`, `recorded` and `unnamed` (the users who have stayed
in the table during a cycle of the bulk test, those with a result of it, those without a DNS entry), and in
`Health` `written` and `told` (whether the last status is in the file, what the collector heard last) only observe.
`test.cut` (a load, or a sign-off of the user under test, came during the test) is one of the "until" kind, as is
`faults.loss` of `SipCalls` (a datagram was lost), and `expired` (of each call, the cleanup has ended it). The same runs explore what comes after,
and the other properties hold there too.

*Fairness.* `proxy`: the clock advances and the passive safety thread, which loops every five
minutes, gets to each slot. `calls` assumes none: that callers are answered and that a hang-up ends
both sides is stated of the states in which no datagram of the call is on its way and no phone has anything left to do
(`NobodyIsLeft`; a caller that has sent CANCEL is not among the callers, it may wait in vain), which fairness of the main loop and of the phones leads to. `phonebook`: the fetcher takes its
next step (its wait has a timeout, its sockets too) and procd restarts the process; nothing is
assumed of the updater, of servers or of failures, which are only bounded in number. `softphone`: both
threads run, time passes, and the SIP socket gets a datagram now and then; the last is an assumption
on the node, because `main.c:437` looks at the timeouts only after a datagram (phones register again and
again, so a node with phones has them). `topology`: the crawler runs, and its requests are limited in
time. `threads`: every thread runs and work ends, as sockets have timeouts and sleeps an end. That a wait
times out is not part of it: `ReloadServed` does without, since a reload is promised at once, and
`StopEnds` names it as its premise. `bulk`: lookups and tests end, which have timeouts, a waiting thread gets the
mutex, and a load that has begun is read to its end. `health`: time passes, threads at work take their
rounds, the reporter runs, and a report that is tried again and again is put together at last (strong fairness of
`Send`, against an allocation that fails); that a stuck thread resumes is not assumed.

*Deadlock* is checked but where the system may stop: calls that are over, a bounded clock (also of `bulk`), a
process that has ended.

Every property of a passing run has a mutant in `PROJECT.json`: a change of a modelled definition a
programmer could have made, under which TLC finds the property violated. Their definitions stand
before what they change and are called "Mutant" in a comment.

## What is proved

For every value of the constants, with no assumption beyond the ASSUME of each module unless said.

* `UserTableProofs`, for the table: types, `CapacityTestSound`, `DynamicCovered`, `DirectoryKept`, `DirectoryStable`.
  The capacity test is sound because the counters bound the slots, not because they count them: a row
  that meets a registered user moves no counter. The invariant is the pair of inequalities with
  `DynamicCovered` (no decrement goes below zero) and `DynamicIsActive`. A corollary, `RoomMeansFreeSlot`:
  when the test passes a free slot is found. `FittingRegistrar`, of `UserTableHistory`: as long as no id is empty or cut
  to fit a slot, exact counters, unique ids and the effect of the last REGISTER are inductive together with that
  invariant. The last says that right after a REGISTER its user is active or not as it asked; it exempts a full table, and
  a missing Expires header counts as asking for nothing, although both are answered 200. Nothing is said of how long a
  registration lasts: `init_registered_users_table`, with which each load begins, clears registered users too. Exact counters need unique ids (a row must meet at most one entry), and unique ids need that the search by
  id finds what was stored, which is what an odd id breaks.
* `SipCallsProofs`, for the proxy: types, `TableAtRest`, `ExportExact`, `CallKeepsSlot`, and that `SipProxy`
  implements `CallBoard`. The invariant is their conjunction: the export equals the table between handlers.
* `SipCallsProofs`, for the calls: the five invariants of `SipCalls`, for any number of calls, hosts and slots and
  any `MaxLoss`, with the cleanup at any time. Each holds under the faults it can bear, which the theorem's assumption states, and TLC shows
  that less is not enough:

  | theorem | states | assumes | without it |
  |---|---|---|---|
  | `NeverCrossed` | `NoCrossTalk` | nothing | |
  | `ByesComeFromOther` | `ByeComesFromOther` | no caller uses `SipPort` | the run `MCSipCalls_bye` |
  | `TalkingEstablished` | `TalkingIsEstablished` | `MaxSwap = 0` | `OkMeansEstablished` |
  | `EndedCallsAreFree` | `EndedCallsHoldNoSlot` | `MaxDup = 0` | `CallIdUnique`: the second session stays |
  | `NobodyIsLeftWaiting` | `NobodyIsLeft` | all three | as above; the properties themselves leave out the calls the cleanup has ended |

  The argument: a call is looked at alone, as the states of its two phones and of its sessions and four sets of
  signals, those on their way from and to each phone. `PhonesInv` says that what belongs to a call stays with it
  (a session has the addresses of its call's phones, a message comes from one of them), from which it follows that every
  step is, for each call, a step of a phone, of the proxy, of the network, or none (`EveryStep`). Queues
  appear only as "a t behind an s" (`Follows`), for the 180 behind the 200 and the repeated INVITE. Then four
  invariants about one call: what a signal says about who sent it (`Meanings`), that no 180 follows the 200
  (`InOrder`), that a call has one session and it is gone when the end of the call is under way (`OneSession`),
  and that whoever waits has something to wait for (`Unlost`). The last is the strengthening that `NobodyIsLeft` needs: that both
  phones are up, for instance, keeps the session in use, so that the BYE of either is relayed. The cleanup is one more step of each call
  (`CleanupOf`): it only takes sessions away and sends nothing, so that of the invariants only what needs a session to be
  there, `Established` and `Unlost`, is guarded by `c \notin expired`.
* `ActiveCallsProofs`: types, `NoTempLeft` and `ApartAtomic`; `ActiveAssumption` asks that the bounded clock runs beyond
  the age limit and that no Call-ID is the mark of a free slot or of the end of a listing. `NoTempLeft` needs nothing of the
  interleaving: whoever makes the name exist goes on to rename or remove it (`TempInUse`). For `ApartAtomic` the invariant
  is about the one thread at work: a session has no name or an old date only in the slot the main thread is filling, what
  the cleanup is about to free is old, and was created no later than its time stamp says (`SessionsSound`); the temporary
  file is not the one readers see, and whole by the time it is renamed (`FilesSound`).
* `SoftphoneProofs`: types, `LifecycleKept`, `VerdictIsHeard`, and `OwnTimeOver`, which is `OnlyOldTimeOut` until the
  threads meet. The invariant says what each thread may take for granted until then: the state it has looked at is still
  the state when it writes, and the age it has read is no more than the age (`StateIsKnown`). `VerdictIsHeard` needs
  that while the bulk test polls the call has left CALLING exactly if a response was handled (`AnswerShows`), which a
  timeout must not do: the age of the call and what is left of the poll are at most the poll, and
  the theorem assumes `PollTime <= ResponseTimeout` (1 s and 5 s in the code). With a longer poll TLC finds a phone
  online that nobody has heard.
* `SafePublishProofs`: `PublicWhole`, `SuccessIsPublished`, `SuccessLeavesNoBackup` and the refinement of
  `Publication`, assuming `Faults \subseteq {"copy"}` (a failed write is reported, no rename fails by
  itself), and `PublicStays` without assumption. The point of the invariant: a rollback never meets a backup
  of an earlier life of the process. Such a backup exists only while there is no public file, because
  `main` deletes it at start, and then the sweep, which starts again with the process, removes the
  backup before it can remove the new copy and so make the rename fail (`StaleUnswept`, `NothingToSave`).
  `OneStepPublication` then says that a publication may be taken for one step, as `Phonebook` takes it: between the
  lock and the unlock readers see the old version or the new one (`EitherVersion`, from the refinement), so that by
  its end it has put the new one in place, as it must have if it returned success, or left the old one.
* `PhonebookProofs`: types, and `TableStaysValid` when a failed write is reported. The invariant says what
  the fetcher knows at each step: what it compares is valid, what it loads is the whole of it. `SkippingIsSafe` proves
  `SkipIsSafe` from two assumptions, `Reported` (a failed write is reported) and `NoReturn` (the servers do not return to a
  hash they have left; releases next to each other may share one, as those of an edit the checksum does not see do). The
  invariant is what the stored hash means (`HashIsTrue`): a release with it is in flash and in the table, or both what
  the servers have now and what is at hand have another one. A copy that fails leaves the old hash next to a new, partial
  file, and only because the servers never return to that hash does no later comparison match; that they have left it
  for good follows from `HashIsOlder`, the order of the stored hash, of what is at hand and of the last release
  (`DifferentIsOutdated`). With a release that does come back TLC finds the skip unsafe.
* `TopologyProofs`: types and limits, `CrawlCovers`, `ReportedAreLinked`. The invariant says what a search
  knows half-way: the hosts visited are those at the front of the queue (`VisitedInFront`), and what a router
  has reported is in the queue and in the table, or is the rest of the list being worked on
  (`ReportedAreQueued`, `ReportedAreAdded`), while queue and table are not full.
* `UserTableProofs`, for the bulk test: that the composition is a behaviour of `UserTable`, types, `ResultIsOfPhone` and
  `DashboardTrue`. For the first property the invariant is that the ids dialled are the one in the slot
  (`SameUser`): a row goes to a free slot only, and a REGISTER frees a slot only to sign off its user. For the second it
  is that recorded phones and results of this cycle are the same (`ResultsInv`); the step that writes a result needs
  that the oldest entry is not of this cycle, since otherwise all entries were, one for each phone recorded
  before, and the phone were one too many for the table (`RoomForOne`, an injection into the set of recorded phones).
* `ThreadsProofs`, for the heartbeats and reports: types, `NoFalseAlarm`, `HungIsShown`, `CollectorKnows`. The invariant of the second compares ages: a
  thread silent for longer than allowed and the ticks since the round began was overdue when the round measured
  it (`FileFollows`), and the file of the round before is one lap older.
* `ThreadsProofs`, for start, reload and end: types, `CleanEnd`, `ReloadNotDropped`. A thread that has been joined is gone and none
  comes back (`Joined`); the fetcher resets the flag only on its way to a download.

Proved for every instance, and therefore in no run: `DynamicCovered`, `DirectoryStable`,
`SuccessLeavesNoBackup`, `PublishedAtOnce`, `OwnTimeOver`, the types of all modules that have proofs.

Only model-checked: liveness (`EveryCallLeaves`, `Converges`, `StuckCallEnds`, `CrawlEnds`, `ReloadServed`, `StopEnds`,
`CycleEnds`, `CollectorHears`), which is
out of the prover's reach. Every invariant and every action property of the passing runs is a theorem.

## Where code and documents part ways

Each row is a property that states what is written. The configurations `MC*_said.cfg` list those of a
module; TLC stops at the first, and finds each one violated when it is listed alone. `MCSafePublish_stale`,
`MCPhonebook_identical` and `MCPhonebook_lag` find one of them by another way: a rename that fails, an edit the checksum does
not see, a mirror that lags.
`MCSipCalls_bye` is a run of `PROJECT.json`.

| configuration | property | written | what the code does |
|---|---|---|---|
| `MCSipCalls_bye` | `ByeProxiedToOther` | the specification :56 "Proxies BYE to other party" | both addresses are printed into one buffer, so with both phones on port 5060 the callee gets its own BYE back (`sip_core.c:736`) |
| `MCSipCalls_said` | `CallIdUnique` | :91 "Unique call identifier" | a repeated INVITE takes a second slot |
| | `OkMeansEstablished` | :114 "200 OK received for INVITE" | a late 180 takes an established session back to RINGING, its ACK is dropped |
| | `CancelledCallerIsAnswered` | :75 "Routes responses back to original caller" | CANCEL frees the session, so the 487 is dropped |
| | `OnlyLostByesAreCleaned` | `passive_safety.c:30` "safety net for truly lost BYE" | a call that lasts a day is cleaned while both phones are up; its BYE is refused and the other phone stays in the call |
| `MCActiveCalls_said` | `NeverPartial` | `call_sessions.c:84` "prevent CGI readers from seeing partial JSON" | two threads share one temporary file |
| | `CleansOldOnly` | `passive_safety.c:30` "older than 24 hours" | `in_use` is set before `creation_time`, so a new session can look old |
| `MCUserTable_said` | `CountsOnlyDynamic` | `common.h:150` "NOT in CSV" | a row that meets a registered user leaves it counted |
| | `RegisteredIsActive` | :131 "200 OK" and "active" | a REGISTER without an Expires header is answered 200 and registers nobody |
| | `ZeroDeactivates` | :201 "expires=0 deactivates" | an id longer than a slot keeps is never found again |
| `MCSoftphone_said` | `OnlineWasReached` | `ping_bulk_test.c:95` "Phones that responded" | any error counts as an answer, the 404 and 503 of the node's own proxy too |
| | `ObservedIsEnded` | the document on the UAC :28 "the tester cancels or hangs up" | a phone that picks up just before the CANCEL, or rings with 183, is left alone |
| | `OnlyOldTimeOut` | `softphone.h:113` "has timed out" | the state is set before the time stamp, so a new call is reset for the age of the last one |
| `MCSafePublish_said` | `NeverCorrupt` | `passive_safety.c:120` "Never corrupt phonebook data" | `fflush` is not checked; a backup left by a crash can come back if the rename fails |
| | `FailureKeepsOld` | :266 "Automatic rollback on failure" | a rollback whose backup was swept leaves the new file and reports failure |
| | `PublishSucceeds` | `passive_safety.c:189` "Verify the rename actually worked" | two publications of one size in one second look like a failed rename |
| | `TempsCleaned` | :279 "cleaned up on all code paths" | three early returns leave `.backup` or `.temp` |
| | `SweepsOrphansOnly` | `passive_safety.c:88` "leftover" | the sweep takes files of a running publication |
| `MCPhonebook_identical`, `_lag`, `_said` | `SkippedIsIdentical` | `phonebook_fetcher.c:176` "identical to flash copy" | an edit above the last 64 bytes of the file leaves the checksum as it was (no fault needed); after an interrupted copy and a mirror that lags, or a copy cut short by a full disk, the hash matches and the CSV does not |
| `MCPhonebook_said` | `ClearedForGoodOnly` | :665 "never cleared unless we have verified good data" | a copy cut short by a full disk is loaded, and its hash is stored as good |
| | `LastGoodKept` | :278 "Last good phonebook never deleted" | the CSV in flash is truncated, then filled |
| | `HashedIsPublic` | :254 "Updates hash file on successful processing" | the updater publishes the old phonebook over the new one, and nothing repairs it until the next change |
| `MCTopology_said` | `ReachedIsOnline` | :2580 'status = "ONLINE"' | a node once INACTIVE stays so, however often it answers |
| | `LinksSurvive` | :2542 "Remove orphaned connections" | the bulk test, ageing during a crawl, takes connections to routers not yet added for orphans |
| | `PhonesHang` | :1371 "prevents orphaned phones" | a phone that outlives its router's entry is listed without a connection for good |
| `MCThreads_said` | `PromptStop` | `status_updater.c:64` "Exit immediately on shutdown signal" | a wake-up sent to a thread at work is lost; the thread then waits its interval, an hour by default for the fetcher, and is joined after it |
| | `ExitEnds` | `main.c:434` "Exit on real select error" | `g_keep_running` stays set, so the first join waits for ever, with the SIP socket closed |
| `MCBulkTest_said` | `ResultAlwaysOfPhone` | `phone_ping.h:15` a result and its phone | a load during the test gives the slot to another user; what was measured on the first is stored under the second, or under no name |
| | `NoDnsMarked` | :945 "If no DNS: Mark as NO_DNS" | a phone without DNS entry is skipped, and the result of an earlier cycle stays on the dashboard |
| | `HeaderCounts` | `phone_ping.h` "Number of valid results" | zero while a cycle runs, then the phones counted, which are more or less than the entries |
| | `ScanIsLocked` | `ping_bulk_test.c:117` "lock for main testing loop" | after the `continue` at `ping_bulk_test.c:292` it goes on without the mutex |
| `MCHealth_said` | `HealthyIsResponsive` | `phonebook_fetcher.c:74` "NOT registered ... because it sleeps (typically 3600s) by design" | the crawler sleeps as long and is registered: it is marked in every round |
| | `HungOnly` | :2677 "Detects hung threads" | a bulk tester or crawler that is turned off has registered before it returns, and counts as hung after half an hour |
| | `HungIsNews` | :2852 "Thread became unresponsive" | reported again every round while it lasts |
| | `ReportAgrees` | :2689 "all threads heartbeating" | the summary is of the last measurement, the list in the same report of now |
| | `DropIsTold` | :2745 "Health score drops > 15 points" | a download that fails between report and record lowers the score the next one is compared with |

Other places where words and code differ, found on the way and stated by no property: an INVITE test follows only
if ping succeeded and OPTIONS failed, and its verdict is in no result; with OPTIONS off and INVITE off a phone
that does not answer ping counts as offline although nothing else was tried; the crash handlers of `crash_handler.c` are installed
nowhere, so the counts of crashes and restarts stay zero; the status file is written in place, so that a reader may find it empty; a
phonebook that is downloaded and identical does not clear a FAILED fetch status; memory is an event only
when it grows; `HEALTH_MAX_THREADS` is 5 and exactly five threads register.

## Not modelled, and the plan

What is next: `Topology`, its statistics and its export, which is written with fopen("w") in part after the mutex is released.

`enable_graceful_degradation_if_needed` (`passive_safety.c:51-86`) is not modelled: it counts the sessions and
moves one number, the interval of the fetcher, whose length no module depends on (a wait of `Threads` and
`Phonebook` takes as long as it takes). Read by hand: the comment says "Don't exceed 2 hours", and 600 s grow to
9600; "Restore normal interval" gives 1800 s whatever was configured, and an interval that has been doubled to 1800 s
or less is never restored.

The crash files are not modelled either: no code that is built writes them.

What passive safety calls thread recovery sets `g_updater_restart_requested`, which no code reads, although
the specification (3.7.2, :732-770) says the thread ends and is restarted: there is no behaviour to model.

Two details of a load are abstracted: a CSV that cannot be read is, in `Phonebook`, one that cannot be
opened, while an error of `fgets` half-way (`user_manager.c:209`) would leave the rows before it in the table; and rows that the validator counts but the load skips (`csv_processor.c:164`) are not told from
the others.

Formatting, parsing of names, DNS, HTTP, `/proc`, JSON, logging and the shell scripts stay out: no
property here is about them. Row contents are an id; XML escaping and UTF-8 repair are left out.
