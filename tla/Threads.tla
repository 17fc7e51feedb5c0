------------------------------- MODULE Threads --------------------------------
(***************************************************************************)
(* How the threads of main.c wake each other and end: the main loop that   *)
(* takes SIGUSR1 and SIGTERM, the fetcher and the status updater that wait *)
(* on their condition variables, and the threads that only sleep.          *)
(*                                                                         *)
(* What a thread does with its data between two waits is one step here;    *)
(* the modules of the components open it up.  A signal to a condition      *)
(* variable is lost unless the thread is waiting on it.                    *)
(***************************************************************************)
EXTENDS Naturals

CONSTANT Sleepers  \* the other enabled threads: safety, bulk test, crawler, health

VARIABLES
    keep,     \* g_keep_running
    reload,   \* phonebook_reload_requested
    owed,     \* history: a SIGUSR1 after which no download has started
    main,     \* where the main thread is
    fetcher,  \* where the fetcher is
    updater,  \* where the status updater is
    running   \* the sleepers that have not returned

vars == <<keep, reload, owed, main, fetcher, updater, running>>

Looping == {"top", "select"}
MainAt == Looping \cup {"leave", "joinFetcher", "joinUpdater", "joinOthers", "over"}
FetcherAt == {"boot", "top", "work", "enter", "waiting", "woken", "clear", "gone"}
UpdaterAt == {"top", "waiting", "woken", "work", "gone"}

\* pthread_cond_signal: it wakes the thread only if that is waiting now.
Woken(at) == IF at = "waiting" THEN "woken" ELSE at

Init ==
    /\ keep = TRUE
    /\ reload = FALSE
    /\ owed = FALSE
    /\ main = "top"
    /\ fetcher = "boot"
    /\ updater = "top"
    /\ running = Sleepers

-----------------------------------------------------------------------------
\* The two signal handlers; only the main thread takes signals.

Reload ==
    /\ main # "over"
    /\ reload' = TRUE
    /\ owed' = TRUE
    /\ UNCHANGED <<keep, main, fetcher, updater, running>>

Terminate ==
    /\ main # "over"
    /\ keep' = FALSE
    /\ UNCHANGED <<reload, owed, main, fetcher, updater, running>>

-----------------------------------------------------------------------------
\* The main thread.

MainTop ==
    /\ main = "top"
    /\ main' = IF keep THEN "select" ELSE "leave"
    /\ UNCHANGED <<keep, reload, owed, fetcher, updater, running>>

\* select returns, at the latest after a second; a request that is still
\* pending is relayed to the fetcher.
Relayed == fetcher' = IF reload THEN Woken(fetcher) ELSE fetcher

\* Mutant: The main loop resets the flag when it relays it.
MainSelectClearing ==
    /\ main = "select"
    /\ Relayed
    /\ reload' = FALSE
    /\ main' = "top"
    /\ UNCHANGED <<keep, owed, updater, running>>

MainSelect ==
    /\ main = "select"
    /\ Relayed
    /\ main' = "top"
    /\ UNCHANGED <<keep, reload, owed, updater, running>>

\* An error other than EINTR ends the loop, but not the other threads.
SelectFails ==
    /\ main = "select"
    /\ Relayed
    /\ main' = "leave"
    /\ UNCHANGED <<keep, reload, owed, updater, running>>

MainLeave ==
    /\ main = "leave"
    /\ fetcher' = Woken(fetcher)
    /\ main' = "joinFetcher"
    /\ UNCHANGED <<keep, reload, owed, updater, running>>

JoinFetcher ==
    /\ main = "joinFetcher"
    /\ fetcher = "gone"
    /\ updater' = Woken(updater)
    /\ main' = "joinUpdater"
    /\ UNCHANGED <<keep, reload, owed, fetcher, running>>

\* Mutant: The updater is woken but not joined.
JoinUpdaterUnwaited ==
    /\ main = "joinUpdater"
    /\ main' = "joinOthers"
    /\ UNCHANGED <<keep, reload, owed, fetcher, updater, running>>

JoinUpdater ==
    /\ main = "joinUpdater"
    /\ updater = "gone"
    /\ main' = "joinOthers"
    /\ UNCHANGED <<keep, reload, owed, fetcher, updater, running>>

\* Afterwards the mutexes are destroyed and the process ends.
JoinOthers ==
    /\ main = "joinOthers"
    /\ running = {}
    /\ main' = "over"
    /\ UNCHANGED <<keep, reload, owed, fetcher, updater, running>>

-----------------------------------------------------------------------------
\* The fetcher.

\* A phonebook on flash is published before the loop, if it can be.
FetcherBoot ==
    /\ fetcher = "boot"
    /\ updater' \in {updater, Woken(updater)}
    /\ fetcher' = "top"
    /\ UNCHANGED <<keep, reload, owed, main, running>>

FetcherTop ==
    /\ fetcher = "top"
    /\ IF keep
       THEN fetcher' = "work" /\ owed' = FALSE
       ELSE fetcher' = "gone" /\ UNCHANGED owed
    /\ UNCHANGED <<keep, reload, main, updater, running>>

\* Download and what follows; publish_phonebook_xml signals the updater.
FetcherWork ==
    /\ fetcher = "work"
    /\ updater' \in {updater, Woken(updater)}
    /\ fetcher' = "enter"
    /\ UNCHANGED <<keep, reload, owed, main, running>>

\* Mutant: The flag is reset at the end of a cycle instead of after the wait.
FetcherWaitClearing ==
    /\ fetcher = "enter"
    /\ reload' = FALSE
    /\ fetcher' = "waiting"
    /\ UNCHANGED <<keep, owed, main, updater, running>>

FetcherWait ==
    /\ fetcher = "enter"
    /\ fetcher' = "waiting"
    /\ UNCHANGED <<keep, reload, owed, main, updater, running>>

FetcherTimeout ==
    /\ fetcher = "waiting"
    /\ fetcher' = "woken"
    /\ UNCHANGED <<keep, reload, owed, main, updater, running>>

\* Mutant: The fetcher goes back to sleep unless there is something to reload.
FetcherWokenStubborn ==
    /\ fetcher = "woken"
    /\ fetcher' = IF reload THEN "clear" ELSE "enter"
    /\ UNCHANGED <<keep, reload, owed, main, updater, running>>

FetcherWoken ==
    /\ fetcher = "woken"
    /\ fetcher' = IF ~keep THEN "gone" ELSE IF reload THEN "clear" ELSE "top"
    /\ UNCHANGED <<keep, reload, owed, main, updater, running>>

\* A SIGUSR1 between the test of the flag and this is cleared with the first.
FetcherClear ==
    /\ fetcher = "clear"
    /\ reload' = FALSE
    /\ fetcher' = "top"
    /\ UNCHANGED <<keep, owed, main, updater, running>>

-----------------------------------------------------------------------------
\* The status updater and the sleepers.

UpdaterTop ==
    /\ updater = "top"
    /\ updater' = IF keep THEN "waiting" ELSE "gone"
    /\ UNCHANGED <<keep, reload, owed, main, fetcher, running>>

UpdaterTimeout ==
    /\ updater = "waiting"
    /\ updater' = "woken"
    /\ UNCHANGED <<keep, reload, owed, main, fetcher, running>>

UpdaterWoken ==
    /\ updater = "woken"
    /\ updater' = IF keep THEN "work" ELSE "gone"
    /\ UNCHANGED <<keep, reload, owed, main, fetcher, running>>

\* Its own publication signals a condition variable that nobody waits on.
UpdaterWork ==
    /\ updater = "work"
    /\ updater' = "top"
    /\ UNCHANGED <<keep, reload, owed, main, fetcher, running>>

Return(t) ==
    /\ t \in running
    /\ ~keep
    /\ running' = running \ {t}
    /\ UNCHANGED <<keep, reload, owed, main, fetcher, updater>>

-----------------------------------------------------------------------------
MainSteps ==
    \/ MainTop \/ MainSelect \/ MainLeave
    \/ JoinFetcher \/ JoinUpdater \/ JoinOthers

FetcherSteps ==
    \/ FetcherBoot \/ FetcherTop \/ FetcherWork \/ FetcherWait
    \/ FetcherWoken \/ FetcherClear

UpdaterSteps == UpdaterTop \/ UpdaterWoken \/ UpdaterWork

SleeperSteps == \E t \in Sleepers : Return(t)

Timeouts == FetcherTimeout \/ UpdaterTimeout

Next ==
    \/ Reload \/ Terminate
    \/ MainSteps \/ SelectFails
    \/ FetcherSteps \/ UpdaterSteps \/ SleeperSteps
    \/ Timeouts

\* Threads are scheduled, sleeps end, and requests to servers are limited in
\* time.  That a wait times out is not assumed here but where it is needed: the
\* intervals are an hour and ten minutes by default.
Spec ==
    /\ Init /\ [][Next]_vars
    /\ WF_vars(MainSteps) /\ WF_vars(FetcherSteps) /\ WF_vars(UpdaterSteps)
    /\ \A t \in Sleepers : WF_vars(Return(t))

-----------------------------------------------------------------------------
\* The variables keep to their types (main.c, phonebook_fetcher.c and
\* status_updater.c).
TypeOK ==
    /\ keep \in BOOLEAN
    /\ reload \in BOOLEAN
    /\ owed \in BOOLEAN
    /\ main \in MainAt
    /\ fetcher \in FetcherAt
    /\ updater \in UpdaterAt
    /\ running \in SUBSET Sleepers

\* When the mutexes and condition variables are destroyed (main.c:538-543), no
\* thread is left that could lock or wait on one.
CleanEnd ==
    main = "over" => fetcher = "gone" /\ updater = "gone" /\ running = {}

\* A reload request is never dropped: until a download has started after it, the
\* flag is still set or the fetcher is on its way to a download, although main
\* thread, fetcher and signal handler share the flag without a lock and signals
\* to a busy fetcher are lost.
ReloadNotDropped ==
    owed => reload \/ fetcher \in {"top", "gone"}

\* "waking the fetcher instantly" (FSD line 237): a download follows every
\* SIGUSR1 without any wait timing out, as long as the main loop runs.
ReloadServed ==
    owed ~> ~owed \/ ~keep \/ main \notin Looping

\* After SIGTERM the process ends, provided that waits time out: a wake-up sent
\* to a thread at work is lost, and the thread then waits its whole interval.
StopEnds ==
    WF_vars(FetcherTimeout) /\ WF_vars(UpdaterTimeout)
        => (~keep ~> main = "over")

-----------------------------------------------------------------------------
\* "Signal the fetcher to wake up if it's waiting" (main.c:488), "Exit immediately
\* on shutdown signal" (status_updater.c:64): the process ends after SIGTERM
\* without waiting for an interval to pass.  It does not: the signal may come
\* before the thread waits, which does not look at the flag first.
PromptStop == ~keep ~> main = "over"

\* "Exit on real select error" (main.c:434): once the loop is left the process
\* ends.  It does not: no thread is told, and the first join waits for ever.
ExitEnds ==
    WF_vars(FetcherTimeout) /\ WF_vars(UpdaterTimeout)
        => (main = "leave" ~> main = "over")

=============================================================================
