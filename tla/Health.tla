------------------------------- MODULE Health --------------------------------
(***************************************************************************)
(* The health of the process: the heartbeats of its threads and the        *)
(* responsiveness derived from them (software_health.c), the score         *)
(* (health_scorer.c), and the reporter that writes the status file and     *)
(* tells the collector what has changed since its last report              *)
(* (health_reporter.c).  The fetcher notes how its downloads end.          *)
(*                                                                         *)
(* g_health_mutex is taken for each access and released between them, so a *)
(* heartbeat or a download may come between any two steps of the reporter. *)
(* What the reporter keeps of its last report is read again from the       *)
(* metrics after the report went out.                                      *)
(*                                                                         *)
(* Time passes in ticks.  Lap is the longest a thread at work goes without *)
(* a heartbeat, its sleep included.  The crash handlers are in no code     *)
(* that is built, so that crashes and restarts count for nothing here.     *)
(***************************************************************************)
EXTENDS Integers, FiniteSets

CONSTANTS
    Threads,     \* the threads that have registered
    Reporter,    \* health_reporter, one of them
    Lap,         \* ticks between two heartbeats of each
    MaxSilence,  \* ticks in the 1800 s after which a thread is unresponsive
    Forever,     \* bound: longer silences are not told apart
    Baseline,    \* ticks in HEALTH_REPORT_BASELINE_HOURS
    CpuLevels,   \* readings of the CPU, in per cent
    MemLevels,   \* readings of the memory, in MB
    StartMem,    \* the memory at the start
    CpuStep, MemStep, ScoreStep,    \* the three thresholds of an event
    Configs      \* the configurations that are looked at

\* HEALTH_LOCAL_REPORTING, COLLECTOR_ENABLED, and the threads whose function is
\* turned off: they register, and return.
Config == [local : BOOLEAN, collector : BOOLEAN, off : SUBSET (Threads \ {Reporter})]

ASSUME HealthAssumption ==
    /\ Reporter \in Threads /\ IsFiniteSet(Threads)
    /\ Lap \in [Threads -> Nat \ {0}]
    /\ MaxSilence \in Nat /\ Baseline \in Nat
    /\ Forever \in Nat
    /\ Forever > MaxSilence + 2 * Lap[Reporter]
    /\ \A t \in Threads : Lap[t] < Forever
    /\ CpuLevels \subseteq 0..100 /\ MemLevels \subseteq Nat /\ StartMem \in Nat
    /\ CpuStep \in Nat /\ MemStep \in Nat /\ ScoreStep \in Nat
    /\ Configs \subseteq Config

Reasons == {"none", "restart", "scheduled", "cpu_spike", "memory_increase",
            "thread_hung", "health_degraded"}
Phases == {"sleep", "measure", "open", "fill", "decide", "send", "record"}

VARIABLES
    config,      \* the configuration, read before the threads start
    fate,        \* whether each thread is at work, stuck, or has returned
    silence,     \* ticks since last_heartbeat
    responsive,  \* is_responsive
    all,         \* all_threads_responsive
    cpu, mem,    \* current_cpu_pct, current_rss_bytes
    leak,        \* leak_suspected
    failed,      \* phonebook_fetch_status is "FAILED"
    pc,          \* where the reporter is
    reason,      \* why it reports
    last,        \* g_reporter_state
    draft,       \* threads that are unresponsive in the status it writes
    file,        \* the same in /tmp/software_health.json, as far as it is there
    written,     \* history: the last status that was due is in the file
    told         \* what the collector was told last

threadVars == <<fate, silence, responsive>>
readings == <<all, cpu, mem, leak>>
reporterVars == <<pc, reason, last, draft, file, written, told>>
healthVars == <<config, threadVars, readings, failed, reporterVars>>

Unresponsive == {t \in Threads : ~responsive[t]}

-----------------------------------------------------------------------------
(* health_scorer.c *)

Points(bad, points) == IF bad THEN points ELSE 0

\* health_compute_score: 100 less the deductions, and never below zero.
Score ==
    LET deducted == Points(cpu > 20, 10) + Points(mem > 12, 10) + Points(leak, 15)
                    + Points(failed, 10) + 30 * Cardinality(Unresponsive)
    IN IF deducted > 100 THEN 0 ELSE 100 - deducted

-----------------------------------------------------------------------------
(* The threads *)

\* Mutant: only a thread that is not marked renews its mark.
BeatUnmarked(t) ==
    /\ silence' = [silence EXCEPT ![t] = 0]
    /\ UNCHANGED responsive

\* health_update_heartbeat
Beat(t) ==
    /\ silence' = [silence EXCEPT ![t] = 0]
    /\ responsive' = [responsive EXCEPT ![t] = TRUE]

\* A thread at work begins its next round; one that was stuck does so in the end.
Heartbeat(t) ==
    /\ t # Reporter
    /\ fate[t] = "work"
    /\ Beat(t)
    /\ UNCHANGED <<config, fate, readings, failed, reporterVars>>

Resume(t) ==
    /\ t # Reporter
    /\ fate[t] = "stuck"
    /\ fate' = [fate EXCEPT ![t] = "work"]
    /\ Beat(t)
    /\ UNCHANGED <<config, readings, failed, reporterVars>>

Hang(t) ==
    /\ t # Reporter
    /\ fate[t] = "work"
    /\ fate' = [fate EXCEPT ![t] = "stuck"]
    /\ UNCHANGED <<config, silence, responsive, readings, failed, reporterVars>>

\* A thread at work is never silent for longer than its lap.
Tick ==
    /\ \A t \in Threads : fate[t] = "work" => silence[t] < Lap[t]
    /\ silence' = [t \in Threads |-> IF silence[t] < Forever THEN silence[t] + 1 ELSE Forever]
    /\ last' = [last EXCEPT !.baseline = IF @ < Baseline THEN @ + 1 ELSE @]
    /\ UNCHANGED <<config, fate, responsive, readings, failed, pc, reason, draft, file,
                   written, told>>

\* The fetcher: a download fails, or a phonebook that has changed is in place.  One
\* that has not leaves the status as it was.
FetchFails ==
    /\ failed' = TRUE
    /\ UNCHANGED <<config, threadVars, readings, reporterVars>>

FetchSucceeds ==
    /\ failed' = FALSE
    /\ UNCHANGED <<config, threadVars, readings, reporterVars>>

-----------------------------------------------------------------------------
(* The reporter, health_reporter.c *)

\* The next round begins, with a heartbeat of its own.
Stamp ==
    /\ pc = "sleep"
    /\ Beat(Reporter)
    /\ pc' = "measure"
    /\ UNCHANGED <<config, fate, readings, failed, reason, last, draft, file, written, told>>

\* What follows the local file.
AfterFile == IF config.collector THEN "decide" ELSE "sleep"

\* Mutant: the loop over the threads begins one late.
OverdueButFirst == {t \in Threads : silence[t] > MaxSilence} \ {CHOOSE t \in Threads : t # Reporter}

Overdue == {t \in Threads : silence[t] > MaxSilence}

\* health_update_metrics: the readings, and the marks of the threads.  The memory
\* keeps its value if it cannot be read; a suspected leak stays.
Measure ==
    /\ pc = "measure"
    /\ cpu' \in CpuLevels
    /\ mem' \in MemLevels \cup {mem}
    /\ leak' = (leak \/ 2 * mem' > 3 * StartMem)
    /\ responsive' = [t \in Threads |-> responsive[t] /\ t \notin Overdue]
    /\ all' = (\A t \in Threads : responsive'[t])
    /\ pc' = IF config.local THEN "open" ELSE AfterFile
    /\ UNCHANGED <<config, fate, silence, failed, reason, last, draft, file, written, told>>

\* health_write_status_file: the status is put together before the file is opened,
\* which empties it.  Each of the two can fail.
OpenStatus ==
    /\ pc = "open"
    /\ \/ /\ draft' = Unresponsive
          /\ file' = {}
          /\ pc' = "fill"
       \/ /\ pc' = AfterFile
          /\ UNCHANGED <<draft, file>>
    /\ written' = FALSE
    /\ UNCHANGED <<config, threadVars, readings, failed, reason, last, told>>

FillStatus ==
    /\ pc = "fill"
    /\ \/ /\ file' = draft
          /\ written' = TRUE
       \/ UNCHANGED <<file, written>>
    /\ draft' = {}
    /\ pc' = AfterFile
    /\ UNCHANGED <<config, threadVars, readings, failed, reason, last, told>>

Distance(a, b) == IF a > b THEN a - b ELSE b - a

\* Mutant: an event or nothing.
DueWithoutBaseline ==
    IF last.first THEN "restart"
    ELSE IF Distance(cpu, last.cpu) > CpuStep THEN "cpu_spike"
    ELSE IF mem - last.mem > MemStep THEN "memory_increase"
    ELSE IF ~all THEN "thread_hung"
    ELSE IF last.score - Score > ScoreStep THEN "health_degraded"
    ELSE "none"

\* health_should_report_now: the first reason in the order of the code.
Due ==
    IF last.first THEN "restart"
    ELSE IF last.baseline >= Baseline THEN "scheduled"
    ELSE IF Distance(cpu, last.cpu) > CpuStep THEN "cpu_spike"
    ELSE IF mem - last.mem > MemStep THEN "memory_increase"
    ELSE IF ~all THEN "thread_hung"
    ELSE IF last.score - Score > ScoreStep THEN "health_degraded"
    ELSE "none"

Decide ==
    /\ pc = "decide"
    /\ reason' = Due
    /\ pc' = IF Due = "none" THEN "sleep" ELSE "send"
    /\ UNCHANGED <<config, threadVars, readings, failed, last, draft, file, written, told>>

\* health_send_to_collector: the report is put together anew, and sent.
Send ==
    /\ pc = "send"
    /\ told' = [cpu |-> cpu, mem |-> mem, score |-> Score, all |-> all]
    /\ last' = [last EXCEPT !.baseline = IF reason = "scheduled" THEN 0 ELSE @]
    /\ pc' = "record"
    /\ UNCHANGED <<config, threadVars, readings, failed, reason, draft, file, written>>

\* Mutant: what was not sent is recorded as if it had been.
SendFailsRecorded ==
    /\ pc = "send"
    /\ pc' = "record"
    /\ UNCHANGED <<config, threadVars, readings, failed, reason, last, draft, file, written, told>>

\* The report cannot be put together: the next round tries again.
SendFails ==
    /\ pc = "send"
    /\ reason' = "none"
    /\ pc' = "sleep"
    /\ UNCHANGED <<config, threadVars, readings, failed, last, draft, file, written, told>>

\* update_reporter_state
Record ==
    /\ pc = "record"
    /\ last' = [last EXCEPT !.first = FALSE, !.cpu = cpu, !.mem = mem, !.score = Score]
    /\ reason' = "none"
    /\ pc' = "sleep"
    /\ UNCHANGED <<config, threadVars, readings, failed, draft, file, written, told>>

Report == Stamp \/ Measure \/ OpenStatus \/ FillStatus \/ Decide \/ Record

-----------------------------------------------------------------------------

\* software_health_init, the registrations, and health_reporter_thread.
HealthInit ==
    /\ config \in Configs
    /\ fate = [t \in Threads |-> IF t \in config.off THEN "returned" ELSE "work"]
    /\ silence = [t \in Threads |-> 0]
    /\ responsive = [t \in Threads |-> TRUE]
    /\ all = TRUE
    /\ cpu = 0 /\ mem = StartMem
    /\ leak = FALSE
    /\ failed = FALSE
    /\ pc = "sleep"
    /\ reason = "none"
    /\ last = [first |-> TRUE, cpu |-> 0, mem |-> 0, score |-> 0, baseline |-> 0]
    /\ draft = {}
    /\ file = {}
    /\ written = FALSE
    /\ told = [cpu |-> 0, mem |-> 0, score |-> 0, all |-> TRUE]

HealthNext ==
    \/ \E t \in Threads : Heartbeat(t) \/ Resume(t) \/ Hang(t)
    \/ Tick
    \/ FetchFails \/ FetchSucceeds
    \/ Report \/ Send \/ SendFails

HealthSpec == HealthInit /\ [][HealthNext]_healthVars

\* Time passes, threads at work take their rounds, and a report that is tried again
\* and again can be put together at last.
FairHealthSpec ==
    /\ HealthSpec
    /\ WF_healthVars(Tick)
    /\ \A t \in Threads : WF_healthVars(Heartbeat(t))
    /\ WF_healthVars(Report)
    /\ WF_healthVars(Send \/ SendFails) /\ SF_healthVars(Send)

-----------------------------------------------------------------------------
(* Properties *)

\* Every variable has its type.
HealthTypeOK ==
    /\ config \in Configs
    /\ fate \in [Threads -> {"work", "stuck", "returned"}]
    /\ silence \in [Threads -> 0..Forever]
    /\ responsive \in [Threads -> BOOLEAN]
    /\ all \in BOOLEAN
    /\ cpu \in Nat /\ mem \in Nat /\ leak \in BOOLEAN
    /\ failed \in BOOLEAN
    /\ pc \in Phases /\ reason \in Reasons
    /\ last \in [first : BOOLEAN, cpu : Nat, mem : Nat, score : 0..100, baseline : 0..Baseline]
    /\ draft \in SUBSET Threads
    /\ file \in SUBSET Threads
    /\ written \in BOOLEAN
    /\ told \in [cpu : Nat, mem : Nat, score : 0..100, all : BOOLEAN]

\* No thread that does its rounds is taken for unresponsive, as long as a round is
\* not longer than the silence that is allowed.
NoFalseAlarm ==
    \A t \in Threads : Lap[t] <= MaxSilence /\ fate[t] = "work" => responsive[t]

\* A thread that has been silent for two rounds of the reporter longer than allowed
\* is marked in the file of the dashboard, as far as the file can be written.
HungIsShown ==
    config.local /\ written =>
        \A t \in Threads : silence[t] > MaxSilence + 2 * Lap[Reporter] => t \in file

\* When a round ends without a report, the collector knows: what it was told last
\* is within the thresholds of what the round has measured, although reports fail
\* in between; unless a heartbeat or a download changed the score between a report
\* and its record.
Known ==
    /\ Distance(cpu, told.cpu) <= CpuStep
    /\ mem - told.mem <= MemStep
    /\ told.score - Score <= ScoreStep
    /\ all
CollectorKnows ==
    [][pc = "decide" /\ pc' = "sleep" /\ last.score = told.score => Known]_healthVars

\* The collector hears that a thread hangs.
HungIsTold ==
    \A t \in Threads \ {Reporter} :
        config.collector /\ fate[t] = "stuck"
            ~> ~told.all \/ fate[t] # "stuck"

\* ... and that all threads are well again, for which no event is reported: the
\* scheduled report tells it.
RecoveryIsTold ==
    config.collector /\ ~told.all
        ~> \/ told.all
           \/ \E t \in Threads : fate[t] # "work" \/ Lap[t] > MaxSilence
CollectorHears == HungIsTold /\ RecoveryIsTold

-----------------------------------------------------------------------------
(* What the sources say, and the code does not do *)

\* "NOT registered for health monitoring because it sleeps (typically 3600s) by
\* design", which the crawler does as well.
HealthyIsResponsive == \A t \in Threads : fate[t] = "work" => responsive[t]

\* "Detects hung threads": a thread that has been turned off does not hang.
HungOnly == \A t \in Threads : ~responsive[t] => fate[t] = "stuck"

\* "Thread became unresponsive": the collector has not been told of it yet.
HungIsNews == reason = "thread_hung" => last.first \/ told.all

\* "threads_responsive: Boolean (all threads heartbeating)", in each report.
ReportAgrees == [][Send => (all <=> Unresponsive = {})]_healthVars

\* "Health score drops > 15 points", since the last report.
DropIsTold == [][pc = "decide" /\ pc' = "sleep" => Known]_healthVars
==============================================================================
