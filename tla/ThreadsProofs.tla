----------------------------- MODULE ThreadsProofs -----------------------------
(***************************************************************************)
(* Proofs about the threads of the process.                                *)
(*                                                                         *)
(* Of Threads, for any set of sleeping threads: types, no thread is left   *)
(* when the mutexes are destroyed, no reload request is dropped.           *)
(*                                                                         *)
(* Of Health, for any threads, laps, thresholds and readings: types, no    *)
(* false alarm, a hung thread is shown, the collector knows.  That the     *)
(* file shows what hangs is an argument about the age of what the reporter *)
(* has looked at: since the round began silence[Reporter] ticks have       *)
(* passed, so a thread that is silent for longer than allowed and those    *)
(* ticks was overdue when the round measured it.  The file that is written *)
(* follows it for the rest of the round, and one lap more until the next   *)
(* round writes it (FileFollows).  That the collector knows is an argument *)
(* about what is read twice: the reporter records cpu and memory from the  *)
(* metrics, not from the report, and they agree because only the reporter  *)
(* measures (ToldIsRecorded).                                              *)
(***************************************************************************)
EXTENDS Threads, Health, FiniteSetTheorems, TLAPS

-----------------------------------------------------------------------------
(* Start, reload and end *)

USE DEF MainAt, Looping, FetcherAt, UpdaterAt

\* A thread that has been joined is gone, and none comes back.
Joined ==
    /\ main \in {"joinUpdater", "joinOthers", "over"} => fetcher = "gone"
    /\ main \in {"joinOthers", "over"} => updater = "gone"
    /\ main = "over" => running = {}

IInv == TypeOK /\ Joined /\ ReloadNotDropped

LEMMA WokenFetcher ==
  ASSUME NEW at \in FetcherAt
  PROVE  /\ Woken(at) \in FetcherAt
         /\ at = "gone" <=> Woken(at) = "gone"
         /\ at = "top" <=> Woken(at) = "top"
BY DEF Woken

LEMMA WokenUpdater ==
  ASSUME NEW at \in UpdaterAt
  PROVE  /\ Woken(at) \in UpdaterAt
         /\ at = "gone" <=> Woken(at) = "gone"
BY DEF Woken

LEMMA InitIInv == Init => IInv
BY DEF Init, IInv, TypeOK, Joined, ReloadNotDropped

\* The two handlers disturb only the flags.
LEMMA SignalsKeep == IInv /\ (Reload \/ Terminate) => IInv'
<1> SUFFICES ASSUME IInv, Reload \/ Terminate PROVE IInv'
  OBVIOUS
<1> USE DEF IInv, TypeOK, Joined, ReloadNotDropped
<1>1. CASE Reload
  BY <1>1 DEF Reload
<1>2. CASE Terminate
  BY <1>2 DEF Terminate
<1>3. QED
  BY <1>1, <1>2

\* Only a join moves the main thread on to where a thread must be gone; a signal
\* to the fetcher or the updater neither revives it nor takes it off its way.
LEMMA MainKeeps == IInv /\ (MainSteps \/ SelectFails) => IInv'
<1> SUFFICES ASSUME IInv, MainSteps \/ SelectFails PROVE IInv'
  OBVIOUS
<1> USE DEF IInv, TypeOK, Joined, ReloadNotDropped
<1>1. CASE MainTop
  BY <1>1 DEF MainTop
<1>2. CASE MainSelect \/ SelectFails
  BY <1>2, WokenFetcher DEF MainSelect, SelectFails, Relayed
<1>3. CASE MainLeave
  BY <1>3, WokenFetcher DEF MainLeave
<1>4. CASE JoinFetcher
  BY <1>4, WokenUpdater DEF JoinFetcher
<1>5. CASE JoinUpdater
  BY <1>5 DEF JoinUpdater
<1>6. CASE JoinOthers
  BY <1>6 DEF JoinOthers
<1>7. QED
  BY <1>1, <1>2, <1>3, <1>4, <1>5, <1>6 DEF MainSteps

\* The fetcher resets the flag only on its way to a download.
LEMMA FetcherKeeps == IInv /\ (FetcherSteps \/ FetcherTimeout) => IInv'
<1> SUFFICES ASSUME IInv, FetcherSteps \/ FetcherTimeout PROVE IInv'
  OBVIOUS
<1> USE DEF IInv, TypeOK, Joined, ReloadNotDropped
<1>1. CASE FetcherBoot
  BY <1>1, WokenUpdater DEF FetcherBoot
<1>2. CASE FetcherTop
  BY <1>2 DEF FetcherTop
<1>3. CASE FetcherWork
  BY <1>3, WokenUpdater DEF FetcherWork
<1>4. CASE FetcherWait \/ FetcherTimeout
  BY <1>4 DEF FetcherWait, FetcherTimeout
<1>5. CASE FetcherWoken
  BY <1>5 DEF FetcherWoken
<1>6. CASE FetcherClear
  BY <1>6 DEF FetcherClear
<1>7. QED
  BY <1>1, <1>2, <1>3, <1>4, <1>5, <1>6 DEF FetcherSteps

LEMMA OthersKeep ==
  IInv /\ (UpdaterSteps \/ UpdaterTimeout \/ SleeperSteps) => IInv'
BY DEF IInv, TypeOK, Joined, ReloadNotDropped, UpdaterSteps, UpdaterTop,
       UpdaterWoken, UpdaterWork, UpdaterTimeout, SleeperSteps, Return

LEMMA IInvHolds == Spec => []IInv
<1>1. IInv /\ [Next]_vars => IInv'
  <2> SUFFICES ASSUME IInv, [Next]_vars PROVE IInv'
    OBVIOUS
  <2>1. CASE UNCHANGED vars
    BY <2>1 DEF IInv, TypeOK, Joined, ReloadNotDropped, vars
  <2>2. CASE Next
    BY <2>2, SignalsKeep, MainKeeps, FetcherKeeps, OthersKeep DEF Next, Timeouts
  <2>3. QED
    BY <2>1, <2>2
<1>2. QED
  BY <1>1, InitIInv, PTL DEF Spec

\* The variables of main.c, phonebook_fetcher.c and status_updater.c keep to
\* their types.
THEOREM ThreadsTyped == Spec => []TypeOK
<1>1. IInv => TypeOK
  BY DEF IInv
<1>2. QED
  BY <1>1, IInvHolds, PTL

\* main.c:538-543: the mutexes and condition variables are destroyed when every
\* thread that uses them has returned.
THEOREM EndIsClean == Spec => []CleanEnd
<1>1. IInv => CleanEnd
  BY DEF IInv, Joined, CleanEnd
<1>2. QED
  BY <1>1, IInvHolds, PTL

\* main.c:68 and 419, phonebook_fetcher.c:276: whatever the order of signals and
\* steps, a SIGUSR1 with no download after it is still noted somewhere.
THEOREM NoReloadIsDropped == Spec => []ReloadNotDropped
<1>1. IInv => ReloadNotDropped
  BY DEF IInv
<1>2. QED
  BY <1>1, IInvHolds, PTL

HIDE DEF MainAt, Looping, FetcherAt, UpdaterAt

-----------------------------------------------------------------------------
(* Heartbeats and reports *)

\* A thread at work has had a heartbeat within its lap, and the reporter is at work.
InLap ==
    /\ fate[Reporter] = "work"
    /\ \A t \in Threads : fate[t] = "work" => silence[t] <= Lap[t]

\* Threads that were silent for longer than allowed some ticks ago.
OverdueFor(ticks) == {t \in Threads : silence[t] > MaxSilence + ticks}

\* The marks, the status that is put together and the file show the threads that
\* were overdue when the round began; the file of the round before is a lap older.
FileFollows ==
    /\ pc = "open" => OverdueFor(silence[Reporter]) \subseteq Unresponsive
    /\ pc = "fill" => OverdueFor(silence[Reporter]) \subseteq draft
    /\ written \/ pc \in {"open", "fill"} => config.local
    /\ written =>
        /\ pc # "fill"
        /\ pc \in {"decide", "send", "record", "sleep"} =>
              OverdueFor(silence[Reporter]) \subseteq file
        /\ pc \in {"measure", "open"} =>
              OverdueFor(silence[Reporter] + Lap[Reporter]) \subseteq file

\* Between two reports the reporter has on record what the collector was told.
ToldIsRecorded ==
    /\ pc = "record" => told.cpu = cpu /\ told.mem = mem
    /\ pc # "record" /\ ~last.first => last.cpu = told.cpu /\ last.mem = told.mem

HealthInv == HealthTypeOK /\ InLap /\ NoFalseAlarm /\ FileFollows /\ ToldIsRecorded

-----------------------------------------------------------------------------
(* The score *)

LEMMA ScoreType ==
    ASSUME HealthTypeOK
    PROVE  Score \in 0..100
  <1>1. IsFiniteSet(Unresponsive)
    BY HealthAssumption, FS_Subset DEF Unresponsive
  <1>2. Cardinality(Unresponsive) \in Nat
    BY <1>1, FS_CardinalityType
  <1> DEFINE deducted == Points(cpu > 20, 10) + Points(mem > 12, 10) + Points(leak, 15)
                         + Points(failed, 10) + 30 * Cardinality(Unresponsive)
  <1>3. /\ Points(cpu > 20, 10) \in Nat /\ Points(mem > 12, 10) \in Nat
        /\ Points(leak, 15) \in Nat /\ Points(failed, 10) \in Nat
    BY DEF Points
  <1>4. deducted \in Nat
    BY <1>2, <1>3
  <1>5. Score = IF deducted > 100 THEN 0 ELSE 100 - deducted
    BY DEF Score
  <1> HIDE DEF deducted
  <1> QED
    BY <1>4, <1>5

-----------------------------------------------------------------------------
(* Steps of the threads *)

LEMMA BeatInv ==
    ASSUME HealthInv, NEW t \in Threads, Beat(t), t # Reporter,
           fate'[t] = "work", \A u \in Threads : u # t => fate'[u] = fate[u],
           fate' \in [Threads -> {"work", "stuck", "returned"}],
           UNCHANGED <<config, readings, failed, reporterVars>>
    PROVE  HealthInv'
  <1> USE DEF HealthInv, Beat
  <1>1. Reporter \in Threads /\ Lap \in [Threads -> Nat] /\ MaxSilence \in Nat /\ Forever \in Nat
    BY HealthAssumption
  <1>2. silence' \in [Threads -> 0..Forever] /\ responsive' \in [Threads -> BOOLEAN]
    BY <1>1 DEF HealthTypeOK
  <1>3. HealthTypeOK'
    BY <1>2 DEF HealthTypeOK, readings, reporterVars
  <1>4. silence'[t] = 0 /\ \A u \in Threads : u # t => silence'[u] = silence[u]
    BY DEF HealthTypeOK
  <1>5. InLap'
    BY <1>1, <1>4 DEF InLap
  <1>6. NoFalseAlarm'
    BY DEF HealthTypeOK, NoFalseAlarm
  <1>7. silence'[Reporter] = silence[Reporter] /\ silence[Reporter] \in Nat
    BY <1>1, <1>4 DEF HealthTypeOK
  <1>8. \A ticks \in Nat : OverdueFor(ticks)' = OverdueFor(ticks) \ {t}
    BY <1>1, <1>4 DEF OverdueFor
  <1>9. Unresponsive' = Unresponsive \ {t}
    BY DEF HealthTypeOK, Unresponsive
  <1>10. FileFollows'
    BY <1>1, <1>7, <1>8, <1>9 DEF FileFollows, reporterVars
  <1>11. ToldIsRecorded'
    BY DEF ToldIsRecorded, readings, reporterVars
  <1> QED
    BY <1>3, <1>5, <1>6, <1>10, <1>11

LEMMA HangInv ==
    ASSUME HealthInv, NEW t \in Threads, Hang(t)
    PROVE  HealthInv'
  <1> USE DEF HealthInv, Hang
  <1>1. HealthTypeOK'
    BY DEF HealthTypeOK, readings, reporterVars
  <1>2. InLap' /\ NoFalseAlarm'
    BY HealthAssumption DEF HealthTypeOK, InLap, NoFalseAlarm
  <1>3. FileFollows'
    BY DEF FileFollows, OverdueFor, Unresponsive, reporterVars
  <1>4. ToldIsRecorded'
    BY DEF ToldIsRecorded, readings, reporterVars
  <1> QED
    BY <1>1, <1>2, <1>3, <1>4

LEMMA TickInv ==
    ASSUME HealthInv, Tick
    PROVE  HealthInv'
  <1> USE DEF HealthInv, Tick
  <1>1. /\ Reporter \in Threads /\ Lap \in [Threads -> Nat] /\ MaxSilence \in Nat
        /\ Forever \in Nat /\ Baseline \in Nat /\ Lap[Reporter] < Forever
    BY HealthAssumption
  <1>2. silence' \in [Threads -> 0..Forever]
    BY <1>1 DEF HealthTypeOK
  <1>3. last' \in [first : BOOLEAN, cpu : Nat, mem : Nat, score : 0..100, baseline : 0..Baseline]
        /\ last'.first = last.first /\ last'.cpu = last.cpu /\ last'.mem = last.mem
    BY <1>1 DEF HealthTypeOK
  <1>4. HealthTypeOK'
    BY <1>2, <1>3 DEF HealthTypeOK, readings
  <1>5. InLap'
    BY <1>1 DEF InLap, HealthTypeOK
  <1>6. NoFalseAlarm'
    BY DEF NoFalseAlarm
  <1>7. silence'[Reporter] = silence[Reporter] + 1 /\ silence[Reporter] \in Nat
    BY <1>1 DEF InLap, HealthTypeOK
  <1>8. \A u \in Threads, ticks \in Nat :
           silence'[u] > MaxSilence + (ticks + 1) => silence[u] > MaxSilence + ticks
    BY <1>1 DEF HealthTypeOK
  <1>9. /\ OverdueFor(silence[Reporter])' \subseteq OverdueFor(silence[Reporter])
        /\ OverdueFor(silence[Reporter] + Lap[Reporter])'
              \subseteq OverdueFor(silence[Reporter] + Lap[Reporter])
    <2>1. Lap[Reporter] \in Nat /\ silence[Reporter] + Lap[Reporter] \in Nat
          /\ silence'[Reporter] + Lap[Reporter] = (silence[Reporter] + Lap[Reporter]) + 1
      BY <1>1, <1>7
    <2> QED
      BY <2>1, <1>7, <1>8 DEF OverdueFor
  <1>10. FileFollows'
    BY <1>9 DEF FileFollows, Unresponsive
  <1>11. ToldIsRecorded'
    BY <1>3 DEF ToldIsRecorded, readings
  <1> QED
    BY <1>4, <1>5, <1>6, <1>10, <1>11

LEMMA FetchInv ==
    ASSUME HealthInv, FetchFails \/ FetchSucceeds
    PROVE  HealthInv'
  <1> USE DEF HealthInv
  <1>1. UNCHANGED <<config, threadVars, readings, reporterVars>> /\ failed' \in BOOLEAN
    BY DEF FetchFails, FetchSucceeds
  <1>2. HealthTypeOK'
    BY <1>1 DEF threadVars, readings, reporterVars, HealthTypeOK
  <1>3. InLap' /\ NoFalseAlarm'
    BY <1>1 DEF threadVars, InLap, NoFalseAlarm
  <1>4. FileFollows'
    BY <1>1 DEF threadVars, reporterVars, FileFollows, OverdueFor, Unresponsive
  <1>5. ToldIsRecorded'
    BY <1>1 DEF readings, reporterVars, ToldIsRecorded
  <1> QED
    BY <1>2, <1>3, <1>4, <1>5

-----------------------------------------------------------------------------
(* Steps of the reporter *)

LEMMA StampInv ==
    ASSUME HealthInv, Stamp
    PROVE  HealthInv'
  <1> USE DEF HealthInv, Stamp, Beat
  <1>1. /\ Reporter \in Threads /\ Lap \in [Threads -> Nat] /\ MaxSilence \in Nat
        /\ Forever \in Nat
    BY HealthAssumption
  <1>2. silence' \in [Threads -> 0..Forever] /\ responsive' \in [Threads -> BOOLEAN]
    BY <1>1 DEF HealthTypeOK
  <1>3. HealthTypeOK'
    BY <1>2 DEF HealthTypeOK, readings, Phases
  <1>4. silence'[Reporter] = 0 /\ \A u \in Threads : u # Reporter => silence'[u] = silence[u]
    BY <1>1 DEF HealthTypeOK
  <1>5. InLap' /\ NoFalseAlarm'
    <2>1. Lap[Reporter] \in Nat /\ 0 <= Lap[Reporter]
      BY <1>1
    <2>2. InLap'
      BY <1>1, <1>4, <2>1 DEF InLap
    <2>3. NoFalseAlarm'
      BY DEF HealthTypeOK, NoFalseAlarm
    <2> QED
      BY <2>2, <2>3
  <1>6. silence[Reporter] \in Nat /\ silence[Reporter] <= Lap[Reporter]
    BY <1>1 DEF HealthTypeOK, InLap
  <1>7. OverdueFor(silence[Reporter] + Lap[Reporter])' \subseteq OverdueFor(silence[Reporter])
    <2> SUFFICES ASSUME NEW u \in Threads,
                        silence'[u] > MaxSilence + (silence'[Reporter] + Lap[Reporter])
                 PROVE  silence[u] > MaxSilence + silence[Reporter]
      BY DEF OverdueFor
    <2>1. Lap[Reporter] \in Nat /\ silence[u] \in Nat
      <3>1. silence \in [Threads -> 0..Forever]
        BY DEF HealthTypeOK
      <3>2. silence[u] \in 0..Forever
        BY <3>1
      <3> QED
        BY <3>2, <1>1
    <2>2. u # Reporter
      BY <2>1, <1>1, <1>4
    <2>3. silence'[u] = silence[u]
      BY <2>2, <1>4
    <2> QED
      BY <2>1, <2>3, <1>1, <1>4, <1>6
  <1>8. FileFollows'
    BY <1>7 DEF FileFollows
  <1>9. ToldIsRecorded'
    BY DEF ToldIsRecorded, readings
  <1> QED
    BY <1>3, <1>5, <1>8, <1>9

LEMMA MeasureInv ==
    ASSUME HealthInv, Measure
    PROVE  HealthInv'
  <1> USE DEF HealthInv, Measure
  <1>1. /\ Reporter \in Threads /\ Lap \in [Threads -> Nat] /\ MaxSilence \in Nat
        /\ CpuLevels \subseteq Nat /\ MemLevels \subseteq Nat
    BY HealthAssumption
  <1>2. pc' \in {"open", "decide", "sleep"} /\ pc' \in Phases
    BY DEF AfterFile, Phases
  <1>3. responsive' \in [Threads -> BOOLEAN] /\ all' \in BOOLEAN /\ leak' \in BOOLEAN
    BY DEF HealthTypeOK
  <1>4. cpu' \in Nat /\ mem' \in Nat
    BY <1>1 DEF HealthTypeOK
  <1>5. HealthTypeOK'
    BY <1>2, <1>3, <1>4 DEF HealthTypeOK
  <1>6. InLap'
    BY DEF InLap
  <1>7. NoFalseAlarm'
    <2> SUFFICES ASSUME NEW t \in Threads, Lap[t] <= MaxSilence, fate[t] = "work"
                 PROVE  responsive'[t]
      BY DEF NoFalseAlarm
    <2>1. silence[t] \in Nat /\ Lap[t] \in Nat /\ silence[t] <= Lap[t]
      BY <1>1 DEF HealthTypeOK, InLap
    <2>2. t \notin Overdue
      BY <2>1, <1>1 DEF Overdue
    <2> QED
      BY <2>2 DEF NoFalseAlarm
  <1>8. silence[Reporter] \in Nat
    BY <1>1 DEF HealthTypeOK
  <1>9. OverdueFor(silence[Reporter]) \subseteq Overdue
    BY <1>1, <1>8 DEF OverdueFor, Overdue, HealthTypeOK
  <1>10. OverdueFor(silence[Reporter])' \subseteq Unresponsive'
    BY <1>9 DEF OverdueFor, Unresponsive
  <1>11. FileFollows'
    <2>1. CASE config.local
      <3>1. pc' = "open" /\ config'.local
        BY <2>1
      <3>2. written => OverdueFor(silence[Reporter] + Lap[Reporter])' \subseteq file'
        BY DEF FileFollows, OverdueFor
      <3> QED
        BY <3>1, <3>2, <1>10 DEF FileFollows
    <2>2. CASE ~config.local
      BY <2>2, <1>2 DEF FileFollows, AfterFile
    <2> QED
      BY <2>1, <2>2
  <1>12. ToldIsRecorded'
    BY <1>2 DEF ToldIsRecorded
  <1> QED
    BY <1>5, <1>6, <1>7, <1>11, <1>12

LEMMA StatusInv ==
    ASSUME HealthInv, OpenStatus \/ FillStatus
    PROVE  HealthInv'
  <1> USE DEF HealthInv, OpenStatus, FillStatus
  <1>1. pc' \in {"fill", "decide", "sleep"} /\ pc' \in Phases
    BY DEF AfterFile, Phases
  <1>2. draft' \in SUBSET Threads /\ file' \in SUBSET Threads /\ written' \in BOOLEAN
    BY DEF HealthTypeOK, Unresponsive
  <1>3. UNCHANGED <<config, fate, silence, responsive, readings, failed, reason, last, told>>
    BY DEF threadVars
  <1>4. HealthTypeOK'
    BY <1>1, <1>2, <1>3 DEF HealthTypeOK, readings
  <1>5. InLap' /\ NoFalseAlarm'
    BY <1>3 DEF InLap, NoFalseAlarm
  <1>6. OverdueFor(silence[Reporter])' = OverdueFor(silence[Reporter])
    BY <1>3 DEF OverdueFor
  <1>7. config.local /\ config'.local
    BY <1>3 DEF FileFollows
  <1>8. FileFollows'
    <2>1. CASE OpenStatus
      BY <2>1, <1>1, <1>6, <1>7 DEF FileFollows, AfterFile
    <2>2. CASE FillStatus
      BY <2>2, <1>6, <1>7 DEF FileFollows, AfterFile
    <2> QED
      BY <2>1, <2>2
  <1>9. ToldIsRecorded'
    BY <1>1, <1>3 DEF ToldIsRecorded, readings, AfterFile
  <1> QED
    BY <1>4, <1>5, <1>8, <1>9

LEMMA ReasonType == Due \in Reasons
  BY DEF Due, Reasons

\* Deciding, sending and recording leave the marks, the status and the file alone.
LEMMA TellInv ==
    ASSUME HealthInv, Decide \/ Send \/ SendFails \/ Record
    PROVE  HealthInv'
  <1> USE DEF HealthInv, Decide, Send, SendFails, Record
  <1>1. /\ UNCHANGED <<config, threadVars, readings, failed, draft, file, written>>
        /\ pc \in {"decide", "send", "record"} /\ pc' \in {"send", "record", "sleep"}
    OBVIOUS
  <1>2. Baseline \in Nat /\ Score \in 0..100
    BY HealthAssumption, ScoreType
  <1>3. last' \in [first : BOOLEAN, cpu : Nat, mem : Nat, score : 0..100, baseline : 0..Baseline]
    <2>1. CASE last' = last
      BY <2>1 DEF HealthTypeOK
    <2>2. CASE Send
      BY <2>2, <1>2 DEF HealthTypeOK
    <2>3. CASE Record
      BY <2>3, <1>2 DEF HealthTypeOK
    <2> QED
      BY <2>1, <2>2, <2>3
  <1>4. told' \in [cpu : Nat, mem : Nat, score : 0..100, all : BOOLEAN]
    BY <1>2 DEF HealthTypeOK
  <1>5. reason' \in Reasons
    BY ReasonType DEF HealthTypeOK, Reasons
  <1>6. pc' \in Phases
    BY <1>1 DEF Phases
  <1>7. HealthTypeOK'
    BY <1>1, <1>3, <1>4, <1>5, <1>6 DEF HealthTypeOK, threadVars, readings
  <1>8. InLap' /\ NoFalseAlarm'
    BY <1>1 DEF InLap, NoFalseAlarm, threadVars
  <1>9. FileFollows'
    BY <1>1 DEF FileFollows, OverdueFor, threadVars
  <1>10. ToldIsRecorded'
    <2>1. CASE Decide \/ SendFails
      BY <2>1 DEF ToldIsRecorded, readings
    <2>2. CASE Send
      BY <2>2 DEF ToldIsRecorded, readings
    <2>3. CASE Record
      BY <2>3 DEF ToldIsRecorded, HealthTypeOK, readings
    <2> QED
      BY <2>1, <2>2, <2>3
  <1> QED
    BY <1>7, <1>8, <1>9, <1>10

-----------------------------------------------------------------------------

LEMMA HealthInvInit ==
    ASSUME HealthInit
    PROVE  HealthInv
  <1>1. /\ Reporter \in Threads /\ Lap \in [Threads -> Nat] /\ MaxSilence \in Nat
        /\ Forever \in Nat /\ Baseline \in Nat /\ StartMem \in Nat /\ config \in Config
    BY HealthAssumption DEF HealthInit
  <1>2. HealthTypeOK
    <2>1. fate \in [Threads -> {"work", "stuck", "returned"}]
      BY DEF HealthInit
    <2>2. silence \in [Threads -> 0..Forever] /\ responsive \in [Threads -> BOOLEAN]
      BY <1>1 DEF HealthInit
    <2>3. last \in [first : BOOLEAN, cpu : Nat, mem : Nat, score : 0..100, baseline : 0..Baseline]
      BY <1>1 DEF HealthInit
    <2>4. told \in [cpu : Nat, mem : Nat, score : 0..100, all : BOOLEAN]
      BY DEF HealthInit
    <2> QED
      BY <1>1, <2>1, <2>2, <2>3, <2>4 DEF HealthInit, HealthTypeOK, Phases, Reasons
  <1>3. fate[Reporter] = "work"
    BY <1>1 DEF HealthInit, Config
  <1>4. InLap
    BY <1>1, <1>3 DEF HealthInit, InLap
  <1> QED
    BY <1>2, <1>4 DEF HealthInit, HealthInv, NoFalseAlarm, FileFollows, ToldIsRecorded

LEMMA HealthInvStep ==
    ASSUME HealthInv, [HealthNext]_healthVars
    PROVE  HealthInv'
  <1>1. ASSUME NEW t \in Threads, Heartbeat(t) \/ Resume(t)
        PROVE  HealthInv'
    <2>1. Beat(t) /\ t # Reporter /\ UNCHANGED <<config, readings, failed, reporterVars>>
      BY <1>1 DEF Heartbeat, Resume
    <2>2. fate \in [Threads -> {"work", "stuck", "returned"}]
      BY DEF HealthInv, HealthTypeOK
    <2>3. /\ fate'[t] = "work" /\ \A u \in Threads : u # t => fate'[u] = fate[u]
          /\ fate' \in [Threads -> {"work", "stuck", "returned"}]
      BY <1>1, <2>2 DEF Heartbeat, Resume
    <2> QED
      BY <2>1, <2>3, BeatInv
  <1>2. CASE UNCHANGED healthVars
    BY <1>2 DEF healthVars, threadVars, readings, reporterVars, HealthInv, HealthTypeOK, InLap,
                NoFalseAlarm, FileFollows, OverdueFor, Unresponsive, ToldIsRecorded
  <1> QED
    BY <1>1, <1>2, HangInv, TickInv, FetchInv, StampInv, MeasureInv, StatusInv, TellInv
       DEF HealthNext, Report

\* HealthInv is an invariant.
THEOREM HealthInvariant == HealthSpec => []HealthInv
  BY HealthInvInit, HealthInvStep, PTL DEF HealthSpec

\* For any threads and laps: one that does its rounds, with a round that is not
\* longer than the silence that is allowed, is never taken for unresponsive.
THEOREM NoThreadIsMaligned == HealthSpec => []NoFalseAlarm
  <1>1. HealthInv => NoFalseAlarm
    BY DEF HealthInv
  <1> QED
    BY <1>1, HealthInvariant, PTL

\* For any threads and laps: the file shows each thread that has been silent for two
\* rounds of the reporter longer than is allowed, once it has been written.
THEOREM HungThreadIsShown == HealthSpec => []HungIsShown
  <1>1. HealthInv => HungIsShown
    <2> SUFFICES ASSUME HealthInv, written, NEW t \in Threads,
                        silence[t] > MaxSilence + 2 * Lap[Reporter]
                 PROVE  t \in file
      BY DEF HungIsShown
    <2>1. /\ Reporter \in Threads /\ Lap[Reporter] \in Nat /\ MaxSilence \in Nat
          /\ Forever \in Nat
      BY HealthAssumption
    <2>2. silence[Reporter] \in Nat /\ silence[Reporter] <= Lap[Reporter] /\ silence[t] \in Nat
      BY <2>1 DEF HealthInv, HealthTypeOK, InLap
    <2>3. /\ t \in OverdueFor(silence[Reporter])
          /\ t \in OverdueFor(silence[Reporter] + Lap[Reporter])
      BY <2>1, <2>2 DEF OverdueFor
    <2> QED
      BY <2>3 DEF HealthInv, FileFollows, HealthTypeOK, Phases
  <1> QED
    BY <1>1, HealthInvariant, PTL

\* For any thresholds and readings: after a round without a report, what the
\* collector was told last is within the thresholds of what the round measured.
THEOREM CollectorIsKept == HealthSpec => CollectorKnows
  <1>1. HealthInv /\ [HealthNext]_healthVars
            => [pc = "decide" /\ pc' = "sleep" /\ last.score = told.score => Known]_healthVars
    <2> SUFFICES ASSUME HealthInv, HealthNext, pc = "decide", pc' = "sleep", last.score = told.score
                 PROVE  Known
      OBVIOUS
    <2>1. Decide
      BY DEF HealthNext, Heartbeat, Resume, Hang, Tick, FetchFails, FetchSucceeds, Report, Send,
             SendFails, Stamp, Measure, OpenStatus, FillStatus, Record, reporterVars
    <2>2. Due = "none"
      BY <2>1 DEF Decide
    <2>3. /\ ~last.first /\ all
          /\ ~(Distance(cpu, last.cpu) > CpuStep)
          /\ ~(mem - last.mem > MemStep)
          /\ ~(last.score - Score > ScoreStep)
      BY <2>2 DEF Due
    <2>4. last.cpu = told.cpu /\ last.mem = told.mem
      BY <2>3 DEF HealthInv, ToldIsRecorded
    <2>5. /\ cpu \in Nat /\ mem \in Nat /\ told.cpu \in Nat /\ told.mem \in Nat
          /\ told.score \in Int /\ Score \in Int
          /\ CpuStep \in Nat /\ MemStep \in Nat /\ ScoreStep \in Nat
      BY ScoreType, HealthAssumption DEF HealthInv, HealthTypeOK
    <2>6. Distance(cpu, told.cpu) \in Int
      BY <2>5 DEF Distance
    <2> QED
      BY <2>3, <2>4, <2>5, <2>6 DEF Known
  <1> QED
    BY <1>1, HealthInvariant, PTL DEF HealthSpec, CollectorKnows
=============================================================================
