--------------------------- MODULE ActiveCallsProofs ---------------------------
(***************************************************************************)
(* Proofs about ActiveCalls, for any calls, table size, age limit and any  *)
(* files: types, no temporary file is left behind, and each of the two     *)
(* threads is as good as atomic while they are apart.                      *)
(*                                                                         *)
(* Nothing in the code keeps the threads apart, so the invariant of the    *)
(* third result is about the one thread that is at work, and says what it  *)
(* has half done: a session is nameless or undated only in the slot the    *)
(* main thread is filling, the slot the cleanup is about to free is old    *)
(* (SessionsSound); the temporary file is not the one readers see, and is  *)
(* empty, or whole by the time it is renamed (FilesSound).                 *)
(***************************************************************************)
EXTENDS ActiveCalls, SequenceTheorems, TLAPS

\* Where a thread has a file of the temporary name, or had one.
Writing == {"list", "close", "rename", "remove"}

\* The temporary file has a writer.
TempInUse == temp # NoFile => \E t \in Threads : pc[t] \in Writing

\* At most one thread is at work.
OneAtWork == \E t \in Threads : ~AtWork(t)

\* The slot the main thread is filling.
Filling(s, labels) == s = at["main"] /\ pc["main"] \in labels

\* The sessions are whole, but for the slot a thread is working on.
SessionsSound ==
    /\ \A s \in Slots : table[s].inUse =>
          /\ table[s].call \in CallIds \/ Filling(s, {"stamp", "fill"})
          /\ born[s] <= table[s].created \/ Filling(s, {"stamp"})
    /\ \A s \in Slots : born[s] <= now
    /\ pc["main"] \in {"stamp", "fill"} => call \in CallIds
    /\ pc["safety"] = "free" => Old(at["safety"])
    /\ AtWork("safety") => seen <= now
    /\ \A t \in Threads : pc[t] = "clear" => ~table[at[t]].inUse

\* Readers see a whole file, and what replaces it next is whole by then.
FilesSound ==
    /\ temp # json
    /\ Whole(content[json])
    /\ \A t \in Threads :
          /\ pc[t] \in {"list", "close"} => fd[t] = temp /\ temp \in Files /\ content[temp] = <<>>
          /\ pc[t] = "list" => \A i \in DOMAIN buf[t] : buf[t][i] # End
          /\ pc[t] = "close" => Whole(buf[t])
          /\ pc[t] = "rename" => temp \in Files /\ Whole(content[temp])

\* Until the threads have met, both hold and the cleanup has ended no young session.
ApartInv == met \/ (OneAtWork /\ SessionsSound /\ FilesSound /\ ~tooYoung)

\* What all steps of the two threads preserve.
ActiveInv == TypeOK /\ TempInUse /\ ApartInv

-----------------------------------------------------------------------------
(* Types *)

\* A file that is written over still holds a sequence of blocks.
LEMMA OverType ==
    ASSUME NEW S, NEW new \in Seq(S), NEW old \in Seq(S)
    PROVE  Over(new, old) \in Seq(S)
  <1>1. Len(new) + 1 \in 1..(Len(old) + 1) \/ Len(new) + 1 > Len(old) + 1
    OBVIOUS
  <1>2. SubSeq(old, Len(new) + 1, Len(old)) \in Seq(S)
    OBVIOUS
  <1> QED
    BY <1>2 DEF Over

\* A thread that returns to its loop goes to a slot.
LEMMA ReturnType ==
    ASSUME TypeOK, NEW t \in Threads, Return(t)
    PROVE  /\ at' \in [Threads -> Slots]
           /\ pc' \in [Threads -> Label]
           /\ pc' = [pc EXCEPT ![t] = pc'[t]]
           /\ pc'[t] \in {"idle", "scan"}
           /\ t = "main" => pc'[t] = "idle"
  <1>1. 1 \in Slots /\ at[t] \in Slots /\ Slots = 1..MaxSessions
    BY ActiveAssumption DEF TypeOK, Slots
  <1>2. at[t] < MaxSessions => at[t] + 1 \in Slots
    BY <1>1, ActiveAssumption
  <1> QED
    BY <1>1, <1>2 DEF Return, NextSlot, Go, TypeOK, Label, Threads

\* The updates of a slot leave a session in it.
LEMMA SessionTypes ==
    ASSUME NEW x \in Session
    PROVE  /\ [x EXCEPT !.inUse = TRUE] \in Session
           /\ [x EXCEPT !.inUse = FALSE, !.state = "FREE"] \in Session
         /\ [x EXCEPT !.state = "ESTABLISHED"] \in Session
         /\ [x EXCEPT !.call = None] \in Session
  BY DEF Session

\* The message handlers keep the types.
LEMMA MainTypes ==
    ASSUME TypeOK,
           (\E c \in CallIds : MarkInUse(c) \/ HandleFound(c)) \/ Stamp \/ Fill \/ Progress
    PROVE  TypeOK'
  <1> USE DEF TypeOK, Threads, Label
  <1>1. ASSUME NEW c \in CallIds, MarkInUse(c)
        PROVE  TypeOK'
    <2>1. PICK s \in Slots : /\ table' = [table EXCEPT ![s].inUse = TRUE]
                            /\ born' = [born EXCEPT ![s] = now]
                            /\ at' = [at EXCEPT !["main"] = s]
      BY <1>1 DEF MarkInUse
    <2>2. table' \in [Slots -> Session]
      <3>1. table[s] \in Session /\ [table[s] EXCEPT !.inUse = TRUE] \in Session
        BY SessionTypes
      <3>2. table' = [table EXCEPT ![s] = [table[s] EXCEPT !.inUse = TRUE]]
        BY <2>1
      <3> QED
        BY <3>1, <3>2
    <2>3. born' \in [Slots -> 0..MaxTime] /\ at' \in [Threads -> Slots] /\ pc' \in [Threads -> Label]
      BY <1>1, <2>1 DEF MarkInUse, Go
    <2> QED
      BY <1>1, <2>2, <2>3 DEF MarkInUse, fileVars
  <1>2. ASSUME NEW c \in CallIds, HandleFound(c)
        PROVE  TypeOK'
    BY <1>2 DEF HandleFound, Go, fileVars, tableVars
  <1>3. CASE Stamp
    BY <1>3 DEF Stamp, Session, Go, fileVars
  <1>4. CASE Fill
    BY <1>4 DEF Fill, Session, Go, fileVars
  <1>5. CASE Progress
    <2>1. table[at["main"]] \in Session /\ [table[at["main"]] EXCEPT !.state = "ESTABLISHED"] \in Session
      BY SessionTypes
    <2>2. table' = [table EXCEPT ![at["main"]] = [table[at["main"]] EXCEPT !.state = "ESTABLISHED"]]
      BY <1>5 DEF Progress
    <2>3. table' \in [Slots -> Session]
      BY <2>1, <2>2
    <2> QED
      BY <1>5, <2>3 DEF Progress, Go, fileVars
  <1> QED
    BY <1>1, <1>2, <1>3, <1>4, <1>5

\* So does the scan of the cleanup,
LEMMA SafetyTypes ==
    ASSUME TypeOK, BeginScan \/ ScanSlot
    PROVE  TypeOK'
  <1>1. CASE BeginScan
    <2>1. 1 \in Slots /\ "safety" \in Threads /\ "scan" \in Label
      BY ActiveAssumption DEF Slots, Threads, Label
    <2>2. at' \in [Threads -> Slots] /\ pc' \in [Threads -> Label] /\ seen' \in 0..MaxTime
      BY <1>1, <2>1 DEF BeginScan, TypeOK, Go
    <2> QED
      BY <1>1, <2>2 DEF BeginScan, TypeOK, fileVars, tableVars
  <1>2. CASE ScanSlot
    <2>1. at' \in [Threads -> Slots] /\ pc' \in [Threads -> Label]
      <3>1. CASE NextSlot
        BY <3>1, ReturnType DEF Return, Threads
      <3>2. CASE Go("safety", "free") /\ UNCHANGED at
        BY <3>2 DEF Go, TypeOK, Threads, Label
      <3> QED
        BY <1>2, <3>1, <3>2 DEF ScanSlot
    <2> QED
      BY <1>2, <2>1 DEF ScanSlot, TypeOK, fileVars, tableVars
  <1> QED
    BY <1>1, <1>2

\* the end of a session,
LEMMA FreeTypes ==
    ASSUME TypeOK, NEW t \in Threads, FreeSlot(t) \/ ClearSlot(t)
    PROVE  TypeOK'
  <1> USE DEF TypeOK, Label
  <1>1. CASE FreeSlot(t)
    <2>1. 0 \in 0..MaxTime /\ at[t] \in Slots
      BY ActiveAssumption
    <2>2. table' \in [Slots -> Session] /\ born' \in [Slots -> 0..MaxTime]
      <3>1. CASE /\ table' = [table EXCEPT ![at[t]].inUse = FALSE, ![at[t]].state = "FREE"]
                 /\ born' = [born EXCEPT ![at[t]] = 0]
        <4>1. /\ table[at[t]] \in Session
              /\ [table[at[t]] EXCEPT !.inUse = FALSE, !.state = "FREE"] \in Session
          BY <2>1, SessionTypes
        <4>2. table' = [table EXCEPT ![at[t]] =
                          [table[at[t]] EXCEPT !.inUse = FALSE, !.state = "FREE"]]
          BY <3>1
        <4>3. table' \in [Slots -> Session]
          BY <4>1, <4>2
        <4> QED
          BY <2>1, <3>1, <4>3
      <3>2. CASE UNCHANGED tableVars
        BY <3>2 DEF tableVars
      <3> QED
        BY <1>1, <3>1, <3>2 DEF FreeSlot
    <2>3. pc' \in [Threads -> Label] /\ tooYoung' \in BOOLEAN
      BY <1>1 DEF FreeSlot, Go
    <2> QED
      BY <1>1, <2>2, <2>3 DEF FreeSlot, fileVars
  <1>2. CASE ClearSlot(t)
    <2>1. table[at[t]] \in Session /\ [table[at[t]] EXCEPT !.call = None] \in Session
      BY SessionTypes
    <2>2. table' = [table EXCEPT ![at[t]] = [table[at[t]] EXCEPT !.call = None]]
      BY <1>2 DEF ClearSlot
    <2>3. table' \in [Slots -> Session]
      BY <2>1, <2>2
    <2> QED
      BY <1>2, <2>3 DEF ClearSlot, Go, fileVars
  <1> QED
    BY <1>1, <1>2

\* the export,
LEMMA ExportTypes ==
    ASSUME TypeOK, NEW t \in Threads, Export(t)
    PROVE  TypeOK'
  <1>1. CASE OpenTemp(t)
    BY <1>1 DEF OpenTemp, TypeOK, Label, Content, Go, tableVars
  <1>2. CASE OpenFails(t)
    BY <1>2, ReturnType DEF OpenFails, TypeOK, fileVars, tableVars
  <1>3. CASE List(t)
    <2>1. /\ row \in [Threads -> 1..(MaxSessions + 1)] /\ row[t] \in 1..(MaxSessions + 1)
          /\ buf[t] \in Seq(Block)
      BY DEF TypeOK, Content
    <2>2. row'[t] \in 1..(MaxSessions + 1) /\ row' = [row EXCEPT ![t] = row'[t]]
      BY <1>3, <2>1, ActiveAssumption DEF List
    <2>3. row[t] <= MaxSessions => table[row[t]].call \in Block
      BY <2>1, ActiveAssumption DEF TypeOK, Slots, Block, Session
    <2>4. buf'[t] \in Seq(Block) /\ buf' = [buf EXCEPT ![t] = buf'[t]]
      <3>1. \A x \in Block : Append(buf[t], x) \in Seq(Block)
        BY <2>1
      <3>2. End \in Block
        BY DEF Block
      <3>3. \E x \in Seq(Block) : buf' = [buf EXCEPT ![t] = x]
        BY <1>3, <2>1, <2>3, <3>1, <3>2 DEF List
      <3> QED
        BY <3>3 DEF TypeOK
    <2>5. pc' \in [Threads -> Label]
      BY <1>3 DEF List, Go, TypeOK, Label
    <2>6. row' \in [Threads -> 1..(MaxSessions + 1)] /\ buf' \in [Threads -> Content]
      BY <2>1, <2>2, <2>4 DEF TypeOK, Content
    <2> QED
      BY <1>3, <2>5, <2>6 DEF List, TypeOK, tableVars
  <1>4. CASE Close(t)
    <2>1. fd[t] \in Files => Over(buf[t], content[fd[t]]) \in Content
      BY OverType DEF TypeOK, Content
    <2>2. content' \in [Files -> Content]
      BY <1>4, <2>1 DEF Close, TypeOK
    <2>3. pc' \in [Threads -> Label] /\ fd' \in [Threads -> Files \cup {NoFile}]
          /\ buf' \in [Threads -> Content]
      BY <1>4 DEF Close, Go, TypeOK, Label, Content
    <2> QED
      BY <1>4, <2>2, <2>3 DEF Close, TypeOK, tableVars
  <1>5. CASE Rename(t)
    <2>1. CASE /\ temp # NoFile /\ json' = temp /\ temp' = NoFile
               /\ content' = [content EXCEPT ![json] = <<>>]
               /\ Return(t)
      BY <1>5, <2>1, ReturnType DEF Rename, TypeOK, Content, tableVars
    <2>2. CASE Go(t, "remove") /\ UNCHANGED <<json, temp, content, at>>
      BY <1>5, <2>2 DEF Rename, Go, TypeOK, Label, tableVars
    <2> QED
      BY <1>5, <2>1, <2>2 DEF Rename
  <1>6. CASE RemoveTemp(t)
    <2>1. content' \in [Files -> Content]
      BY <1>6 DEF RemoveTemp, TypeOK, Content
    <2> QED
      BY <1>6, <2>1, ReturnType DEF RemoveTemp, TypeOK, tableVars
  <1> QED
    BY <1>1, <1>2, <1>3, <1>4, <1>5, <1>6 DEF Export

\* and with them every step.
LEMMA TypesKept ==
    ASSUME TypeOK, Next
    PROVE  TypeOK'
  <1>1. CASE Main
    BY <1>1, MainTypes, FreeTypes, ExportTypes DEF Main, Threads
  <1>2. CASE Safety
    BY <1>2, SafetyTypes, FreeTypes, ExportTypes DEF Safety, Threads
  <1>3. CASE Tick
    BY <1>3, ActiveAssumption DEF Tick, TypeOK, fileVars, tableVars
  <1> QED
    BY <1>1, <1>2, <1>3 DEF Next

-----------------------------------------------------------------------------
(* One thread steps at a time *)

\* The step of a thread leaves the program counter of the other.  It is not at work on
\* either side only if the step is not one.
Moves(t) ==
    /\ pc' = [pc EXCEPT ![t] = pc'[t]]
    /\ AtWork(t) \/ AtWork(t)'

\* A step of the main thread moves the main thread only.
LEMMA MainMoves ==
    ASSUME TypeOK, Main
    PROVE  Moves("main")
  <1> USE DEF Moves, TypeOK, Threads, Go, AtWork
  <1>1. CASE \E c \in CallIds : MarkInUse(c)
    BY <1>1 DEF MarkInUse
  <1>2. CASE \E c \in CallIds : HandleFound(c)
    BY <1>2 DEF HandleFound
  <1>3. CASE Stamp \/ Fill \/ Progress
    BY <1>3 DEF Stamp, Fill, Progress
  <1>4. CASE FreeSlot("main") \/ ClearSlot("main")
    BY <1>4 DEF FreeSlot, ClearSlot
  <1>5. CASE Export("main")
    BY <1>5, ReturnType DEF Export, OpenTemp, OpenFails, List, Close, Rename, RemoveTemp
  <1> QED
    BY <1>1, <1>2, <1>3, <1>4, <1>5 DEF Main

\* A step of the safety thread moves the safety thread only.
LEMMA SafetyMoves ==
    ASSUME TypeOK, Safety
    PROVE  Moves("safety")
  <1> USE DEF Moves, TypeOK, Threads, Go, AtWork
  <1>1. CASE BeginScan
    BY <1>1 DEF BeginScan
  <1>2. CASE ScanSlot
    BY <1>2, ReturnType DEF ScanSlot, Return
  <1>3. CASE FreeSlot("safety") \/ ClearSlot("safety")
    BY <1>3 DEF FreeSlot, ClearSlot
  <1>4. CASE Export("safety")
    BY <1>4, ReturnType DEF Export, OpenTemp, OpenFails, List, Close, Rename, RemoveTemp
  <1> QED
    BY <1>1, <1>2, <1>3, <1>4 DEF Safety

\* As long as the threads are apart, one steps while the other is idle.
LEMMA OtherIsIdle ==
    ASSUME TypeOK, OneAtWork, OneAtWork', NEW t \in Threads, Moves(t),
           NEW o \in Threads, o # t
    PROVE  pc[o] = "idle" /\ pc'[o] = "idle"
  <1>1. pc'[o] = pc[o]
    BY DEF Moves, TypeOK
  <1>2. CASE AtWork(t)
    BY <1>1, <1>2 DEF OneAtWork, AtWork, Threads
  <1>3. CASE AtWork(t)'
    BY <1>1, <1>3 DEF OneAtWork, AtWork, Threads
  <1> QED
    BY <1>2, <1>3 DEF Moves

-----------------------------------------------------------------------------
(* The temporary file has a writer *)

\* What the step of a thread does to the temporary file.
LEMMA TempOfExport ==
    ASSUME TypeOK, NEW t \in Threads, Export(t)
    PROVE  temp' = NoFile \/ pc'[t] \in Writing \/ (temp' = temp /\ pc[t] \notin Writing)
  <1> USE DEF TypeOK, Go, Writing
  <1>1. CASE OpenTemp(t) \/ List(t) \/ Close(t)
    BY <1>1 DEF OpenTemp, List, Close
  <1>2. CASE OpenFails(t)
    BY <1>2 DEF OpenFails, fileVars
  <1>3. CASE Rename(t) \/ RemoveTemp(t)
    BY <1>3 DEF Rename, RemoveTemp
  <1> QED
    BY <1>1, <1>2, <1>3 DEF Export

\* Ending a session leaves the temporary file alone.
LEMMA TempOfFree ==
    ASSUME NEW t \in Threads, FreeSlot(t) \/ ClearSlot(t)
    PROVE  temp' = temp /\ pc[t] \notin Writing
  BY DEF FreeSlot, ClearSlot, fileVars, Writing

\* A temporary file that outlives a step has a writer after it.
LEMMA TempKept ==
    ASSUME TypeOK, TempInUse, Next
    PROVE  TempInUse'
  <1> DEFINE Safe(t) == temp' = NoFile \/ pc'[t] \in Writing \/ (temp' = temp /\ pc[t] \notin Writing)
  <1>1. ASSUME NEW t \in Threads, Moves(t), Safe(t)
        PROVE  TempInUse'
    <2>1. \A u \in Threads : u # t => pc'[u] = pc[u]
      BY <1>1 DEF Moves, TypeOK
    <2> QED
      BY <1>1, <2>1 DEF TempInUse
  <1>2. CASE Main
    <2>1. Safe("main")
      <3>1. CASE (\E c \in CallIds : MarkInUse(c) \/ HandleFound(c)) \/ Stamp \/ Fill \/ Progress
        BY <3>1 DEF MarkInUse, HandleFound, MayStart, Stamp, Fill, Progress, fileVars, Writing
      <3>2. CASE FreeSlot("main") \/ ClearSlot("main")
        BY <3>2, TempOfFree DEF Threads
      <3>3. CASE Export("main")
        BY <3>3, TempOfExport DEF Threads
      <3> QED
        BY <1>2, <3>1, <3>2, <3>3 DEF Main
    <2> QED
      BY <1>1, <1>2, <2>1, MainMoves DEF Threads
  <1>3. CASE Safety
    <2>1. Safe("safety")
      <3>1. CASE BeginScan \/ ScanSlot
        BY <3>1 DEF BeginScan, MayStart, ScanSlot, fileVars, Writing
      <3>2. CASE FreeSlot("safety") \/ ClearSlot("safety")
        BY <3>2, TempOfFree DEF Threads
      <3>3. CASE Export("safety")
        BY <3>3, TempOfExport DEF Threads
      <3> QED
        BY <1>3, <3>1, <3>2, <3>3 DEF Safety
    <2> QED
      BY <1>1, <1>3, <2>1, SafetyMoves DEF Threads
  <1>4. CASE Tick
    BY <1>4 DEF Tick, fileVars, TempInUse
  <1> QED
    BY <1>2, <1>3, <1>4 DEF Next

-----------------------------------------------------------------------------
(* The sessions, while the other thread is idle *)

\* A slot is freed and cleared, by either thread; the cleanup has found it old.
LEMMA SlotFreed ==
    ASSUME TypeOK, TypeOK', SessionsSound, NEW t \in Threads, FreeSlot(t) \/ ClearSlot(t),
           \A o \in Threads \ {t} : pc[o] = "idle"
    PROVE  SessionsSound' /\ (~tooYoung => ~tooYoung')
  <1> DEFINE s == at[t]
  <1>1. /\ SessionsSound /\ s \in Slots /\ at' = at /\ now' = now /\ seen' = seen /\ call' = call
        /\ pc[t] \in {"free", "clear"} /\ pc'[t] \in {"clear", "export"}
        /\ \A o \in Threads \ {t} : pc[o] = "idle" /\ pc'[o] = "idle"
        /\ \A r \in Slots \ {s} : table'[r] = table[r] /\ born'[r] = born[r]
    BY DEF TypeOK, FreeSlot, ClearSlot, Go, tableVars
  <1>2. \A r \in Slots : /\ table[r].inUse => /\ table[r].call \in CallIds
                                              /\ born[r] <= table[r].created
                         /\ table[r] \in Session /\ born[r] <= now
    BY <1>1 DEF SessionsSound, Filling, TypeOK, Threads
  <1>3. /\ ~table'[s].inUse
        /\ born'[s] \in {0, born[s]}
    <2>1. table[s] \in Session
      BY <1>1 DEF TypeOK
    <2>2. CASE FreeSlot(t)
      BY <2>1, <2>2, <1>1 DEF FreeSlot, tableVars, TypeOK, Session
    <2>3. CASE ClearSlot(t)
      <3>1. ~table[s].inUse
        BY <1>1, <2>3 DEF SessionsSound, ClearSlot
      <3>2. table' = [table EXCEPT ![s] = [table[s] EXCEPT !.call = None]]
        BY <2>3 DEF ClearSlot
      <3> QED
        BY <1>1, <2>1, <2>3, <3>1, <3>2 DEF ClearSlot, TypeOK, Session
    <2> QED
      BY <2>2, <2>3
  <1>4. now \in Nat /\ \A r \in Slots : born[r] \in Nat
    BY ActiveAssumption DEF TypeOK
  <1>5. SessionsSound'
    <2>1. \A r \in Slots : /\ table'[r].inUse => /\ table'[r].call \in CallIds
                                                 /\ born'[r] <= table'[r].created
                           /\ born'[r] <= now
      BY <1>1, <1>2, <1>3, <1>4
    <2>2. AtWork("safety")' => seen' <= now'
      BY <1>1 DEF SessionsSound, AtWork, Threads
    <2>3. \A o \in Threads : pc'[o] = "clear" => ~table'[at'[o]].inUse
      BY <1>1, <1>3 DEF Threads
    <2>4. pc'["main"] \notin {"stamp", "fill"} /\ pc'["safety"] # "free"
      BY <1>1 DEF Threads
    <2> QED
      BY <1>1, <2>1, <2>2, <2>3, <2>4 DEF SessionsSound
  <1>6. ~tooYoung => ~tooYoung'
    <2>1. CASE t = "safety" /\ FreeSlot(t) /\ pc[t] = "free"
      <3>1. Old(s) /\ seen <= now
        BY <1>1, <2>1 DEF SessionsSound, AtWork
      <3>2. table[s].created \in Nat /\ seen \in Nat /\ MaxAge \in Nat
        BY <1>1, <1>2, ActiveAssumption DEF TypeOK, Session
      <3>3. now - born[s] > MaxAge
        BY <1>1, <1>2, <1>4, <3>1, <3>2 DEF Old
      <3> QED
        BY <2>1, <3>3 DEF FreeSlot
    <2>2. CASE t = "main" \/ ClearSlot(t)
      BY <2>2 DEF FreeSlot, ClearSlot
    <2> QED
      BY <2>1, <2>2 DEF FreeSlot, Threads
  <1> QED
    BY <1>5, <1>6

\* An export leaves the table as it is.
LEMMA SessionsExported ==
    ASSUME TypeOK, TypeOK', SessionsSound, NEW t \in Threads, Export(t),
           \A o \in Threads \ {t} : pc[o] = "idle"
    PROVE  SessionsSound' /\ tooYoung' = tooYoung
  <1>1. /\ pc[t] \in {"export"} \cup Writing
        /\ table' = table /\ born' = born /\ now' = now /\ seen' = seen /\ call' = call
        /\ tooYoung' = tooYoung
    BY DEF Export, OpenTemp, OpenFails, List, Close, Rename, RemoveTemp, tableVars, Writing
  <1>2. pc' = [pc EXCEPT ![t] = pc'[t]] /\ pc'[t] \in Writing \cup {"idle", "scan"}
    <2>1. CASE OpenTemp(t) \/ List(t) \/ Close(t)
      BY <2>1 DEF OpenTemp, List, Close, Go, TypeOK, Writing
    <2>2. CASE OpenFails(t) \/ Rename(t) \/ RemoveTemp(t)
      BY <2>2, ReturnType DEF OpenFails, Rename, RemoveTemp, Go, TypeOK, Writing
    <2> QED
      BY <2>1, <2>2 DEF Export
  <1>3. \A o \in Threads \ {t} : pc[o] = "idle" /\ pc'[o] = "idle"
    BY <1>2 DEF TypeOK
  <1>4. \A o \in Threads : /\ pc[o] \notin {"stamp", "fill", "free", "clear"}
                           /\ pc'[o] \notin {"stamp", "fill", "free", "clear"}
                           /\ AtWork(o)' => AtWork(o)
    BY <1>1, <1>2, <1>3 DEF Writing, AtWork
  <1> QED
    BY <1>1, <1>4 DEF SessionsSound, Filling, Threads

\* Handlers leave the sessions sound.
LEMMA MainSessions ==
    ASSUME TypeOK, SessionsSound, pc["safety"] = "idle", pc'["safety"] = "idle", TypeOK', Main
    PROVE  SessionsSound' /\ (~tooYoung => ~tooYoung')
  <1> USE DEF SessionsSound, TypeOK, Threads, Go, Filling, AtWork
  <1>1. ASSUME NEW c \in CallIds, MarkInUse(c)
        PROVE  SessionsSound' /\ (~tooYoung => ~tooYoung')
    <2>1. PICK s \in Slots :
            /\ table' = [table EXCEPT ![s] = [table[s] EXCEPT !.inUse = TRUE]]
            /\ born' = [born EXCEPT ![s] = now]
            /\ at' = [at EXCEPT !["main"] = s]
      BY <1>1 DEF MarkInUse
    <2>2. /\ pc["main"] = "idle" /\ pc'["main"] = "stamp" /\ at'["main"] = s
          /\ call' = c /\ now' = now /\ tooYoung' = tooYoung
      BY <1>1, <2>1 DEF MarkInUse, MayStart
    <2>3. \A r \in Slots \ {s} : table'[r] = table[r] /\ born'[r] = born[r]
      BY <2>1
    <2>4. born'[s] = now /\ now <= now
      BY <2>1
    <2> QED
      BY <2>2, <2>3, <2>4
  <1>2. CASE Stamp
    <2> DEFINE s == at["main"]
    <2>1. /\ pc["main"] = "stamp" /\ pc'["main"] = "fill" /\ at' = at /\ s \in Slots
          /\ call' = call /\ now' = now /\ born' = born /\ tooYoung' = tooYoung
      BY <1>2 DEF Stamp
    <2>2. /\ table'[s].created = now
          /\ \A r \in Slots \ {s} : table'[r] = table[r]
      BY <1>2, <2>1 DEF Stamp
    <2> QED
      BY <2>1, <2>2
  <1>3. CASE Fill
    <2> DEFINE s == at["main"]
    <2>1. /\ pc["main"] = "fill" /\ pc'["main"] = "export" /\ at' = at /\ s \in Slots
          /\ now' = now /\ born' = born /\ tooYoung' = tooYoung
      BY <1>3 DEF Fill
    <2>2. /\ table'[s].created = table[s].created
          /\ table'[s].inUse = table[s].inUse
          /\ table'[s].call = call
          /\ \A r \in Slots \ {s} : table'[r] = table[r]
      <3>1. table' = [table EXCEPT ![s] = [table[s] EXCEPT !.call = call, !.state = "INVITE_SENT"]]
        BY <1>3 DEF Fill
      <3>2. table[s] \in Session
        BY <2>1
      <3> QED
        BY <2>1, <3>1, <3>2 DEF Session
    <2> QED
      BY <2>1, <2>2
  <1>4. ASSUME NEW c \in CallIds, HandleFound(c)
        PROVE  SessionsSound' /\ (~tooYoung => ~tooYoung')
    BY <1>4 DEF HandleFound, MayStart, tableVars
  <1>5. CASE Progress
    <2> DEFINE s == at["main"]
    <2>1. /\ pc["main"] = "progress" /\ pc'["main"] = "export" /\ at' = at /\ s \in Slots
          /\ now' = now /\ born' = born /\ tooYoung' = tooYoung
      BY <1>5 DEF Progress
    <2>2. \A r \in Slots : /\ table'[r].created = table[r].created
                           /\ table'[r].inUse = table[r].inUse
                           /\ table'[r].call = table[r].call
      BY <1>5, <2>1 DEF Progress, Session
    <2> QED
      BY <2>1, <2>2
  <1>6. CASE FreeSlot("main") \/ ClearSlot("main")
    BY <1>6, SlotFreed
  <1>7. CASE Export("main")
    BY <1>7, SessionsExported
  <1> QED
    BY <1>1, <1>2, <1>3, <1>4, <1>5, <1>6, <1>7 DEF Main

\* The cleanup leaves the sessions sound, and ends only those that are old.
LEMMA SafetySessions ==
    ASSUME TypeOK, SessionsSound, pc["main"] = "idle", pc'["main"] = "idle", TypeOK', Safety
    PROVE  SessionsSound' /\ (~tooYoung => ~tooYoung')
  <1>1. CASE BeginScan \/ ScanSlot
    <2>1. /\ UNCHANGED <<table, born, now, call, tooYoung>>
          /\ AtWork("safety")' => seen' <= now
          /\ pc'["safety"] # "clear"
          /\ pc'["safety"] = "free" => Old(at["safety"])' /\ UNCHANGED at
      <3>1. CASE BeginScan
        BY <3>1 DEF BeginScan, tableVars, Go, TypeOK, Threads
      <3>2. CASE ScanSlot
        <4>1. UNCHANGED <<table, born, now, call, seen, tooYoung>> /\ seen <= now
          BY <3>2 DEF ScanSlot, tableVars, SessionsSound, AtWork
        <4>2. CASE NextSlot
          BY <4>1, <4>2, ReturnType DEF Return, Threads
        <4>3. CASE Old(at["safety"]) /\ Go("safety", "free") /\ UNCHANGED at
          BY <4>1, <4>3 DEF Old, Go, TypeOK, Threads
        <4> QED
          BY <3>2, <4>2, <4>3 DEF ScanSlot
      <3> QED
        BY <1>1, <3>1, <3>2
    <2> QED
      BY <2>1 DEF SessionsSound, Filling, Threads
  <1>2. CASE FreeSlot("safety") \/ ClearSlot("safety")
    BY <1>2, SlotFreed DEF Threads
  <1>3. CASE Export("safety")
    BY <1>3, SessionsExported DEF Threads
  <1> QED
    BY <1>1, <1>2, <1>3 DEF Safety

-----------------------------------------------------------------------------
(* The files, while the other thread is idle *)

\* A stream that is closed writes over an empty file.
LEMMA OverEmpty ==
    ASSUME NEW new \in Content
    PROVE  Over(new, <<>>) = new
  <1>1. SubSeq(<<>>, Len(new) + 1, Len(<<>>)) = <<>>
    BY DEF Content
  <1>2. new \o <<>> = new
    BY ConcatEmptySeq DEF Content
  <1> QED
    BY <1>1, <1>2 DEF Over

\* The closing block makes a listing whole.
LEMMA ClosedIsWhole ==
    ASSUME NEW listing \in Content, \A i \in DOMAIN listing : listing[i] # End
    PROVE  Whole(Append(listing, End))
  <1>1. End \in Block /\ listing \in Seq(Block)
    BY DEF Content, Block
  <1> DEFINE whole == Append(listing, End)
  <1>2. /\ whole \in Seq(Block) /\ Len(whole) = Len(listing) + 1 /\ Len(listing) \in Nat
        /\ \A i \in 1..Len(listing) : whole[i] = listing[i]
        /\ whole[Len(listing) + 1] = End
        /\ DOMAIN listing = 1..Len(listing) /\ DOMAIN whole = 1..Len(whole)
    BY <1>1
  <1> HIDE DEF whole
  <1>3. \A i \in DOMAIN whole : i \in DOMAIN listing \/ i = Len(whole)
    BY <1>2
  <1>4. whole # <<>>
    BY <1>2
  <1>5. \A i \in DOMAIN whole : whole[i] = End <=> i = Len(whole)
    BY <1>2, <1>3
  <1> QED
    BY <1>4, <1>5 DEF Whole, whole

\* A call in the listing does not close it.
LEMMA AppendKeepsOpen ==
    ASSUME NEW listing \in Content, NEW x \in Block \ {End},
           \A i \in DOMAIN listing : listing[i] # End
    PROVE  \A i \in DOMAIN Append(listing, x) : Append(listing, x)[i] # End
  BY DEF Content

\* The other steps leave the files alone.
LEMMA FilesKept ==
    ASSUME TypeOK, TypeOK', FilesSound, UNCHANGED fileVars,
           \A t \in Threads : pc'[t] = pc[t] \/ pc'[t] \notin {"list", "close", "rename"}
    PROVE  FilesSound'
  BY DEF FilesSound, fileVars

\* An export opens, writes and renames a temporary file that readers do not see.
LEMMA FilesExported ==
    ASSUME TypeOK, TypeOK', FilesSound, NEW t \in Threads, Export(t),
           \A o \in Threads \ {t} : pc[o] = "idle" /\ pc'[o] = "idle"
    PROVE  FilesSound'
  <1> USE DEF FilesSound, TypeOK, Go
  <1>1. CASE OpenTemp(t)
    <2>1. PICK f \in Files :
            /\ IF temp = NoFile THEN f \notin {json, fd[Other(t)]} ELSE f = temp
            /\ temp' = f /\ fd' = [fd EXCEPT ![t] = f]
            /\ content' = [content EXCEPT ![f] = <<>>]
      BY <1>1 DEF OpenTemp
    <2>2. /\ f # json /\ json' = json /\ pc'[t] = "list" /\ buf'[t] = <<>>
          /\ fd'[t] = f /\ content'[f] = <<>> /\ content'[json] = content[json]
      BY <1>1, <2>1 DEF OpenTemp
    <2> QED
      BY <2>1, <2>2
  <1>2. CASE OpenFails(t)
    BY <1>2, ReturnType, FilesKept DEF OpenFails
  <1>3. CASE List(t)
    <2>1. /\ pc[t] = "list" /\ UNCHANGED <<temp, json, content, fd>>
          /\ fd[t] = temp /\ temp \in Files /\ content[temp] = <<>>
          /\ \A i \in DOMAIN buf[t] : buf[t][i] # End
      BY <1>3 DEF List
    <2>2. CASE /\ row[t] <= MaxSessions /\ UNCHANGED pc
               /\ buf' = [buf EXCEPT ![t] = IF Listed(row[t])
                                            THEN Append(@, table[row[t]].call) ELSE @]
      <3>1. row[t] \in Slots
        <4>1. row[t] \in 1..(MaxSessions + 1)
          OBVIOUS
        <4> QED
          BY <2>2, <4>1, ActiveAssumption DEF Slots
      <3>2. table[row[t]].call \in Block \ {End}
        <4>1. table[row[t]].call \in CallIds \cup {None}
          BY <3>1 DEF Session
        <4> QED
          BY <4>1, ActiveAssumption DEF Block, End, None
      <3>3. \A i \in DOMAIN buf'[t] : buf'[t][i] # End
        BY <2>1, <2>2, <3>2, AppendKeepsOpen
      <3> QED
        BY <2>1, <2>2, <3>3
    <2>3. CASE row[t] > MaxSessions /\ buf' = [buf EXCEPT ![t] = Append(@, End)] /\ Go(t, "close")
      <3>1. Whole(buf'[t])
        BY <2>1, <2>3, ClosedIsWhole
      <3> QED
        BY <2>1, <2>3, <3>1
    <2> QED
      BY <1>3, <2>2, <2>3 DEF List
  <1>4. CASE Close(t)
    <2>1. /\ pc[t] = "close" /\ UNCHANGED <<temp, json>> /\ pc'[t] = "rename"
          /\ fd[t] = temp /\ temp \in Files /\ content[temp] = <<>> /\ Whole(buf[t])
      BY <1>4 DEF Close
    <2>2. content' = [content EXCEPT ![temp] = Over(buf[t], <<>>)]
      BY <1>4, <2>1 DEF Close
    <2>3. content'[temp] = buf[t] /\ content'[json] = content[json]
      BY <2>1, <2>2, OverEmpty
    <2> QED
      BY <2>1, <2>3
  <1>5. CASE Rename(t)
    <2>1. CASE /\ temp # NoFile /\ json' = temp /\ temp' = NoFile
               /\ content' = [content EXCEPT ![json] = <<>>] /\ Return(t)
      <3>1. temp \in Files /\ Whole(content[temp]) /\ content'[temp] = content[temp]
        BY <1>5, <2>1 DEF Rename
      <3>2. pc'[t] \in {"idle", "scan"}
        BY <2>1, ReturnType
      <3> QED
        BY <2>1, <3>1, <3>2, ActiveAssumption
    <2>2. CASE Go(t, "remove") /\ UNCHANGED <<json, temp, content, at>>
      BY <1>5, <2>2 DEF Rename
    <2> QED
      BY <1>5, <2>1, <2>2 DEF Rename
  <1>6. CASE RemoveTemp(t)
    <2>1. content'[json] = content[json] /\ json' = json /\ temp' = NoFile
      BY <1>6 DEF RemoveTemp
    <2>2. pc'[t] \in {"idle", "scan"}
      BY <1>6, ReturnType DEF RemoveTemp
    <2> QED
      BY <2>1, <2>2, ActiveAssumption
  <1> QED
    BY <1>1, <1>2, <1>3, <1>4, <1>5, <1>6 DEF Export

\* The files stay sound in every step of the main thread,
LEMMA MainFiles ==
    ASSUME TypeOK, TypeOK', FilesSound, Main, pc["safety"] = "idle", pc'["safety"] = "idle"
    PROVE  FilesSound'
  <1>1. CASE Export("main")
    BY <1>1, FilesExported DEF Threads
  <1>2. CASE (\E c \in CallIds : MarkInUse(c) \/ HandleFound(c)) \/ Stamp \/ Fill \/ Progress
    <2>1. UNCHANGED fileVars /\ pc'["main"] \notin {"list", "close", "rename"}
      BY <1>2 DEF MarkInUse, HandleFound, Stamp, Fill, Progress, Go, TypeOK, Threads
    <2> QED
      BY <2>1, FilesKept DEF Threads
  <1>3. CASE FreeSlot("main") \/ ClearSlot("main")
    <2>1. UNCHANGED fileVars /\ pc'["main"] \notin {"list", "close", "rename"}
      BY <1>3 DEF FreeSlot, ClearSlot, Go, TypeOK, Threads
    <2> QED
      BY <2>1, FilesKept DEF Threads
  <1> QED
    BY <1>1, <1>2, <1>3 DEF Main

\* and in every step of the safety thread.
LEMMA SafetyFiles ==
    ASSUME TypeOK, TypeOK', FilesSound, Safety, pc["main"] = "idle", pc'["main"] = "idle"
    PROVE  FilesSound'
  <1>1. CASE Export("safety")
    BY <1>1, FilesExported DEF Threads
  <1>2. CASE BeginScan \/ ScanSlot
    <2>1. UNCHANGED fileVars /\ pc'["safety"] \notin {"list", "close", "rename"}
      <3>1. CASE BeginScan
        BY <3>1 DEF BeginScan, Go, TypeOK, Threads
      <3>2. CASE ScanSlot
        BY <3>2, ReturnType DEF ScanSlot, Return, Go, TypeOK, Threads
      <3> QED
        BY <1>2, <3>1, <3>2
    <2> QED
      BY <2>1, FilesKept DEF Threads
  <1>3. CASE FreeSlot("safety") \/ ClearSlot("safety")
    <2>1. UNCHANGED fileVars /\ pc'["safety"] \notin {"list", "close", "rename"}
      BY <1>3 DEF FreeSlot, ClearSlot, Go, TypeOK, Threads
    <2> QED
      BY <2>1, FilesKept DEF Threads
  <1> QED
    BY <1>1, <1>2, <1>3 DEF Safety

-----------------------------------------------------------------------------
(* The invariant *)

\* It holds when the process starts.
LEMMA ActiveInit ==
    ASSUME HistoryInit
    PROVE  ActiveInv
  <1>1. TypeOK
    <2>1. 0 \in 0..MaxTime /\ MaxAge + 1 \in 0..MaxTime /\ 1 \in Slots /\ 1 \in 1..(MaxSessions + 1)
      BY ActiveAssumption DEF Slots
    <2>2. FreeSession \in Session
      BY <2>1 DEF FreeSession, Session
    <2>3. <<End>> \in Content /\ <<>> \in Content
      BY DEF Content, Block
    <2>4. "idle" \in Label
      BY DEF Label
    <2> QED
      BY <2>1, <2>2, <2>3, <2>4 DEF HistoryInit, Init, TypeOK
  <1>2. TempInUse
    BY DEF HistoryInit, Init, TempInUse
  <1>3. OneAtWork /\ ~tooYoung
    BY DEF HistoryInit, Init, OneAtWork, AtWork, Threads
  <1>4. SessionsSound
    <2>1. \A s \in Slots : ~table[s].inUse /\ born[s] = 0
      BY DEF HistoryInit, Init, FreeSession
    <2>2. 0 <= now
      BY <1>1 DEF TypeOK
    <2>3. \A t \in Threads : pc[t] = "idle"
      BY DEF HistoryInit, Init
    <2> QED
      BY <2>1, <2>2, <2>3 DEF SessionsSound, AtWork, Threads
  <1>5. FilesSound
    <2>1. Whole(<<End>>)
      BY DEF Whole
    <2>2. \A t \in Threads : pc[t] = "idle"
      BY DEF HistoryInit, Init
    <2> QED
      BY <2>1, <2>2, ActiveAssumption DEF HistoryInit, Init, FilesSound
  <1> QED
    BY <1>1, <1>2, <1>3, <1>4, <1>5 DEF ActiveInv, ApartInv

\* Every step preserves it; while the threads are apart the one that does not step is idle.
LEMMA ActiveStep ==
    ASSUME ActiveInv, HistoryNext
    PROVE  ActiveInv'
  <1>1. TypeOK' /\ TempInUse'
    BY TypesKept, TempKept DEF ActiveInv, HistoryNext
  <1>2. CASE met'
    BY <1>1, <1>2 DEF ActiveInv, ApartInv
  <1>3. CASE ~met'
    <2>1. ~met /\ OneAtWork'
      BY <1>3 DEF HistoryNext, OneAtWork
    <2>2. TypeOK /\ OneAtWork /\ SessionsSound /\ FilesSound /\ ~tooYoung
      BY <2>1 DEF ActiveInv, ApartInv
    <2>3. CASE Main
      <3>1. pc["safety"] = "idle" /\ pc'["safety"] = "idle"
        BY <2>1, <2>2, <2>3, MainMoves, OtherIsIdle DEF Threads
      <3> QED
        BY <1>1, <2>1, <2>2, <2>3, <3>1, MainSessions, MainFiles DEF ActiveInv, ApartInv
    <2>4. CASE Safety
      <3>1. pc["main"] = "idle" /\ pc'["main"] = "idle"
        BY <2>1, <2>2, <2>4, SafetyMoves, OtherIsIdle DEF Threads
      <3> QED
        BY <1>1, <2>1, <2>2, <2>4, <3>1, SafetySessions, SafetyFiles DEF ActiveInv, ApartInv
    <2>5. CASE Tick
      <3>1. SessionsSound'
        <4>1. now' = now + 1 /\ UNCHANGED <<table, born, pc, at, call, seen>>
          BY <2>5 DEF Tick, tableVars
        <4>2. \A s \in Slots : born[s] <= now => born[s] <= now + 1
          BY <2>2, ActiveAssumption DEF TypeOK
        <4>3. seen <= now => seen <= now + 1
          BY <2>2, ActiveAssumption DEF TypeOK
        <4> QED
          BY <2>2, <4>1, <4>2, <4>3 DEF SessionsSound, Filling, AtWork, Old
      <3>2. FilesSound' /\ ~tooYoung'
        BY <1>1, <2>2, <2>5, FilesKept DEF Tick
      <3> QED
        BY <1>1, <2>1, <3>1, <3>2 DEF ActiveInv, ApartInv
    <2> QED
      BY <2>3, <2>4, <2>5 DEF HistoryNext, Next
  <1> QED
    BY <1>2, <1>3

\* The invariant holds of every behaviour of the two threads.
THEOREM ActiveInvariant == HistorySpec => []ActiveInv
  <1>1. HistoryInit => ActiveInv
    BY ActiveInit
  <1>2. ActiveInv /\ [HistoryNext]_<<vars, met>> => ActiveInv'
    <2>1. ASSUME ActiveInv, UNCHANGED <<vars, met>>
          PROVE  ActiveInv'
      BY <2>1 DEF vars, tableVars, fileVars, ActiveInv, TypeOK, TempInUse, ApartInv, OneAtWork,
                  AtWork, SessionsSound, FilesSound, Filling, Old
    <2> QED
      BY <2>1, ActiveStep
  <1> QED
    BY <1>1, <1>2, PTL DEF HistorySpec

\* Every variable of table, clock, threads and files has its type, however the two threads
\* interleave.
THEOREM ActiveTypeOK == HistorySpec => []TypeOK
  <1>1. ActiveInv => TypeOK
    BY DEF ActiveInv
  <1> QED
    BY <1>1, ActiveInvariant, PTL

\* export_active_calls_json leaves no temporary file: when both threads are through, there is
\* none, whichever of them renamed or removed the file of the other.
THEOREM NoTempIsLeft == HistorySpec => []NoTempLeft
  <1>1. ActiveInv => NoTempLeft
    BY DEF ActiveInv, TempInUse, NoTempLeft, Writing
  <1> QED
    BY <1>1, ActiveInvariant, PTL

\* As long as cleanup and handlers have not overlapped, readers of the file of active calls
\* find whole listings, passive_cleanup_stale_call_sessions ends only sessions older than its
\* limit, and between two messages the slot of a session in use holds its Call-ID.
THEOREM ApartIsAtomic == HistorySpec => []ApartAtomic
  <1>1. ActiveInv => ApartAtomic
    BY DEF ActiveInv, ApartInv, SessionsSound, FilesSound, Filling, ApartAtomic, ReadersSeeWhole,
           OnlyOldCleaned, NoNamelessSession, Threads
  <1> QED
    BY <1>1, ActiveInvariant, PTL
================================================================================
