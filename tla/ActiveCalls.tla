----------------------------- MODULE ActiveCalls -----------------------------
(***************************************************************************)
(* The session table and its export under two threads.  No lock protects   *)
(* call_sessions[] or the file of active calls: the main thread creates,   *)
(* ends and exports sessions while the passive safety thread scans the     *)
(* table, ends the sessions it finds old, and exports too.  SipProxy takes *)
(* each of these for one step; here they are split at the accesses the     *)
(* other thread can come between.                                          *)
(*                                                                         *)
(* The file system is what fopen, rename and remove act on: two names for  *)
(* files, and the blocks each file holds.  A listing is one block per call *)
(* and a closing block; it fits the buffer of stdio, so it reaches the     *)
(* file in one write, when the stream is closed.                           *)
(***************************************************************************)
EXTENDS Integers, Sequences, FiniteSets

CONSTANTS
    CallIds,      \* values of the Call-ID header
    MaxSessions,  \* MAX_CALL_SESSIONS
    MaxAge,       \* age above which the cleanup ends a session
    MaxTime,      \* bound of the clock
    Files,        \* files that can exist at a time
    NoFile        \* a name nothing is linked to

\* The closing block of a listing, and a slot without Call-ID.
End == "end"
None == "none"

ASSUME ActiveAssumption ==
    /\ MaxSessions \in Nat \ {0}
    /\ MaxAge \in Nat /\ MaxTime \in Nat /\ MaxAge < MaxTime
    /\ Cardinality(Files) >= 4
    /\ NoFile \notin Files
    /\ CallIds \cap {End, None} = {}

Slots == 1..MaxSessions
Threads == {"main", "safety"}
Other(t) == IF t = "main" THEN "safety" ELSE "main"

VARIABLES
    table,    \* call_sessions[]: inUse, call, state, created
    now,      \* time(NULL)
    born,     \* history: when the session of each slot was created
    pc,       \* what each thread does next
    at,       \* slot each thread works on
    call,     \* call of the INVITE the main thread handles
    seen,     \* the time the running scan compares with
    temp,     \* the file named /tmp/active_calls.json.tmp, if any
    json,     \* the file named /tmp/active_calls.json
    content,  \* blocks of each file
    fd,       \* file each thread has open
    buf,      \* blocks each thread has in its stream
    row,      \* slot the export loop of each thread is at
    tooYoung  \* history: the cleanup ended a session that was not old

tableVars == <<table, born>>
fileVars == <<temp, json, content, fd, buf, row>>
vars == <<tableVars, now, pc, at, call, seen, fileVars, tooYoung>>

FreeSession == [inUse |-> FALSE, call |-> None, state |-> "FREE", created |-> 0]

Go(t, label) == pc' = [pc EXCEPT ![t] = label]

\* A thread starts on its next message or scan.
MayStart(t) == pc[t] = "idle"

-----------------------------------------------------------------------------
(* create_call_session and the INVITE handler *)

FirstUnused(s) ==
    /\ ~table[s].inUse
    /\ \A r \in 1..(s - 1) : table[r].inUse

\* in_use is set first: until the next step the slot has the creation time of
\* the session that held it before, or zero.
MarkInUse(c) ==
    /\ MayStart("main")
    /\ \E s \in Slots :
          /\ FirstUnused(s)
          /\ table' = [table EXCEPT ![s].inUse = TRUE]
          /\ born' = [born EXCEPT ![s] = now]
          /\ at' = [at EXCEPT !["main"] = s]
    /\ call' = c
    /\ Go("main", "stamp")
    /\ UNCHANGED <<now, seen, fileVars, tooYoung>>

Stamp ==
    /\ pc["main"] = "stamp"
    /\ table' = [table EXCEPT ![at["main"]] =
                   [inUse |-> @.inUse, call |-> None, state |-> "FREE", created |-> now]]
    /\ Go("main", "fill")
    /\ UNCHANGED <<born, now, at, call, seen, fileVars, tooYoung>>

Fill ==
    /\ pc["main"] = "fill"
    /\ table' = [table EXCEPT ![at["main"]].call = call,
                              ![at["main"]].state = "INVITE_SENT"]
    /\ call' = None
    /\ Go("main", "export")
    /\ UNCHANGED <<born, now, at, seen, fileVars, tooYoung>>

\* The other messages: the session is found by its Call-ID, and progresses or ends.
HandleFound(c) ==
    /\ MayStart("main")
    /\ \E s \in Slots :
          /\ table[s].inUse /\ table[s].call = c
          /\ \A r \in 1..(s - 1) : ~(table[r].inUse /\ table[r].call = c)
          /\ at' = [at EXCEPT !["main"] = s]
    /\ Go("main", "progress") \/ Go("main", "free")
    /\ UNCHANGED <<tableVars, now, call, seen, fileVars, tooYoung>>

Progress ==
    /\ pc["main"] = "progress"
    /\ table' = [table EXCEPT ![at["main"]].state = "ESTABLISHED"]
    /\ Go("main", "export")
    /\ UNCHANGED <<born, now, at, call, seen, fileVars, tooYoung>>

-----------------------------------------------------------------------------
(* passive_cleanup_stale_call_sessions *)

BeginScan ==
    /\ MayStart("safety")
    /\ seen' = now
    /\ at' = [at EXCEPT !["safety"] = 1]
    /\ Go("safety", "scan")
    /\ UNCHANGED <<tableVars, now, call, fileVars, tooYoung>>

\* The thread goes to the next slot, or ends its scan.
NextSlot ==
    IF at["safety"] < MaxSessions
    THEN at' = [at EXCEPT !["safety"] = @ + 1] /\ Go("safety", "scan")
    ELSE at' = [at EXCEPT !["safety"] = 1] /\ Go("safety", "idle")

Old(s) == table[s].inUse /\ seen - table[s].created > MaxAge

ScanSlot ==
    /\ pc["safety"] = "scan"
    /\ \/ Old(at["safety"]) /\ Go("safety", "free") /\ UNCHANGED at
       \/ ~Old(at["safety"]) /\ NextSlot
    /\ UNCHANGED <<tableVars, now, call, seen, fileVars, tooYoung>>

-----------------------------------------------------------------------------
(* terminate_call_session, by either thread on the slot it has picked *)

FreeSlot(t) ==
    LET s == at[t] IN
    /\ pc[t] = "free"
    /\ \/ /\ table[s].inUse
          /\ table' = [table EXCEPT ![s].inUse = FALSE, ![s].state = "FREE"]
          /\ born' = [born EXCEPT ![s] = 0]
          /\ tooYoung' = (tooYoung \/ (t = "safety" /\ ~(now - born[s] > MaxAge)))
          /\ Go(t, "clear")
       \/ /\ ~table[s].inUse
          /\ Go(t, "export")
          /\ UNCHANGED <<tableVars, tooYoung>>
    /\ UNCHANGED <<now, at, call, seen, fileVars>>

\* The creation time stays.
ClearSlot(t) ==
    /\ pc[t] = "clear"
    /\ table' = [table EXCEPT ![at[t]].call = None]
    /\ Go(t, "export")
    /\ UNCHANGED <<born, now, at, call, seen, fileVars, tooYoung>>

-----------------------------------------------------------------------------
(* export_active_calls_json, by either thread *)

Listed(s) == table[s].inUse /\ table[s].state # "FREE"

\* The thread is back in its loop.
Return(t) ==
    IF t = "safety" THEN NextSlot ELSE Go(t, "idle") /\ at' = [at EXCEPT ![t] = 1]

\* Mutant: the listing is written in place.
OpenInPlace(t) ==
    /\ pc[t] = "export"
    /\ content' = [content EXCEPT ![json] = <<>>]
    /\ fd' = [fd EXCEPT ![t] = json]
    /\ buf' = [buf EXCEPT ![t] = <<>>]
    /\ Go(t, "list")
    /\ UNCHANGED <<tableVars, now, at, call, seen, temp, json, row, tooYoung>>

\* fopen(temp, "w"): the file of that name is emptied, or a new one is made.
OpenTemp(t) ==
    /\ pc[t] = "export"
    /\ \E f \in Files :
          /\ IF temp = NoFile THEN f \notin {json, fd[Other(t)]} ELSE f = temp
          /\ temp' = f
          /\ content' = [content EXCEPT ![f] = <<>>]
          /\ fd' = [fd EXCEPT ![t] = f]
    /\ buf' = [buf EXCEPT ![t] = <<>>]
    /\ Go(t, "list")
    /\ UNCHANGED <<tableVars, now, at, call, seen, json, row, tooYoung>>

OpenFails(t) ==
    /\ pc[t] = "export"
    /\ Return(t)
    /\ UNCHANGED <<tableVars, now, call, seen, fileVars, tooYoung>>

\* The loop over the table looks at one slot at a time, then closes the listing.
List(t) ==
    /\ pc[t] = "list"
    /\ \/ /\ row[t] <= MaxSessions
          /\ buf' = [buf EXCEPT ![t] = IF Listed(row[t])
                                       THEN Append(@, table[row[t]].call) ELSE @]
          /\ row' = [row EXCEPT ![t] = @ + 1]
          /\ UNCHANGED pc
       \/ /\ row[t] > MaxSessions
          /\ buf' = [buf EXCEPT ![t] = Append(@, End)]
          /\ row' = [row EXCEPT ![t] = 1]
          /\ Go(t, "close")
    /\ UNCHANGED <<tableVars, now, at, call, seen, temp, json, content, fd, tooYoung>>

\* What the stream writes starts at the beginning of the file; blocks beyond its
\* end stay, if another thread has written some since the file was emptied.  A
\* file that has lost its name is gone, and what is written to it with it.
Over(new, old) == new \o SubSeq(old, Len(new) + 1, Len(old))

Close(t) ==
    /\ pc[t] = "close"
    /\ content' = IF fd[t] \in {temp, json}
                  THEN [content EXCEPT ![fd[t]] = Over(buf[t], @)] ELSE content
    /\ fd' = [fd EXCEPT ![t] = NoFile]
    /\ buf' = [buf EXCEPT ![t] = <<>>]
    /\ Go(t, "rename")
    /\ UNCHANGED <<tableVars, now, at, call, seen, temp, json, row, tooYoung>>

\* rename may fail; it does when the other thread has renamed the file away.
Rename(t) ==
    /\ pc[t] = "rename"
    /\ \/ /\ temp # NoFile
          /\ json' = temp
          /\ temp' = NoFile
          /\ content' = [content EXCEPT ![json] = <<>>]
          /\ Return(t)
       \/ /\ Go(t, "remove")
          /\ UNCHANGED <<json, temp, content, at>>
    /\ UNCHANGED <<tableVars, now, call, seen, fd, buf, row, tooYoung>>

\* Mutant: the error path leaves the file.
RemoveNothing(t) ==
    /\ pc[t] = "remove"
    /\ Return(t)
    /\ UNCHANGED <<tableVars, now, call, seen, fileVars, tooYoung>>

RemoveTemp(t) ==
    /\ pc[t] = "remove"
    /\ temp' = NoFile
    /\ content' = [f \in Files |-> IF f = temp THEN <<>> ELSE content[f]]
    /\ Return(t)
    /\ UNCHANGED <<tableVars, now, call, seen, json, fd, buf, row, tooYoung>>

-----------------------------------------------------------------------------

Tick ==
    /\ now < MaxTime
    /\ now' = now + 1
    /\ UNCHANGED <<tableVars, pc, at, call, seen, fileVars, tooYoung>>

\* init_call_sessions has exported the empty table; the process has run for
\* longer than MaxAge since the epoch.
Init ==
    /\ table = [s \in Slots |-> FreeSession]
    /\ now = MaxAge + 1
    /\ born = [s \in Slots |-> 0]
    /\ pc = [t \in Threads |-> "idle"]
    /\ at = [t \in Threads |-> 1]
    /\ call = None
    /\ seen = 0
    /\ temp = NoFile
    /\ json \in Files
    /\ content = [f \in Files |-> IF f = json THEN <<End>> ELSE <<>>]
    /\ fd = [t \in Threads |-> NoFile]
    /\ buf = [t \in Threads |-> <<>>]
    /\ row = [t \in Threads |-> 1]
    /\ tooYoung = FALSE

Export(t) ==
    \/ OpenTemp(t) \/ OpenFails(t) \/ List(t) \/ Close(t) \/ Rename(t) \/ RemoveTemp(t)

Main ==
    \/ \E c \in CallIds : MarkInUse(c) \/ HandleFound(c)
    \/ Stamp \/ Fill \/ Progress
    \/ FreeSlot("main") \/ ClearSlot("main") \/ Export("main")

Safety ==
    \/ BeginScan \/ ScanSlot
    \/ FreeSlot("safety") \/ ClearSlot("safety") \/ Export("safety")

Next == Main \/ Safety \/ Tick

Spec == Init /\ [][Next]_vars

-----------------------------------------------------------------------------
(* Properties *)

Label == {"idle", "stamp", "fill", "progress", "scan", "free", "clear", "export",
          "list", "close", "rename", "remove"}

Block == CallIds \cup {None, End}
Content == Seq(Block)
Session == [inUse : BOOLEAN, call : CallIds \cup {None},
            state : {"FREE", "INVITE_SENT", "ESTABLISHED"}, created : 0..MaxTime]

\* Every variable has its type.
TypeOK ==
    /\ table \in [Slots -> Session]
    /\ now \in 0..MaxTime
    /\ born \in [Slots -> 0..MaxTime]
    /\ pc \in [Threads -> Label]
    /\ at \in [Threads -> Slots]
    /\ call \in CallIds \cup {None}
    /\ seen \in 0..MaxTime
    /\ temp \in Files \cup {NoFile}
    /\ json \in Files
    /\ content \in [Files -> Content]
    /\ fd \in [Threads -> Files \cup {NoFile}]
    /\ buf \in [Threads -> Content]
    /\ row \in [Threads -> 1..(MaxSessions + 1)]
    /\ tooYoung \in BOOLEAN

\* Whatever the two threads do to each other, a thread that is through with its
\* export leaves no temporary file behind it, unless the other one is at work.
NoTempLeft ==
    (\A t \in Threads : pc[t] = "idle") => temp = NoFile

\* What a listing in the file looks like when it is whole: it ends once.
Whole(blocks) ==
    /\ blocks # <<>>
    /\ \A i \in DOMAIN blocks : blocks[i] = End <=> i = Len(blocks)

\* A reader that opens the file of active calls never finds it empty or mixed.
ReadersSeeWhole == Whole(content[json])

\* The cleanup ends a session only when it is older than the limit.
OnlyOldCleaned == ~tooYoung

\* When no thread is at work the sessions in use are those a message can find: the
\* slot of a session in use holds its Call-ID.
NoNamelessSession ==
    (\A t \in Threads : pc[t] = "idle") =>
        \A s \in Slots : table[s].inUse => table[s].call \in CallIds

-----------------------------------------------------------------------------
(* The two threads with a history of whether they have been at work at the  *)
(* same time.  SipProxy takes a message and the cleanup of a slot for one   *)
(* step each, which is what holds as long as they have not.                 *)

VARIABLE met

AtWork(t) == pc[t] # "idle"

HistoryInit == Init /\ met = FALSE
HistoryNext == Next /\ met' = (met \/ \A t \in Threads : AtWork(t)')
HistorySpec == HistoryInit /\ [][HistoryNext]_<<vars, met>>

\* While cleanup and handlers do not overlap each of them is as good as one step: readers
\* find whole listings, only sessions older than the limit are ended, and between two
\* messages the slot of a session in use holds its Call-ID.
ApartAtomic == met \/ (ReadersSeeWhole /\ OnlyOldCleaned /\ NoNamelessSession)

-----------------------------------------------------------------------------
(* What the comments say, and the two threads do not keep *)

\* call_sessions.c:84: the atomic write "prevent[s] CGI readers from seeing
\* partial JSON".
NeverPartial == ReadersSeeWhole

\* passive_safety.c:30: "Clean up sessions older than 24 hours".
CleansOldOnly == OnlyOldCleaned
=============================================================================
