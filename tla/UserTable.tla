------------------------------ MODULE UserTable ------------------------------
(***************************************************************************)
(* The table of users of the SIP server: user_manager.c, its caller in the *)
(* REGISTER branch of sip_core.c, and the phonebook load that the fetcher  *)
(* thread runs on it.                                                      *)
(*                                                                         *)
(* Two threads work on the table.  The main thread handles one REGISTER at *)
(* a time; the fetcher thread clears the table and then adds the rows of   *)
(* the CSV one by one.  Every function of user_manager.c holds             *)
(* registered_users_mutex from its first to its last access, so it is one  *)
(* action; the lock is free between two rows, so REGISTERs land between    *)
(* them.                                                                   *)
(*                                                                         *)
(* Ids are abstract.  Stored[i] is what strncpy leaves of id i in          *)
(* user_id[MAX_PHONE_NUMBER_LEN]: i itself when it fits, its truncation    *)
(* otherwise.  NoId is the empty string, which also marks a free slot.     *)
(* Display names are left out: no decision depends on them.                *)
(***************************************************************************)
EXTENDS Integers, Sequences, FiniteSets

CONSTANTS
    Ids,         \* user ids, the empty one included
    NoId,        \* the empty id
    Stored,      \* what a user_id field keeps of an id
    RegIds,      \* ids that REGISTER requests carry
    Phonebooks,  \* CSV files a load may read, as sequences of row ids
    MaxUsers     \* MAX_REGISTERED_USERS

RowIds == UNION {{book[i] : i \in DOMAIN book} : book \in Phonebooks}

\* A row id passes sanitize_utf8 into a buffer of MAX_PHONE_NUMBER_LEN, so
\* unlike the id of a REGISTER it never exceeds what a slot keeps.
ASSUME UserAssumption ==
    /\ NoId \in Ids
    /\ Stored \in [Ids -> Ids]
    /\ \A i \in Ids : Stored[Stored[i]] = Stored[i]
    /\ \A i \in Ids : Stored[i] = NoId <=> i = NoId
    /\ RegIds \subseteq Ids
    /\ Phonebooks \subseteq Seq(Ids)
    /\ \A i \in RowIds : Stored[i] = i
    /\ MaxUsers \in Nat \ {0}

Slots == 1..MaxUsers

\* The Expires header of a REGISTER: missing, "0" (or not a number), positive.
ExpiresHeader == {"absent", "zero", "positive"}

\* atoi of the header; a missing header is the empty string, and atoi("") is 0.
Lasting(expires) == expires = "positive"

Request == [id : RegIds, expires : ExpiresHeader]
NoRequest == [id |-> NoId, expires |-> "none"]

VARIABLES
    users,       \* registered_users[]
    numReg,      \* num_registered_users
    numDir,      \* num_directory_entries
    rows,        \* rows the running load has still to read
    loading,     \* whether populate_registered_users_from_csv is running
    handled,     \* history: ids of the rows read since the last clear
    dropped,     \* history: those of them that found the table full
    lastReg      \* history: the REGISTER answered by the last step, if any

vars == <<users, numReg, numDir, rows, loading, handled, dropped, lastReg>>

User == [id : Ids, active : BOOLEAN, known : BOOLEAN]
FreeSlot == [id |-> NoId, active |-> FALSE, known |-> FALSE]

-----------------------------------------------------------------------------
(* Lookups *)

Occupied == {s \in Slots : users[s].id # NoId}
Dynamic == {s \in Occupied : ~users[s].known}

\* Mutant: the test admits one entry too many.
RoomForOneMore == numReg + numDir <= MaxUsers

HasRoom == numReg + numDir < MaxUsers

\* Mutant: the search skips inactive entries.
HoldsActive(s, id) ==
    /\ id # NoId
    /\ users[s].id = id /\ users[s].active
    /\ \A t \in 1..(s - 1) : ~(users[t].id = id /\ users[t].active)

\* The slot the search loops stop at: the first one that holds exactly id.
\* An occupied slot never holds NoId, so an empty id matches nothing.
Holds(s, id) ==
    /\ id # NoId
    /\ users[s].id = id
    /\ \A t \in 1..(s - 1) : users[t].id # id

Listed(id) == \E s \in Slots : Holds(s, id)

FirstFree(s) ==
    /\ users[s].id = NoId
    /\ \A t \in 1..(s - 1) : users[t].id # NoId

\* Neither add function finds a place: the counters say the table is full, or
\* the search for a free slot runs off its end.
NoPlace == ~HasRoom \/ ~\E s \in Slots : FirstFree(s)

-----------------------------------------------------------------------------
(* add_or_update_registered_user, called for each REGISTER *)

Refresh(s) ==
    /\ users' = [users EXCEPT ![s].active = TRUE]
    /\ numReg' = IF users[s].active \/ users[s].known THEN numReg ELSE numReg + 1

\* Mutant: a directory entry leaves the table as well.
DeactivateAny(s) ==
    /\ users' = [users EXCEPT ![s] = FreeSlot]
    /\ numReg' = IF users[s].known THEN numReg ELSE numReg - 1

\* A dynamic entry leaves the table, a directory entry only turns inactive.
Deactivate(s) ==
    IF users[s].active /\ ~users[s].known
    THEN /\ users' = [users EXCEPT ![s] = FreeSlot]
         /\ numReg' = numReg - 1
    ELSE /\ users' = [users EXCEPT ![s].active = FALSE]
         /\ UNCHANGED numReg

AddDynamic(s, id) ==
    /\ users' = [users EXCEPT ![s] = [id |-> Stored[id], active |-> TRUE, known |-> FALSE]]
    /\ numReg' = numReg + 1

\* The server answers "200 OK, Expires: 3600" whichever disjunct applies.
Register(id, expires) ==
    /\ \/ \E s \in Slots : Holds(s, id) /\ Lasting(expires) /\ Refresh(s)
       \/ \E s \in Slots : Holds(s, id) /\ ~Lasting(expires) /\ Deactivate(s)
       \/ \E s \in Slots : ~Listed(id) /\ Lasting(expires) /\ HasRoom /\ FirstFree(s)
                           /\ AddDynamic(s, id)
       \/ /\ ~Listed(id)
          /\ ~Lasting(expires) \/ NoPlace
          /\ UNCHANGED <<users, numReg>>
    /\ lastReg' = [id |-> id, expires |-> expires]
    /\ UNCHANGED <<numDir, rows, loading, handled, dropped>>

-----------------------------------------------------------------------------
(* populate_registered_users_from_csv, run by the fetcher thread *)

\* fopen succeeds and init_registered_users_table clears everything.
BeginLoad(book) ==
    /\ ~loading
    /\ users' = [s \in Slots |-> FreeSlot]
    /\ numReg' = 0
    /\ numDir' = 0
    /\ rows' = book
    /\ loading' = TRUE
    /\ handled' = {}
    /\ dropped' = {}
    /\ lastReg' = NoRequest

\* Mutant: the entry only turns active.
MarkActive(s) ==
    /\ users' = [users EXCEPT ![s].active = TRUE]
    /\ UNCHANGED <<numDir, dropped>>

\* add_csv_user_to_registered_users_table finds the id: the entry becomes a
\* directory entry, whatever it was, and neither counter moves.
MarkKnown(s) ==
    /\ users' = [users EXCEPT ![s].known = TRUE, ![s].active = TRUE]
    /\ UNCHANGED <<numDir, dropped>>

AddDirectory(s, id) ==
    /\ users' = [users EXCEPT ![s] = [id |-> Stored[id], active |-> TRUE, known |-> TRUE]]
    /\ numDir' = numDir + 1
    /\ UNCHANGED dropped

AddRow ==
    /\ loading
    /\ rows # <<>>
    /\ LET id == Head(rows) IN
       /\ \/ \E s \in Slots : Holds(s, id) /\ MarkKnown(s)
          \/ \E s \in Slots : ~Listed(id) /\ HasRoom /\ FirstFree(s) /\ AddDirectory(s, id)
          \/ /\ ~Listed(id) /\ NoPlace
             /\ dropped' = dropped \cup {id}
             /\ UNCHANGED <<users, numDir>>
       /\ handled' = handled \cup {id}
    /\ rows' = Tail(rows)
    /\ lastReg' = NoRequest
    /\ UNCHANGED <<numReg, loading>>

EndLoad ==
    /\ loading
    /\ rows = <<>>
    /\ loading' = FALSE
    /\ lastReg' = NoRequest
    /\ UNCHANGED <<users, numReg, numDir, rows, handled, dropped>>

-----------------------------------------------------------------------------

\* The globals are zero when the process starts and no load has run.
Init ==
    /\ users = [s \in Slots |-> FreeSlot]
    /\ numReg = 0
    /\ numDir = 0
    /\ rows = <<>>
    /\ loading = FALSE
    /\ handled = {}
    /\ dropped = {}
    /\ lastReg = NoRequest

MainThread == \E id \in RegIds, expires \in ExpiresHeader : Register(id, expires)

FetcherThread ==
    \/ \E book \in Phonebooks : BeginLoad(book)
    \/ AddRow
    \/ EndLoad

Next == MainThread \/ FetcherThread

Spec == Init /\ [][Next]_vars

-----------------------------------------------------------------------------
(* Properties *)

\* Every variable has its type, and the dropped rows are among those handled.
TypeOK ==
    /\ users \in [Slots -> User]
    /\ numReg \in Nat
    /\ numDir \in Nat
    /\ rows \in Seq(Ids)
    /\ loading \in BOOLEAN
    /\ handled \subseteq Ids
    /\ dropped \subseteq handled
    /\ lastReg \in Request \cup {NoRequest}

\* The capacity test compares two counters with MAX_REGISTERED_USERS instead of
\* counting slots: the counters never fall below the slots in use, so a passed
\* test means there is a free slot, and they never pass the maximum.
CapacityTestSound ==
    /\ Cardinality(Occupied) <= numReg + numDir
    /\ numReg + numDir <= MaxUsers

\* num_registered_users is decremented once per dynamic entry that leaves: it
\* always counts at least the dynamic entries present, so it never goes negative.
DynamicCovered == Cardinality(Dynamic) <= numReg

\* A dynamic entry is active: deactivation frees the slot, so no slot is lost to
\* an inactive registration (and the reactivation branch of
\* add_or_update_registered_user never counts an entry twice).
DynamicIsActive == \A s \in Dynamic : users[s].active

\* Between the clear of one load and the clear of the next, no REGISTER removes
\* a phonebook row from the table: each row read is a directory entry still, or
\* had an empty id, or found no place.
DirectoryKept ==
    \A id \in handled \ (dropped \cup {NoId}) :
        \E s \in Slots : users[s].id = id /\ users[s].known

\* The two counters count the slots in use exactly.  An empty id breaks this: it
\* is counted and leaves its slot free.
CountersExact == Cardinality(Occupied) = numReg + numDir

\* No id is in the table twice.  It takes ids that fit in user_id: a longer one
\* is stored truncated and the lookup compares the whole.
UniqueIds ==
    \A s, t \in Occupied : users[s].id = users[t].id => s = t

\* Until the next step of a load or another REGISTER, the answer to a REGISTER is true of
\* the table: after a lasting one the user is active or the table is full, after one that
\* does not last, or says nothing of it, it is not active.  The 200 OK does not tell which:
\* see RegisteredIsActive.
AnswerHonoured ==
    /\ lastReg.expires = "positive" =>
        \/ numReg + numDir = MaxUsers
        \/ \E s \in Slots : users[s].id = lastReg.id /\ users[s].active
    /\ lastReg.expires \in {"zero", "absent"} =>
        \A s \in Slots : users[s].id = lastReg.id => ~users[s].active

\* A directory entry leaves the table only when the next load clears it: until
\* then its slot keeps its id and the directory mark, REGISTERs included.
DirectoryStable ==
    [][ \A s \in Slots :
          users[s].known /\ users[s].id # NoId /\ ~(loading' /\ ~loading) =>
              users'[s].known /\ users'[s].id = users[s].id ]_vars

-----------------------------------------------------------------------------
(* What the sources say, and the code does not do *)

\* common.h:150: num_registered_users counts the active dynamic registrations
\* that are not in the CSV.
CountsOnlyDynamic == numReg = Cardinality({s \in Dynamic : users[s].active})

\* Registration flow of the functional specification: the server answers 200 OK
\* with expires=3600 and the user is marked active.  Checked for the requests
\* that do not ask for expiry 0.
RegisteredIsActive ==
    lastReg.expires \in {"absent", "positive"} =>
        \E s \in Slots : users[s].id = Stored[lastReg.id] /\ users[s].active

\* Functional specification: expires=0 deactivates the registration.
ZeroDeactivates ==
    lastReg.expires = "zero" =>
        ~\E s \in Slots : users[s].id = Stored[lastReg.id] /\ users[s].active
=============================================================================
