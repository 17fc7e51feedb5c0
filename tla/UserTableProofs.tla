--------------------------- MODULE UserTableProofs ---------------------------
(***************************************************************************)
(* Proofs about UserTable, UserTableHistory and BulkTest, for every set of *)
(* ids, every phonebook, every configuration and every size of the table   *)
(* of users and of the table of results.                                   *)
(*                                                                         *)
(* The table.  The capacity test of the add functions is sound because the *)
(* counters are bounds on the slots, not because they count them exactly:  *)
(* a row that finds a dynamic entry turns it into a directory entry and    *)
(* moves no counter, an empty id moves a counter and fills no slot.  What  *)
(* is inductive is the pair of inequalities of CapacityTestSound together  *)
(* with DynamicCovered (so that a decrement never goes below zero) and     *)
(* DynamicIsActive (so that a refresh never increments).                   *)
(*                                                                         *)
(* The bulk test, which reads the table.  What carries its proofs is that  *)
(* the entry under test cannot change hands unseen: a slot in use is given *)
(* to another id only after it was freed, and only a load or the sign-off  *)
(* of that user frees it.  So the ids that were dialled are the id that is *)
(* in the slot now (SameUser), which the result then takes over.  For the  *)
(* table of results it is that a phone has no valid result other than the  *)
(* one that is being written.                                              *)
(***************************************************************************)
EXTENDS BulkTest, UserTableHistory, FiniteSetTheorems, WellFoundedInduction, TLAPS

(* The table *)

\* The rows still to be read are stored as they are.
RowsFit == \A i \in DOMAIN rows : Stored[rows[i]] = rows[i]

UserInv ==
    /\ TypeOK
    /\ RowsFit
    /\ CapacityTestSound
    /\ DynamicCovered
    /\ DynamicIsActive
    /\ DirectoryKept

-----------------------------------------------------------------------------
(* Finite sets *)

LEMMA SlotsFinite ==
    ASSUME TypeOK
    PROVE  /\ IsFiniteSet(Slots)
           /\ IsFiniteSet(Occupied)
           /\ IsFiniteSet(Dynamic)
           /\ Cardinality(Occupied) \in Nat
           /\ Cardinality(Dynamic) \in Nat
  <1>1. IsFiniteSet(Slots)
    BY FS_Interval, UserAssumption DEF Slots
  <1>2. Occupied \subseteq Slots /\ Dynamic \subseteq Slots
    BY DEF Occupied, Dynamic
  <1> QED
    BY <1>1, <1>2, FS_Subset, FS_CardinalityType

\* A set that gains at most one element gains at most one in cardinality.
LEMMA GrowsByOne ==
    ASSUME NEW S, IsFiniteSet(S), NEW x, NEW T, T \subseteq S \cup {x}
    PROVE  IsFiniteSet(T) /\ Cardinality(T) <= Cardinality(S) + 1
  <1>a. Cardinality(S) \in Nat
    BY FS_CardinalityType
  <1>b. /\ IsFiniteSet(S \cup {x})
        /\ Cardinality(S \cup {x}) = IF x \in S THEN Cardinality(S) ELSE Cardinality(S) + 1
    BY FS_AddElement
  <1>1. IsFiniteSet(S \cup {x}) /\ Cardinality(S \cup {x}) <= Cardinality(S) + 1
    BY <1>a, <1>b
  <1>2. IsFiniteSet(T) /\ Cardinality(T) <= Cardinality(S \cup {x})
    BY <1>1, FS_Subset
  <1>3. Cardinality(T) \in Nat /\ Cardinality(S) \in Nat /\ Cardinality(S \cup {x}) \in Nat
    BY <1>1, <1>2, FS_CardinalityType
  <1> QED
    BY <1>1, <1>2, <1>3

LEMMA ShrinksByOne ==
    ASSUME NEW S, IsFiniteSet(S), NEW x \in S, NEW T, T \subseteq S \ {x}
    PROVE  IsFiniteSet(T) /\ Cardinality(T) <= Cardinality(S) - 1
  <1>1. IsFiniteSet(S \ {x}) /\ Cardinality(S \ {x}) = Cardinality(S) - 1
    BY FS_RemoveElement
  <1>2. IsFiniteSet(T) /\ Cardinality(T) <= Cardinality(S \ {x})
    BY <1>1, FS_Subset
  <1> QED
    BY <1>1, <1>2

\* A set of natural numbers that is not empty has a least element.
LEMMA LeastExists ==
    ASSUME NEW S, S \subseteq Nat, S # {}
    PROVE  \E x \in S : \A y \in S : x =< y
  <1>1. \E x \in S : \A y \in S : ~(<<y, x>> \in OpToRel(<, Nat))
    BY WFMin, NatLessThanWellFounded, Zenon
  <1>2. PICK x \in S : \A y \in S : ~(<<y, x>> \in OpToRel(<, Nat))
    BY <1>1
  <1>3. \A y \in S : <<y, x>> \in OpToRel(<, Nat) <=> y < x
    BY Zenon DEF OpToRel
  <1>4. ASSUME NEW y \in S
        PROVE  x =< y
    <2>1. ~(y < x)
      BY <1>2, <1>3, Zenon
    <2>2. x \in Nat /\ y \in Nat
      OBVIOUS
    <2> QED
      BY <2>1, <2>2
  <1> QED
    BY <1>4

-----------------------------------------------------------------------------
(* The counters, whatever the step does to the slots *)

\* When the capacity test of the add functions passes there is a free slot: the
\* search that follows it never runs off the end of the table.
THEOREM RoomMeansFreeSlot ==
    ASSUME TypeOK, CapacityTestSound, HasRoom
    PROVE  \E s \in Slots : users[s].id = NoId
  <1>1. Cardinality(Slots) = MaxUsers /\ IsFiniteSet(Slots)
    BY FS_Interval, UserAssumption DEF Slots
  <1>2. Cardinality(Occupied) < MaxUsers
    BY SlotsFinite, UserAssumption DEF CapacityTestSound, HasRoom, TypeOK
  <1>3. Occupied # Slots
    BY <1>1, <1>2, SlotsFinite, UserAssumption
  <1> QED
    BY <1>3 DEF Occupied

\* The counter bounds after a step that puts one entry into slot s and counts it.
LEMMA CountedAdd ==
    ASSUME TypeOK, CapacityTestSound, DynamicCovered, HasRoom,
           NEW s \in Slots,
           Occupied' \subseteq Occupied \cup {s},
           \/ numReg' = numReg + 1 /\ numDir' = numDir /\ Dynamic' \subseteq Dynamic \cup {s}
           \/ numReg' = numReg /\ numDir' = numDir + 1 /\ Dynamic' \subseteq Dynamic
    PROVE  CapacityTestSound' /\ DynamicCovered'
  <1>1. Cardinality(Occupied') \in Nat /\ Cardinality(Occupied') <= Cardinality(Occupied) + 1
    BY SlotsFinite, GrowsByOne, FS_CardinalityType
  <1>2. Cardinality(Occupied) \in Nat /\ Cardinality(Dynamic) \in Nat
    BY SlotsFinite
  <1>3. CapacityTestSound'
    BY <1>1, <1>2, UserAssumption DEF CapacityTestSound, HasRoom, TypeOK
  <1>4. CASE numReg' = numReg + 1 /\ Dynamic' \subseteq Dynamic \cup {s}
    <2>1. Cardinality(Dynamic') \in Nat /\ Cardinality(Dynamic') <= Cardinality(Dynamic) + 1
      BY <1>4, SlotsFinite, GrowsByOne, FS_CardinalityType
    <2> QED
      BY <2>1, <1>2, <1>3, <1>4 DEF DynamicCovered, TypeOK
  <1>5. CASE numReg' = numReg /\ Dynamic' \subseteq Dynamic
    <2>1. Cardinality(Dynamic') \in Nat /\ Cardinality(Dynamic') <= Cardinality(Dynamic)
      BY <1>5, SlotsFinite, FS_Subset, FS_CardinalityType
    <2> QED
      BY <2>1, <1>2, <1>3, <1>5 DEF DynamicCovered, TypeOK
  <1> QED
    BY <1>4, <1>5

\* The counter bounds after a step that moves no counter and adds no entry.
LEMMA UncountedStep ==
    ASSUME TypeOK, CapacityTestSound, DynamicCovered,
           Occupied' \subseteq Occupied, Dynamic' \subseteq Dynamic,
           numReg' = numReg, numDir' = numDir
    PROVE  CapacityTestSound' /\ DynamicCovered'
  <1>1. Cardinality(Occupied') \in Nat /\ Cardinality(Occupied') <= Cardinality(Occupied)
    BY SlotsFinite, FS_Subset, FS_CardinalityType
  <1>2. Cardinality(Dynamic') \in Nat /\ Cardinality(Dynamic') <= Cardinality(Dynamic)
    BY SlotsFinite, FS_Subset, FS_CardinalityType
  <1> QED
    BY <1>1, <1>2, SlotsFinite, UserAssumption DEF CapacityTestSound, DynamicCovered, TypeOK

\* The counter bounds after a dynamic entry has left slot s and been uncounted.
LEMMA CountedRemove ==
    ASSUME TypeOK, CapacityTestSound, DynamicCovered,
           NEW s \in Dynamic,
           Occupied' \subseteq Occupied \ {s}, Dynamic' \subseteq Dynamic \ {s},
           numReg' = numReg - 1, numDir' = numDir
    PROVE  CapacityTestSound' /\ DynamicCovered' /\ numReg' \in Nat
  <1>1. s \in Occupied
    BY DEF Dynamic
  <1>2. Cardinality(Occupied') \in Nat /\ Cardinality(Occupied') <= Cardinality(Occupied) - 1
    BY <1>1, SlotsFinite, ShrinksByOne, FS_CardinalityType
  <1>3. Cardinality(Dynamic') \in Nat /\ Cardinality(Dynamic') <= Cardinality(Dynamic) - 1
    BY SlotsFinite, ShrinksByOne, FS_CardinalityType
  <1> QED
    BY <1>2, <1>3, SlotsFinite, UserAssumption DEF CapacityTestSound, DynamicCovered, TypeOK

-----------------------------------------------------------------------------
(* One lemma per action *)

LEMMA RegisterInv ==
    ASSUME UserInv, NEW id \in RegIds, NEW expires \in ExpiresHeader, Register(id, expires)
    PROVE  UserInv'
  <1> USE DEF UserInv
  <1>0. id \in Ids /\ Stored[id] \in Ids
    BY UserAssumption
  <1>1. UNCHANGED <<numDir, rows, loading, handled, dropped>> /\ RowsFit'
    BY DEF Register, RowsFit
  <1>2. lastReg' \in Request \cup {NoRequest}
    BY DEF Register, Request
  <1>3. ASSUME NEW s \in Slots, Holds(s, id), Refresh(s)
        PROVE  UserInv'
    <2>1. users[s].id # NoId
      BY <1>3 DEF Holds
    <2>2. users' \in [Slots -> User] /\ users'[s] = [users[s] EXCEPT !.active = TRUE]
      BY <1>3 DEF Refresh, TypeOK, User
    <2>3. numReg' = numReg
      BY <1>3, <2>1 DEF Refresh, DynamicIsActive, Dynamic, Occupied
    <2>4. TypeOK'
      BY <2>2, <2>3, <1>1, <1>2 DEF TypeOK
    <2>5. Occupied' = Occupied /\ Dynamic' = Dynamic
      BY <1>3 DEF Refresh, TypeOK, User, Occupied, Dynamic
    <2>6. CapacityTestSound' /\ DynamicCovered'
      BY <2>3, <2>5, <1>1, UncountedStep
    <2>7. DynamicIsActive'
      BY <2>5, <1>3 DEF Refresh, TypeOK, User, DynamicIsActive, Dynamic, Occupied
    <2>8. DirectoryKept'
      BY <1>1, <1>3 DEF Refresh, TypeOK, User, DirectoryKept
    <2> QED
      BY <2>4, <2>6, <2>7, <2>8, <1>1
  <1>4. ASSUME NEW s \in Slots, Holds(s, id), Deactivate(s)
        PROVE  UserInv'
    <2>1. users[s].id # NoId
      BY <1>4 DEF Holds
    <2>2. CASE users[s].active /\ ~users[s].known
      <3>1. users' = [users EXCEPT ![s] = FreeSlot] /\ numReg' = numReg - 1
        BY <1>4, <2>2 DEF Deactivate
      <3>2. s \in Dynamic
        BY <2>1, <2>2 DEF Dynamic, Occupied
      <3>3. Occupied' \subseteq Occupied \ {s} /\ Dynamic' \subseteq Dynamic \ {s}
        BY <3>1 DEF TypeOK, FreeSlot, Occupied, Dynamic
      <3>4. CapacityTestSound' /\ DynamicCovered' /\ numReg' \in Nat
        BY <3>1, <3>2, <3>3, <1>1, CountedRemove
      <3>5. users' \in [Slots -> User]
        BY <3>1, UserAssumption DEF TypeOK, FreeSlot, User
      <3>6. TypeOK'
        BY <3>4, <3>5, <1>1, <1>2 DEF TypeOK
      <3>7. DynamicIsActive'
        BY <3>1 DEF TypeOK, FreeSlot, DynamicIsActive, Dynamic, Occupied
      <3>8. DirectoryKept'
        BY <3>1, <2>2, <1>1 DEF TypeOK, DirectoryKept
      <3> QED
        BY <3>4, <3>6, <3>7, <3>8, <1>1
    <2>3. CASE ~(users[s].active /\ ~users[s].known)
      <3>1. users' = [users EXCEPT ![s].active = FALSE] /\ numReg' = numReg
        BY <1>4, <2>3 DEF Deactivate
      <3>2. users[s].known
        BY <2>1, <2>3 DEF DynamicIsActive, Dynamic, Occupied
      <3>3. Occupied' = Occupied /\ Dynamic' = Dynamic
        BY <3>1 DEF TypeOK, User, Occupied, Dynamic
      <3>4. CapacityTestSound' /\ DynamicCovered'
        BY <3>1, <3>3, <1>1, UncountedStep
      <3>5. TypeOK'
        BY <3>1, <1>1, <1>2 DEF TypeOK, User
      <3>6. DynamicIsActive'
        BY <3>1, <3>2 DEF TypeOK, User, DynamicIsActive, Dynamic, Occupied
      <3>7. DirectoryKept'
        BY <3>1, <1>1 DEF TypeOK, User, DirectoryKept
      <3> QED
        BY <3>4, <3>5, <3>6, <3>7, <1>1
    <2> QED
      BY <2>2, <2>3
  <1>5. ASSUME NEW s \in Slots, HasRoom, FirstFree(s), AddDynamic(s, id)
        PROVE  UserInv'
    <2>1. users[s].id = NoId
      BY <1>5 DEF FirstFree
    <2>2. users' = [users EXCEPT ![s] = [id |-> Stored[id], active |-> TRUE, known |-> FALSE]]
      BY <1>5 DEF AddDynamic
    <2>3. numReg' = numReg + 1
      BY <1>5 DEF AddDynamic
    <2>4. users' \in [Slots -> User]
      BY <2>2, <1>0 DEF TypeOK, User
    <2>5. TypeOK'
      BY <2>3, <2>4, <1>1, <1>2 DEF TypeOK
    <2>6. Occupied' \subseteq Occupied \cup {s} /\ Dynamic' \subseteq Dynamic \cup {s}
      BY <2>2 DEF TypeOK, Occupied, Dynamic
    <2>7. CapacityTestSound' /\ DynamicCovered'
      BY <2>3, <2>6, <1>1, <1>5, CountedAdd
    <2>8. DynamicIsActive'
      BY <2>2 DEF TypeOK, DynamicIsActive, Dynamic, Occupied
    <2>9. DirectoryKept'
      BY <2>1, <2>2, <1>1 DEF TypeOK, DirectoryKept
    <2> QED
      BY <2>5, <2>7, <2>8, <2>9, <1>1
  <1>6. ASSUME UNCHANGED <<users, numReg>>
        PROVE  UserInv'
    <2>1. TypeOK'
      BY <1>1, <1>2, <1>6 DEF TypeOK
    <2> QED
      BY <2>1, <1>1, <1>6 DEF CapacityTestSound, DynamicCovered, DynamicIsActive,
                              DirectoryKept, Dynamic, Occupied
  <1> QED
    BY <1>3, <1>4, <1>5, <1>6 DEF Register

LEMMA BeginLoadInv ==
    ASSUME UserInv, NEW book \in Phonebooks, BeginLoad(book)
    PROVE  UserInv'
  <1> USE DEF UserInv
  <1>1. users' = [s \in Slots |-> FreeSlot]
    BY DEF BeginLoad
  <1>2. book \in Seq(Ids) /\ \A i \in DOMAIN book : Stored[book[i]] = book[i]
    BY UserAssumption DEF RowIds
  <1>3. TypeOK' /\ RowsFit'
    BY <1>1, <1>2, UserAssumption DEF BeginLoad, TypeOK, FreeSlot, User, RowsFit
  <1>4. Occupied' = {} /\ Dynamic' = {}
    BY <1>1 DEF Occupied, Dynamic, FreeSlot
  <1>5. CapacityTestSound' /\ DynamicCovered'
    BY <1>4, FS_EmptySet, UserAssumption DEF BeginLoad, CapacityTestSound, DynamicCovered
  <1>6. DynamicIsActive' /\ DirectoryKept'
    BY <1>4 DEF BeginLoad, DynamicIsActive, DirectoryKept
  <1> QED
    BY <1>3, <1>5, <1>6

LEMMA AddRowInv ==
    ASSUME UserInv, AddRow
    PROVE  UserInv'
  <1> USE DEF UserInv
  <1> DEFINE id == Head(rows)
  <1>1. rows \in Seq(Ids) /\ rows # <<>>
    BY DEF AddRow, TypeOK
  <1>2. id \in Ids /\ Stored[id] = id
    BY <1>1 DEF RowsFit
  <1>3. rows' = Tail(rows) /\ numReg' = numReg /\ loading' = loading
           /\ lastReg' = NoRequest /\ handled' = handled \cup {id}
    BY DEF AddRow
  <1>4. rows' \in Seq(Ids)
    BY <1>1, <1>3
  <1>5. RowsFit'
    <2> SUFFICES ASSUME NEW i \in DOMAIN Tail(rows)
                 PROVE  Stored[Tail(rows)[i]] = Tail(rows)[i]
      BY <1>3 DEF RowsFit
    <2>1. i + 1 \in DOMAIN rows /\ Tail(rows)[i] = rows[i + 1]
      BY <1>1
    <2> QED
      BY <2>1 DEF RowsFit
  <1>6. ASSUME NEW s \in Slots, Holds(s, id), MarkKnown(s)
        PROVE  UserInv'
    <2>1. users' = [users EXCEPT ![s].known = TRUE, ![s].active = TRUE]
      BY <1>6 DEF MarkKnown
    <2>2. numDir' = numDir /\ dropped' = dropped
      BY <1>6 DEF MarkKnown
    <2>3. users' \in [Slots -> User]
      BY <2>1 DEF TypeOK, User
    <2>4. TypeOK'
      BY <2>2, <2>3, <1>2, <1>3, <1>4 DEF TypeOK
    <2>5. Occupied' \subseteq Occupied /\ Dynamic' \subseteq Dynamic
      BY <2>1 DEF TypeOK, User, Occupied, Dynamic
    <2>6. CapacityTestSound' /\ DynamicCovered'
      BY <2>2, <2>5, <1>3, UncountedStep
    <2>7. DynamicIsActive'
      BY <2>1 DEF TypeOK, User, DynamicIsActive, Dynamic, Occupied
    <2>8. users'[s].id = id /\ users'[s].known
      BY <2>1, <1>6 DEF TypeOK, User, Holds
    <2>9. DirectoryKept'
      BY <2>1, <2>2, <2>8, <1>3 DEF TypeOK, User, DirectoryKept
    <2> QED
      BY <2>4, <2>6, <2>7, <2>9, <1>5
  <1>7. ASSUME NEW s \in Slots, HasRoom, FirstFree(s), AddDirectory(s, id)
        PROVE  UserInv'
    <2>1. users[s].id = NoId
      BY <1>7 DEF FirstFree
    <2>2. users' = [users EXCEPT ![s] = [id |-> id, active |-> TRUE, known |-> TRUE]]
      BY <1>7, <1>2 DEF AddDirectory
    <2>3. numDir' = numDir + 1 /\ dropped' = dropped
      BY <1>7 DEF AddDirectory
    <2>4. users' \in [Slots -> User]
      BY <2>2, <1>2 DEF TypeOK, User
    <2>5. TypeOK'
      BY <2>3, <2>4, <1>2, <1>3, <1>4 DEF TypeOK
    <2>6. Occupied' \subseteq Occupied \cup {s} /\ Dynamic' \subseteq Dynamic
      BY <2>2 DEF TypeOK, Occupied, Dynamic
    <2>7. CapacityTestSound' /\ DynamicCovered'
      BY <2>3, <2>6, <1>3, <1>7, CountedAdd
    <2>8. DynamicIsActive'
      BY <2>2 DEF TypeOK, DynamicIsActive, Dynamic, Occupied
    <2>9. DirectoryKept'
      BY <2>1, <2>2, <2>3, <1>3 DEF TypeOK, DirectoryKept
    <2> QED
      BY <2>5, <2>7, <2>8, <2>9, <1>5
  <1>8. ASSUME dropped' = dropped \cup {id}, UNCHANGED <<users, numDir>>
        PROVE  UserInv'
    <2>1. TypeOK'
      BY <1>2, <1>3, <1>4, <1>8 DEF TypeOK
    <2>2. DirectoryKept'
      BY <1>3, <1>8 DEF DirectoryKept
    <2> QED
      BY <2>1, <2>2, <1>3, <1>5, <1>8 DEF CapacityTestSound, DynamicCovered, DynamicIsActive,
                                           Dynamic, Occupied
  <1> QED
    BY <1>6, <1>7, <1>8 DEF AddRow

LEMMA EndLoadInv ==
    ASSUME UserInv, EndLoad \/ UNCHANGED vars
    PROVE  UserInv'
  <1>1. UNCHANGED <<users, numReg, numDir, rows, handled, dropped>>
    BY DEF EndLoad, vars
  <1>2. loading' \in BOOLEAN /\ lastReg' \in Request \cup {NoRequest}
    BY DEF EndLoad, vars, UserInv, TypeOK
  <1>3. TypeOK' /\ RowsFit'
    BY <1>1, <1>2 DEF UserInv, TypeOK, RowsFit
  <1>4. CapacityTestSound' /\ DynamicCovered' /\ DynamicIsActive' /\ DirectoryKept'
    BY <1>1 DEF UserInv, CapacityTestSound, DynamicCovered, DynamicIsActive, DirectoryKept,
                Dynamic, Occupied
  <1> QED
    BY <1>3, <1>4 DEF UserInv

-----------------------------------------------------------------------------
(* Theorems *)

LEMMA InitUserInv == Init => UserInv
  <1> SUFFICES ASSUME Init
               PROVE  UserInv
    OBVIOUS
  <1>1. Occupied = {} /\ Dynamic = {}
    BY DEF Init, Occupied, Dynamic, FreeSlot
  <1>2. users \in [Slots -> User]
    BY UserAssumption DEF Init, FreeSlot, User
  <1>3. rows \in Seq(Ids) /\ DOMAIN rows = {}
    BY DEF Init
  <1>4. TypeOK /\ RowsFit
    BY <1>2, <1>3 DEF Init, TypeOK, RowsFit
  <1> QED
    BY <1>1, <1>4, FS_EmptySet, UserAssumption
    DEF Init, UserInv, CapacityTestSound, DynamicCovered, DynamicIsActive, DirectoryKept

\* The inductive invariant: the conjunction above holds in every state that
\* REGISTERs and phonebook loads, interleaved in any order, can reach.
THEOREM UserInvariant == Spec => []UserInv
  <1>1. Init => UserInv
    BY InitUserInv
  <1>2. UserInv /\ [Next]_vars => UserInv'
    BY RegisterInv, BeginLoadInv, AddRowInv, EndLoadInv DEF Next, MainThread, FetcherThread
  <1> QED
    BY <1>1, <1>2, PTL DEF Spec

\* Type correctness of the user table.
THEOREM UserTypeOK == Spec => []TypeOK
  BY UserInvariant, PTL DEF UserInv

\* The counters never admit an entry that has no slot, and never pass the maximum.
THEOREM CapacitySafe == Spec => []CapacityTestSound
  BY UserInvariant, PTL DEF UserInv

\* num_registered_users covers the dynamic entries, and each of them is active.
THEOREM DynamicSafe == Spec => [](DynamicCovered /\ DynamicIsActive)
  BY UserInvariant, PTL DEF UserInv

\* No REGISTER removes a row of the phonebook that was loaded.
THEOREM DirectorySafe == Spec => []DirectoryKept
  BY UserInvariant, PTL DEF UserInv

\* A directory entry keeps its slot, its id and its mark until the next load.
THEOREM DirectoryStays == Spec => DirectoryStable
  <1>1. ASSUME UserInv, [Next]_vars, NEW s \in Slots,
               users[s].known, users[s].id # NoId, ~(loading' /\ ~loading)
        PROVE  users'[s].known /\ users'[s].id = users[s].id
    <2>1. users \in [Slots -> User]
      BY <1>1 DEF UserInv, TypeOK
    <2>2. CASE MainThread
      <3> PICK id \in RegIds, expires \in ExpiresHeader : Register(id, expires)
        BY <2>2 DEF MainThread
      <3> QED
        BY <1>1, <2>1 DEF Register, Refresh, Deactivate, AddDynamic, FirstFree, User
    <2>3. CASE AddRow
      <3>1. ASSUME NEW t \in Slots, MarkKnown(t)
            PROVE  users'[s].known /\ users'[s].id = users[s].id
        BY <1>1, <2>1, <3>1 DEF MarkKnown, User
      <3>2. ASSUME NEW t \in Slots, FirstFree(t), AddDirectory(t, Head(rows))
            PROVE  users'[s].known /\ users'[s].id = users[s].id
        BY <1>1, <2>1, <3>2 DEF FirstFree, AddDirectory, User
      <3> QED
        BY <1>1, <2>3, <3>1, <3>2 DEF AddRow
    <2>4. CASE EndLoad \/ UNCHANGED vars
      BY <1>1, <2>4 DEF EndLoad, vars
    <2>5. ASSUME NEW book \in Phonebooks, BeginLoad(book)
          PROVE  FALSE
      BY <1>1, <2>5 DEF BeginLoad
    <2> QED
      BY <1>1, <2>2, <2>3, <2>4, <2>5 DEF Next, FetcherThread
  <1>2. UserInv /\ [Next]_vars =>
          [ \A s \in Slots :
              users[s].known /\ users[s].id # NoId /\ ~(loading' /\ ~loading) =>
                  users'[s].known /\ users'[s].id = users[s].id ]_vars
    BY <1>1
  <1> QED
    BY <1>2, UserInvariant, PTL DEF Spec, DirectoryStable

-----------------------------------------------------------------------------
(* The registrar, as long as every id fits and is not empty *)

\* The loops that search the table for an id or for a free slot find the first one if
\* there is one.
LEMMA SearchFinds ==
    ASSUME NEW s \in Slots
    PROVE  /\ users[s].id # NoId => Listed(users[s].id)
           /\ users[s].id = NoId => \E t \in Slots : FirstFree(t)
  <1> DEFINE S == {t \in Slots : users[t].id = users[s].id}
  <1>1. S \subseteq Nat /\ S # {}
    BY DEF Slots
  <1>2. PICK t \in S : \A u \in S : t =< u
    BY <1>1, LeastExists
  <1>3. t \in Slots /\ users[t].id = users[s].id
    BY <1>2
  <1>4. \A u \in 1..(t - 1) : users[u].id # users[s].id
    <2> SUFFICES ASSUME NEW u \in 1..(t - 1), users[u].id = users[s].id
                 PROVE  FALSE
      OBVIOUS
    <2>1. u \in Slots /\ ~(t =< u)
      BY <1>3, UserAssumption DEF Slots
    <2> QED
      BY <1>2, <2>1
  <1> QED
    BY <1>3, <1>4 DEF Listed, Holds, FirstFree

\* When the add functions find no place the table is full.
LEMMA NoPlaceMeansFull ==
    ASSUME TypeOK, CapacityTestSound, NoPlace
    PROVE  numReg + numDir = MaxUsers
  <1>1. ~HasRoom
    <2> SUFFICES ASSUME HasRoom PROVE FALSE
      OBVIOUS
    <2>1. PICK s \in Slots : users[s].id = NoId
      BY RoomMeansFreeSlot
    <2> QED
      BY <2>1, SearchFinds DEF NoPlace
  <1> QED
    BY <1>1, UserAssumption DEF HasRoom, CapacityTestSound, TypeOK

Registrar == CountersExact /\ UniqueIds /\ AnswerHonoured

\* An entry with another id than those in the table is counted once and unique.
LEMMA AddedIsExact ==
    ASSUME TypeOK, CountersExact, UniqueIds,
           NEW s \in Slots, users[s].id = NoId, NEW id \in Ids, id # NoId, ~Listed(id),
           NEW u \in User, u.id = id, users' = [users EXCEPT ![s] = u],
           \/ numReg' = numReg + 1 /\ numDir' = numDir
           \/ numReg' = numReg /\ numDir' = numDir + 1
    PROVE  CountersExact' /\ UniqueIds'
  <1>1. users \in [Slots -> User] /\ numReg \in Nat /\ numDir \in Nat
    BY DEF TypeOK
  <1>2. Occupied' = Occupied \cup {s} /\ s \notin Occupied
    BY <1>1 DEF Occupied
  <1>3. Cardinality(Occupied') = Cardinality(Occupied) + 1
    BY <1>2, SlotsFinite, FS_AddElement
  <1>4. CountersExact'
    BY <1>1, <1>3 DEF CountersExact
  <1>5. \A t \in Slots : users[t].id # id
    BY SearchFinds
  <1>6. UniqueIds'
    BY <1>1, <1>2, <1>5 DEF UniqueIds, Occupied
  <1> QED
    BY <1>4, <1>6

\* The counters and ids when no slot in use changes its id and no counter moves.
LEMMA SameIdsExact ==
    ASSUME TypeOK, CountersExact, UniqueIds, UNCHANGED <<numReg, numDir>>,
           \A s \in Slots : users'[s].id = users[s].id
    PROVE  CountersExact' /\ UniqueIds'
  <1>1. Occupied' = Occupied
    BY DEF Occupied
  <1> QED
    BY <1>1 DEF CountersExact, UniqueIds, Occupied

LEMMA RegisterHonoured ==
    ASSUME UserInv, UserInv', Registrar,
           NEW id \in RegIds, NEW expires \in ExpiresHeader, Register(id, expires), ~Odd(id)
    PROVE  Registrar'
  <1>1. /\ TypeOK /\ users \in [Slots -> User] /\ numReg \in Nat /\ numDir \in Nat
        /\ CapacityTestSound /\ CountersExact /\ UniqueIds
    BY DEF UserInv, TypeOK, Registrar
  <1>2. id \in Ids /\ id # NoId /\ Stored[id] = id
    BY UserAssumption DEF Odd
  <1>3. lastReg' = [id |-> id, expires |-> expires] /\ numDir' = numDir
    BY DEF Register
  <1>4. expires \in {"positive", "zero", "absent"}
    BY DEF ExpiresHeader
  <1>5. ASSUME NEW s \in Slots, Holds(s, id), Lasting(expires), Refresh(s)
        PROVE  Registrar'
    <2>1. users' = [users EXCEPT ![s].active = TRUE]
      BY <1>5 DEF Refresh
    <2>2. numReg' = numReg
      BY <1>2, <1>5 DEF Refresh, Holds, UserInv, DynamicIsActive, Dynamic, Occupied
    <2>3. \A t \in Slots : users'[t].id = users[t].id
      BY <1>1, <2>1 DEF User
    <2>4. CountersExact' /\ UniqueIds'
      BY <1>1, <1>3, <2>2, <2>3, SameIdsExact
    <2>5. users'[s].id = id /\ users'[s].active
      BY <1>1, <1>5, <2>1 DEF User, Holds
    <2> QED
      BY <1>3, <1>5, <2>4, <2>5 DEF Registrar, AnswerHonoured, Lasting
  <1>6. ASSUME NEW s \in Slots, Holds(s, id), ~Lasting(expires), Deactivate(s)
        PROVE  Registrar'
    <2>1. s \in Occupied /\ \A t \in Slots : users[t].id = id => t = s
      BY <1>1, <1>2, <1>6 DEF Holds, UniqueIds, Occupied
    <2>2. CASE users[s].active /\ ~users[s].known
      <3>1. users' = [users EXCEPT ![s] = FreeSlot] /\ numReg' = numReg - 1
        BY <1>6, <2>2 DEF Deactivate
      <3>2. Occupied' = Occupied \ {s}
        BY <1>1, <3>1 DEF Occupied, FreeSlot
      <3>3. Cardinality(Occupied') = Cardinality(Occupied) - 1
        BY <1>1, <2>1, <3>2, SlotsFinite, FS_RemoveElement
      <3>4. CountersExact'
        BY <1>1, <1>3, <3>1, <3>3 DEF CountersExact
      <3>5. UniqueIds' /\ \A t \in Slots : users'[t].id # id
        BY <1>1, <1>2, <2>1, <3>1 DEF UniqueIds, Occupied, FreeSlot
      <3> QED
        BY <1>3, <1>6, <3>4, <3>5 DEF Registrar, AnswerHonoured, Lasting
    <2>3. CASE ~(users[s].active /\ ~users[s].known)
      <3>1. users' = [users EXCEPT ![s].active = FALSE] /\ numReg' = numReg
        BY <1>6, <2>3 DEF Deactivate
      <3>2. \A t \in Slots : users'[t].id = users[t].id
        BY <1>1, <3>1 DEF User
      <3>3. CountersExact' /\ UniqueIds'
        BY <1>1, <1>3, <3>1, <3>2, SameIdsExact
      <3>4. \A t \in Slots : users'[t].id = id => ~users'[t].active
        BY <1>1, <2>1, <3>1, <3>2 DEF User
      <3> QED
        BY <1>3, <1>6, <3>3, <3>4 DEF Registrar, AnswerHonoured, Lasting
    <2> QED
      BY <2>2, <2>3
  <1>7. ASSUME NEW s \in Slots, ~Listed(id), Lasting(expires), FirstFree(s), AddDynamic(s, id)
        PROVE  Registrar'
    <2> DEFINE u == [id |-> id, active |-> TRUE, known |-> FALSE]
    <2>1. users' = [users EXCEPT ![s] = u] /\ numReg' = numReg + 1
      BY <1>2, <1>7 DEF AddDynamic
    <2>2. u \in User /\ u.id = id /\ users[s].id = NoId
      BY <1>2, <1>7 DEF User, FirstFree
    <2>3. CountersExact' /\ UniqueIds'
      BY <1>1, <1>2, <1>3, <1>7, <2>1, <2>2, AddedIsExact
    <2>4. users'[s].id = id /\ users'[s].active
      BY <1>1, <2>1
    <2> QED
      BY <1>3, <1>7, <2>3, <2>4 DEF Registrar, AnswerHonoured, Lasting
  <1>8. ASSUME ~Listed(id), ~Lasting(expires) \/ NoPlace, UNCHANGED <<users, numReg>>
        PROVE  Registrar'
    <2>1. CountersExact' /\ UniqueIds'
      BY <1>1, <1>3, <1>8, SameIdsExact
    <2>2. \A t \in Slots : users[t].id # id
      BY <1>2, <1>8, SearchFinds
    <2>3. Lasting(expires) => numReg + numDir = MaxUsers
      BY <1>1, <1>8, NoPlaceMeansFull
    <2> QED
      BY <1>3, <1>4, <1>8, <2>1, <2>2, <2>3 DEF Registrar, AnswerHonoured, Lasting
  <1> QED
    BY <1>5, <1>6, <1>7, <1>8 DEF Register

LEMMA LoadExact ==
    ASSUME UserInv, Registrar, FetcherThread,
           \A id \in handled' : ~Odd(id)
    PROVE  Registrar'
  <1>1. /\ TypeOK /\ users \in [Slots -> User] /\ numReg \in Nat /\ numDir \in Nat
        /\ rows \in Seq(Ids) /\ CountersExact /\ UniqueIds
    BY DEF UserInv, TypeOK, Registrar
  <1>2. AnswerHonoured'
    <2>1. lastReg' = NoRequest
      BY DEF FetcherThread, BeginLoad, AddRow, EndLoad
    <2> QED
      BY <2>1 DEF AnswerHonoured, NoRequest
  <1>3. ASSUME NEW book \in Phonebooks, BeginLoad(book)
        PROVE  CountersExact' /\ UniqueIds'
    <2>1. Occupied' = {} /\ numReg' = 0 /\ numDir' = 0
      BY <1>3 DEF BeginLoad, Occupied, FreeSlot
    <2> QED
      BY <2>1, FS_EmptySet DEF CountersExact, UniqueIds
  <1>4. CASE AddRow
    <2> DEFINE id == Head(rows)
    <2>1. id \in Ids /\ id # NoId /\ Stored[id] = id
      BY <1>1, <1>4 DEF AddRow, Odd
    <2>2. numReg' = numReg
      BY <1>4 DEF AddRow
    <2>3. ASSUME NEW s \in Slots, Holds(s, id), MarkKnown(s)
          PROVE  CountersExact' /\ UniqueIds'
      <3>1. \A t \in Slots : users'[t].id = users[t].id
        BY <1>1, <2>3 DEF MarkKnown, User
      <3> QED
        BY <1>1, <2>2, <2>3, <3>1, SameIdsExact DEF MarkKnown
    <2>4. ASSUME NEW s \in Slots, ~Listed(id), FirstFree(s), AddDirectory(s, id)
          PROVE  CountersExact' /\ UniqueIds'
      <3> DEFINE u == [id |-> id, active |-> TRUE, known |-> TRUE]
      <3>1. users' = [users EXCEPT ![s] = u] /\ numDir' = numDir + 1
        BY <2>1, <2>4 DEF AddDirectory
      <3>2. u \in User /\ u.id = id /\ users[s].id = NoId
        BY <2>1, <2>4 DEF User, FirstFree
      <3> QED
        BY <1>1, <2>1, <2>2, <2>4, <3>1, <3>2, AddedIsExact
    <2>5. ASSUME UNCHANGED <<users, numDir>>
          PROVE  CountersExact' /\ UniqueIds'
      BY <1>1, <2>2, <2>5, SameIdsExact
    <2>6. CountersExact' /\ UniqueIds'
      BY <1>4, <2>3, <2>4, <2>5 DEF AddRow
    <2> QED
      BY <1>2, <2>6 DEF Registrar
  <1>5. CASE EndLoad
    <2>1. CountersExact' /\ UniqueIds'
      BY <1>1, <1>5, SameIdsExact DEF EndLoad
    <2> QED
      BY <1>2, <2>1 DEF Registrar
  <1> QED
    BY <1>2, <1>3, <1>4, <1>5 DEF FetcherThread, Registrar

\* As long as every id fits and is not empty, the counters are exact, no id is in the table
\* twice and right after a REGISTER its user is active or not as it asked, unless the table
\* is full or the header is missing, for any number of users and any phonebook.
THEOREM FittingRegistrarSafe == HistorySpec => []FittingRegistrar
  <1>1. HistoryInit => UserInv /\ FittingRegistrar
    <2> SUFFICES ASSUME HistoryInit PROVE UserInv /\ FittingRegistrar
      OBVIOUS
    <2>1. UserInv
      BY InitUserInv DEF HistoryInit
    <2>2. Occupied = {} /\ numReg = 0 /\ numDir = 0 /\ lastReg = NoRequest
      BY DEF HistoryInit, Init, Occupied, FreeSlot
    <2>3. CountersExact /\ UniqueIds /\ AnswerHonoured
      BY <2>2, FS_EmptySet DEF CountersExact, UniqueIds, AnswerHonoured, NoRequest
    <2> QED
      BY <2>1, <2>3 DEF FittingRegistrar
  <1>2. UserInv /\ FittingRegistrar /\ [HistoryNext]_<<vars, odd>> =>
            (UserInv /\ FittingRegistrar)'
    <2> SUFFICES ASSUME UserInv, FittingRegistrar, [HistoryNext]_<<vars, odd>>
                 PROVE  UserInv' /\ FittingRegistrar'
      OBVIOUS
    <2>1. UserInv'
      BY RegisterInv, BeginLoadInv, AddRowInv, EndLoadInv
         DEF HistoryNext, Next, MainThread, FetcherThread, vars
    <2>2. CASE UNCHANGED <<vars, odd>>
      BY <2>1, <2>2 DEF vars, FittingRegistrar, CountersExact, UniqueIds, AnswerHonoured, Occupied
    <2>3. CASE HistoryNext /\ ~odd'
      <3>1. Next /\ Registrar
        BY <2>3, Zenon DEF HistoryNext, FittingRegistrar, Registrar
      <3>2. /\ lastReg' # NoRequest => ~Odd(lastReg'.id)
            /\ \A id \in handled' : ~Odd(id)
        BY <2>3, Zenon DEF HistoryNext, UsesOdd, Odd
      <3>3. CASE MainThread
        <4>1. PICK id \in RegIds, expires \in ExpiresHeader : Register(id, expires)
          BY <3>3 DEF MainThread
        <4>2. lastReg' = [id |-> id, expires |-> expires]
          BY <4>1 DEF Register
        <4>3. lastReg'.id = id /\ lastReg' # NoRequest
          BY <4>2 DEF NoRequest, ExpiresHeader
        <4> QED
          BY <2>1, <3>1, <3>2, <4>1, <4>3, RegisterHonoured DEF Registrar, FittingRegistrar
      <3>4. CASE FetcherThread
        <4>1. Registrar'
          BY <3>1, <3>2, <3>4, LoadExact
        <4> QED
          BY <2>1, <4>1 DEF Registrar, FittingRegistrar
      <3> QED
        BY <3>1, <3>3, <3>4 DEF Next
    <2> QED
      BY <2>1, <2>2, <2>3 DEF FittingRegistrar
  <1> QED
    BY <1>1, <1>2, PTL DEF HistorySpec

-----------------------------------------------------------------------------
(* The bulk test *)

\* The phone dialled so far is the one in the slot, unless the test was cut off.
SameUser ==
    Testing /\ ~test.cut => Here # NoId /\ test.dialled \subseteq {Here}

\* The result that is being written is not shown, nor another one of its phone.
WrittenAlone ==
    pc = "stamp" =>
        /\ ~results[entry].valid
        /\ \A r \in Entries : results[r].valid => results[r].phone # results[entry].phone

BulkInv == BulkTypeOK /\ SameUser /\ ResultIsOfPhone /\ OneResultEach /\ WrittenAlone

-----------------------------------------------------------------------------
(* The composition leaves the table of users as it is *)

\* Every behaviour of the composition is one of UserTable, so that what is proved
\* there holds here: the bulk test only reads the table.
THEOREM BulkIsUserTable == BulkSpec => Spec
  <1>1. BulkInit => Init
    BY DEF BulkInit
  <1>2. [BulkNext]_bulkVars => [Next]_vars
    BY DEF BulkNext, bulkVars, Others, OthersLoad, OthersRegister, OthersRow, OthersEnd,
           Next, FetcherThread
  <1> QED
    BY <1>1, <1>2, PTL DEF BulkSpec, Spec

-----------------------------------------------------------------------------
(* The entry of a result *)

LEMMA MinIsMember ==
    ASSUME NEW S, S \subseteq Nat, S # {}
    PROVE  Min(S) \in S
  BY LeastExists, Zenon DEF Min

LEMMA SomeOldest ==
    ASSUME BulkTypeOK
    PROVE  Oldest # {}
  <1> DEFINE stamps == {results[r].stamp : r \in Entries}
  <1>1. stamps \subseteq Nat /\ stamps # {}
    BY BulkAssumption DEF BulkTypeOK, Result, Entries
  <1> HIDE DEF stamps
  <1>2. PICK x \in stamps : \A y \in stamps : x =< y
    BY <1>1, LeastExists
  <1> QED
    BY <1>2 DEF stamps, Oldest

\* The entry that a result is written to is one of the table, and the one of the
\* phone if it has one.
LEMMA EntryForIs ==
    ASSUME BulkTypeOK, NEW id
    PROVE  /\ EntryFor(id) \in Entries
           /\ OfPhone(id) # {} => EntryFor(id) \in OfPhone(id)
  <1>1. OfPhone(id) \subseteq Entries /\ Unused \subseteq Entries /\ Oldest \subseteq Entries
    BY DEF OfPhone, Unused, Oldest
  <1>2. Entries \subseteq Nat
    BY DEF Entries
  <1> DEFINE S == IF OfPhone(id) # {} THEN OfPhone(id)
                  ELSE IF Unused # {} THEN Unused ELSE Oldest
  <1>3. S \subseteq Entries /\ S # {} /\ (OfPhone(id) # {} => S = OfPhone(id))
    BY <1>1, SomeOldest
  <1>4. EntryFor(id) = Min(S)
    BY DEF EntryFor
  <1> HIDE DEF S
  <1>5. Min(S) \in S
    BY <1>2, <1>3, MinIsMember
  <1> QED
    BY <1>3, <1>4, <1>5

-----------------------------------------------------------------------------
(* The tester *)

\* The steps that touch neither the table of results nor the entry written.
ResultsAlone == UNCHANGED <<config, entry, results>> /\ pc # "stamp" /\ pc' # "stamp"

LEMMA ResultsStay ==
    ASSUME BulkInv, ResultsAlone
    PROVE  ResultIsOfPhone' /\ OneResultEach' /\ WrittenAlone'
  BY DEF BulkInv, ResultsAlone, ResultIsOfPhone, OneResultEach, WrittenAlone

LEMMA BeginCycleInv ==
    ASSUME BulkInv, users \in [Slots -> User], BeginCycle, UNCHANGED <<vars, changes>>
    PROVE  BulkInv'
  <1> USE DEF BulkInv
  <1>1. kept' \subseteq Slots \X Ids
    BY DEF BeginCycle, User, Occupied
  <1>2. now' \in 0..MaxTime /\ began' \in 0..MaxTime
    BY BulkAssumption DEF BeginCycle, BulkTypeOK
  <1>3. at' \in 1..MaxUsers + 1
    BY UserAssumption DEF BeginCycle
  <1>4. BulkTypeOK'
    BY <1>1, <1>2, <1>3 DEF BeginCycle, BulkTypeOK, Phases, Result
  <1>5. SameUser'
    BY DEF BeginCycle, SameUser, Testing
  <1>6. ResultsAlone
    BY DEF BeginCycle, ResultsAlone
  <1> QED
    BY <1>4, <1>5, <1>6, ResultsStay

LEMMA WalkInv ==
    ASSUME BulkInv, users \in [Slots -> User], Walk, UNCHANGED <<vars, changes>>
    PROVE  BulkInv'
  <1> USE DEF BulkInv
  <1>1. ResultsAlone
    BY DEF Walk, SkipEmpty, Unresolved, Resolved, Relock, EndCycle, ResultsAlone, AfterPing
  <1>2. CASE SkipEmpty \/ Unresolved
    <2>1. at' \in 1..MaxUsers + 1
      BY <1>2, UserAssumption DEF SkipEmpty, Unresolved, Slots
    <2>2. unnamed' \subseteq Ids
      BY <1>2 DEF SkipEmpty, Unresolved, BulkTypeOK, User, Here
    <2>3. pc' = "scan"
      BY <1>2 DEF SkipEmpty, Unresolved
    <2>4. BulkTypeOK'
      BY <1>2, <2>1, <2>2, <2>3 DEF SkipEmpty, Unresolved, BulkTypeOK, Phases, Result
    <2>5. SameUser'
      BY <2>3 DEF SameUser, Testing
    <2> QED
      BY <2>4, <2>5, <1>1, ResultsStay
  <1>3. CASE Resolved
    <2>1. pc' \in {"ping", "options", "call"}
      BY <1>3 DEF Resolved, AfterPing
    <2>2. BulkTypeOK'
      BY <1>3, <2>1 DEF Resolved, BulkTypeOK, Phases, Result, NoTest
    <2>3. SameUser'
      BY <1>3 DEF Resolved, SameUser, NoTest, Here, vars
    <2> QED
      BY <2>2, <2>3, <1>1, ResultsStay
  <1>4. CASE Relock \/ EndCycle
    <2>1. pc' \in {"scan", "asleep"}
      BY <1>4 DEF Relock, EndCycle
    <2>2. at' \in 1..MaxUsers + 1
      BY <1>4, UserAssumption DEF Relock, EndCycle, BulkTypeOK, Slots
    <2>3. BulkTypeOK'
      BY <1>4, <2>1, <2>2 DEF Relock, EndCycle, BulkTypeOK, Phases, Result
    <2>4. SameUser'
      BY <2>1 DEF SameUser, Testing
    <2> QED
      BY <2>3, <2>4, <1>1, ResultsStay
  <1> QED
    BY <1>2, <1>3, <1>4 DEF Walk

LEMMA TestPhoneInv ==
    ASSUME BulkInv, users \in [Slots -> User], TestPhone, UNCHANGED <<vars, changes>>
    PROVE  BulkInv'
  <1> USE DEF BulkInv
  <1> USE DEF TestPhone, Ping, OptionsAnswered, OptionsSkipped, OptionsUnanswered, NoCall, Call
  <1>1. ResultsAlone /\ Testing
    BY DEF ResultsAlone, AfterPing, Testing
  <1>2. at \in Slots /\ Here \in Ids /\ Here' = users[at'].id
    BY <1>1 DEF BulkTypeOK, Testing, User, Here, vars
  <1>3. counted' \in Nat
    BY DEF BulkTypeOK
  <1>4. pc' \in Phases
    BY DEF AfterPing, Phases
  <1>5. \/ OptionsSkipped
        \/ at' = at /\ (test' = test \/ test' = [test EXCEPT !.dialled = @ \cup {Here}])
    BY DEF Dial
  <1>6. CASE OptionsSkipped
    <2>1. at' \in 1..MaxUsers + 1 /\ pc' = "scan"
      BY <1>2, <1>6, UserAssumption DEF Slots
    <2>2. BulkTypeOK'
      BY <1>6, <2>1, <1>3, <1>4 DEF BulkTypeOK, Result, NoTest
    <2>3. SameUser'
      BY <2>1 DEF SameUser, Testing
    <2> QED
      BY <2>2, <2>3, <1>1, ResultsStay
  <1>7. CASE at' = at /\ (test' = test \/ test' = [test EXCEPT !.dialled = @ \cup {Here}])
    <2>1. test' \in [dialled : SUBSET Ids, cut : BOOLEAN] /\ test'.cut = test.cut
          /\ test'.dialled \subseteq test.dialled \cup {Here}
      BY <1>2, <1>7 DEF BulkTypeOK
    <2>2. UNCHANGED <<config, entry, results, now, began, kept, recorded, unnamed, changes, header, mutex>>
      OBVIOUS
    <2>3. BulkTypeOK'
      BY <1>1, <1>2, <1>3, <1>4, <1>7, <2>1, <2>2 DEF BulkTypeOK, Result, ResultsAlone
    <2>4. Here' = Here
      BY <1>2, <1>7 DEF Here
    <2>5. SameUser'
      BY <1>1, <2>1, <2>4 DEF SameUser
    <2> QED
      BY <2>3, <2>5, <1>1, ResultsStay
  <1> QED
    BY <1>5, <1>6, <1>7

\* The record takes over the id that is in the slot, and the place of the only
\* valid result of that phone.
LEMMA WriteResultInv ==
    ASSUME BulkInv, users \in [Slots -> User], WriteResult, UNCHANGED <<vars, changes>>
    PROVE  BulkInv'
  <1> USE DEF BulkInv
  <1>1. at \in Slots /\ Here \in Ids /\ Here' = Here
    BY DEF WriteResult, BulkTypeOK, User, Here, vars
  <1>2. entry' \in Entries /\ (OfPhone(Here) # {} => entry' \in OfPhone(Here))
    BY EntryForIs DEF WriteResult
  <1> DEFINE record == [phone |-> Here, valid |-> FALSE, stamp |-> 0,
                        of |-> test.dialled, cut |-> test.cut]
  <1>3. results' = [results EXCEPT ![entry'] = record]
    BY DEF WriteResult
  <1>4. record \in Result
    BY <1>1, BulkAssumption DEF BulkTypeOK, Result
  <1>5. results' \in [Entries -> Result]
    BY <1>3, <1>4 DEF BulkTypeOK
  <1>6. results'[entry'] = record /\ \A r \in Entries : r # entry' => results'[r] = results[r]
    BY <1>2, <1>3 DEF BulkTypeOK
  <1>7. BulkTypeOK'
    BY <1>1, <1>2, <1>5 DEF WriteResult, BulkTypeOK, Phases
  <1>8. SameUser'
    BY DEF WriteResult, SameUser, Testing
  <1>9. test.cut \/ test.dialled \subseteq {Here}
    BY DEF WriteResult, SameUser, Testing
  <1>10. ResultIsOfPhone'
    BY <1>6, <1>9 DEF ResultIsOfPhone
  <1>11. OneResultEach'
    BY <1>6 DEF OneResultEach
  <1>12. \A r \in Entries : results'[r].valid => results'[r].phone # Here
    <2> SUFFICES ASSUME NEW r \in Entries, results'[r].valid, results'[r].phone = Here
                 PROVE  FALSE
      OBVIOUS
    <2>1. r # entry' /\ r \in OfPhone(Here)
      BY <1>6 DEF OfPhone
    <2>2. entry' \in OfPhone(Here)
      BY <1>2, <2>1
    <2> QED
      BY <2>1, <2>2 DEF OneResultEach, OfPhone
  <1>13. WrittenAlone'
    BY <1>6, <1>12 DEF WrittenAlone
  <1> QED
    BY <1>7, <1>8, <1>10, <1>11, <1>13

LEMMA StampResultInv ==
    ASSUME BulkInv, StampResult, UNCHANGED <<vars, changes>>
    PROVE  BulkInv'
  <1> USE DEF BulkInv
  <1>1. entry \in Entries
    BY DEF StampResult, BulkTypeOK
  <1>2. now' \in 0..MaxTime
    BY BulkAssumption DEF StampResult, BulkTypeOK
  <1>3. results' = [results EXCEPT ![entry].valid = TRUE, ![entry].stamp = now']
    BY DEF StampResult
  <1>4. results' \in [Entries -> Result]
    <2>1. results[entry] \in Result
      BY <1>1 DEF BulkTypeOK
    <2>2. [results[entry] EXCEPT !.valid = TRUE, !.stamp = now'] \in Result
      BY <1>2, <2>1 DEF Result
    <2>3. results' = [results EXCEPT ![entry] =
                         [results[entry] EXCEPT !.valid = TRUE, !.stamp = now']]
      BY <1>1, <1>3 DEF BulkTypeOK, Result
    <2> QED
      BY <2>2, <2>3 DEF BulkTypeOK
  <1>5. header' \in Nat
    <2>1. IsFiniteSet(Entries)
      BY FS_Interval, BulkAssumption DEF Entries
    <2>2. IsFiniteSet(Entries \ (Unused \ {entry}))
      BY <2>1, FS_Subset
    <2> QED
      BY <2>2, FS_CardinalityType DEF StampResult
  <1>6. BulkTypeOK'
    BY <1>2, <1>4, <1>5 DEF StampResult, BulkTypeOK, Phases, NoTest
  <1>7. SameUser' /\ WrittenAlone'
    BY DEF StampResult, SameUser, Testing, WrittenAlone
  <1>8. /\ results'[entry].phone = results[entry].phone
        /\ results'[entry].of = results[entry].of
        /\ results'[entry].cut = results[entry].cut
        /\ \A r \in Entries : r # entry => results'[r] = results[r]
    BY <1>1, <1>3 DEF BulkTypeOK, Result
  <1>9. ResultIsOfPhone'
    BY <1>8 DEF ResultIsOfPhone
  <1>10. \A r \in Entries : r # entry /\ results[r].valid => results[r].phone # results[entry].phone
    BY DEF StampResult, WrittenAlone
  <1>11. OneResultEach'
    BY <1>8, <1>10 DEF OneResultEach
  <1> QED
    BY <1>6, <1>7, <1>9, <1>11

-----------------------------------------------------------------------------
(* The other threads *)

\* Adding a row leaves every slot in use with its id.
LEMMA RowKeepsIds ==
    ASSUME TypeOK, AddRow
    PROVE  \A s \in Slots : users[s].id # NoId => users'[s].id = users[s].id
  <1>1. users \in [Slots -> User]
    BY DEF TypeOK
  <1>2. PICK id : \/ \E s \in Slots : MarkKnown(s)
                  \/ \E s \in Slots : FirstFree(s) /\ AddDirectory(s, id)
                  \/ UNCHANGED users
    BY DEF AddRow
  <1>3. ASSUME NEW s \in Slots, MarkKnown(s)
        PROVE  \A t \in Slots : users'[t].id = users[t].id
    <2>1. users' = [users EXCEPT ![s].known = TRUE, ![s].active = TRUE]
      BY <1>3 DEF MarkKnown
    <2> QED
      BY <1>1, <2>1 DEF User
  <1>4. ASSUME NEW s \in Slots, FirstFree(s), AddDirectory(s, id)
        PROVE  \A t \in Slots : users[t].id # NoId => users'[t].id = users[t].id
    <2>1. users[s].id = NoId /\ \A t \in Slots : t # s => users'[t] = users[t]
      BY <1>1, <1>4 DEF FirstFree, AddDirectory
    <2> QED
      BY <2>1
  <1> QED
    BY <1>2, <1>3, <1>4

\* A REGISTER frees a slot only to sign off the user who is in it.
LEMMA RegisterKeepsId ==
    ASSUME TypeOK, MainThread, at \in Slots, Here # NoId, ~SignsOff
    PROVE  users'[at].id = Here
  <1>1. users \in [Slots -> User]
    BY DEF TypeOK
  <1>2. PICK id \in RegIds, expires \in ExpiresHeader : Register(id, expires)
    BY DEF MainThread
  <1>3. lastReg' = [id |-> id, expires |-> expires]
    BY <1>2 DEF Register
  <1>4. ASSUME NEW s \in Slots, Holds(s, id), ~Lasting(expires), Deactivate(s)
        PROVE  users'[at].id = Here
    <2>1. CASE s = at
      <3>1. users[at].known
        BY <1>3, <1>4, <2>1 DEF SignsOff, Holds, Here
      <3> QED
        BY <1>1, <1>4, <2>1, <3>1 DEF Deactivate, User, Here
    <2>2. CASE s # at
      BY <1>1, <1>4, <2>2 DEF Deactivate, Here
    <2> QED
      BY <2>1, <2>2
  <1>5. ASSUME NEW s \in Slots, Refresh(s)
        PROVE  users'[at].id = Here
    BY <1>1, <1>5 DEF Refresh, User, Here
  <1>6. ASSUME NEW s \in Slots, FirstFree(s), AddDynamic(s, id)
        PROVE  users'[at].id = Here
    BY <1>1, <1>6 DEF FirstFree, AddDynamic, Here
  <1>7. CASE UNCHANGED users
    BY <1>7 DEF Here
  <1> QED
    BY <1>2, <1>4, <1>5, <1>6, <1>7 DEF Register

\* What the tester keeps when another thread moves and the user under test stays,
\* or the test is noted as cut off.
LEMMA OthersStep ==
    ASSUME BulkInv, NEW cuts \in BOOLEAN, Watch(cuts), changes' \in Nat,
           ~cuts /\ at \in Slots /\ Here # NoId => users'[at].id = Here
    PROVE  BulkInv'
  <1> USE DEF BulkInv, Watch
  <1>1. test' \in [dialled : SUBSET Ids, cut : BOOLEAN]
    BY DEF BulkTypeOK
  <1>2. BulkTypeOK'
    BY <1>1 DEF BulkTypeOK
  <1>3. ResultIsOfPhone' /\ OneResultEach' /\ WrittenAlone'
    BY DEF ResultIsOfPhone, OneResultEach, WrittenAlone
  <1>4. SameUser'
    <2> SUFFICES ASSUME Testing', ~test'.cut
                 PROVE  Here' # NoId /\ test'.dialled \subseteq {Here'}
      BY DEF SameUser
    <2>1. Testing /\ at \in Slots
      BY DEF Testing, BulkTypeOK
    <2>2. ~cuts /\ test' = test
      BY <2>1 DEF BulkTypeOK
    <2>3. Here # NoId /\ test.dialled \subseteq {Here}
      BY <2>1, <2>2 DEF SameUser
    <2>4. Here' = Here
      BY <2>1, <2>2, <2>3 DEF Here
    <2> QED
      BY <2>2, <2>3, <2>4
  <1> QED
    BY <1>2, <1>3, <1>4

LEMMA OthersInv ==
    ASSUME BulkInv, TypeOK, Others
    PROVE  BulkInv'
  <1>1. changes \in Nat
    BY DEF BulkInv, BulkTypeOK
  <1>2. CASE OthersLoad
    <2>1. Watch(TRUE)
      BY <1>2, Zenon DEF OthersLoad
    <2>2. changes' = changes + 1
      BY <1>2 DEF OthersLoad
    <2>3. changes' \in Nat
      BY <1>1, <2>2
    <2> QED
      BY <2>1, <2>3, OthersStep, Zenon
  <1>3. CASE OthersRegister
    <2>1. at \in Slots /\ Here # NoId /\ ~SignsOff => users'[at].id = Here
      BY <1>3, RegisterKeepsId DEF OthersRegister
    <2>2. SignsOff \in BOOLEAN
      BY DEF SignsOff
    <2>3. Watch(SignsOff) /\ changes' \in Nat
      BY <1>1, <1>3 DEF OthersRegister
    <2> QED
      BY <2>1, <2>2, <2>3, OthersStep
  <1>4. CASE OthersRow
    <2>1. at \in Slots /\ Here # NoId => users'[at].id = Here
      BY <1>4, RowKeepsIds DEF OthersRow, Here
    <2> QED
      BY <1>1, <1>4, <2>1, OthersStep DEF OthersRow
  <1>5. CASE OthersEnd
    <2>1. users' = users /\ changes' = changes
      BY <1>5 DEF OthersEnd, EndLoad, Watch
    <2> QED
      BY <1>1, <1>5, <2>1, OthersStep DEF OthersEnd, Here
  <1> QED
    BY <1>2, <1>3, <1>4, <1>5 DEF Others

-----------------------------------------------------------------------------

LEMMA BulkInvInit ==
    ASSUME BulkInit
    PROVE  BulkInv
  <1>1. PICK m \in Memory : results = m.results /\ header = m.header
    BY LeftoverAssumption DEF BulkInit
  <1>2. results \in [Entries -> Result] /\ header \in Nat
    BY <1>1 DEF Memory
  <1>3. ResultIsOfPhone /\ OneResultEach
    BY <1>1 DEF Memory, ResultIsOfPhone, OneResultEach
  <1>4. BulkTypeOK
    BY <1>2, UserAssumption, BulkAssumption DEF BulkInit, BulkTypeOK, Phases, NoTest
  <1> QED
    BY <1>3, <1>4 DEF BulkInit, BulkInv, SameUser, Testing, WrittenAlone

LEMMA BulkInvStep ==
    ASSUME BulkInv, TypeOK, [BulkNext]_bulkVars
    PROVE  BulkInv'
  <1>1. users \in [Slots -> User]
    BY DEF TypeOK
  <1>2. CASE Tester /\ UNCHANGED <<vars, changes>>
    BY <1>1, <1>2, BeginCycleInv, WalkInv, TestPhoneInv, WriteResultInv, StampResultInv
       DEF Tester
  <1>3. CASE Others
    BY <1>3, OthersInv
  <1>4. CASE UNCHANGED bulkVars
    BY <1>4 DEF bulkVars, testerVars, vars, BulkInv, BulkTypeOK, SameUser, Testing, Here,
                ResultIsOfPhone, OneResultEach, WrittenAlone
  <1> QED
    BY <1>2, <1>3, <1>4 DEF BulkNext

\* BulkInv is an invariant.  Its step needs the type of the table of users, which
\* UserTableProofs proves of every behaviour of UserTable.
THEOREM BulkInvariant == BulkSpec => []BulkInv
  <1>1. BulkSpec => []TypeOK
    BY BulkIsUserTable, UserInvariant, PTL DEF UserInv
  <1>2. BulkInit => BulkInv
    BY BulkInvInit
  <1>3. BulkInv /\ TypeOK /\ [BulkNext]_bulkVars => BulkInv'
    BY BulkInvStep
  <1> QED
    BY <1>1, <1>2, <1>3, PTL DEF BulkSpec

\* The tester always works on a slot of the table and on an entry of the results,
\* and every variable has its type.
THEOREM TesterStaysInside == BulkSpec => []BulkTypeOK
  <1>1. BulkInv => BulkTypeOK
    BY DEF BulkInv
  <1> QED
    BY <1>1, BulkInvariant, PTL

\* For any number of users and of results: what the dashboard shows for a phone was
\* measured on that phone, unless a load or a sign-off came between.
THEOREM ResultsAreOfPhones == BulkSpec => []ResultIsOfPhone
  <1>1. BulkInv => ResultIsOfPhone
    BY DEF BulkInv
  <1> QED
    BY <1>1, BulkInvariant, PTL

\* For any number of users and of results, no phone has two results.
THEOREM ResultsAreUnique == BulkSpec => []OneResultEach
  <1>1. BulkInv => OneResultEach
    BY DEF BulkInv
  <1> QED
    BY <1>1, BulkInvariant, PTL

-----------------------------------------------------------------------------
(* The dashboard after a cycle *)

\* The phone has a result of this cycle.
Fresh(id) ==
    \E r \in Entries : results[r].valid /\ results[r].phone = id /\ results[r].stamp >= began

\* The results of this cycle are of the phones recorded in it, and the other way
\* round as long as the table can hold them.
ResultsInv ==
    /\ began <= now
    /\ \A r \in Entries : results[r].valid => results[r].stamp <= now
    /\ \A r \in Entries : results[r].valid /\ results[r].stamp >= began
                             => results[r].phone \in recorded
    /\ pc = "stamp" => results[entry].phone \in recorded
    /\ IsFiniteSet(recorded)
    /\ Cardinality(recorded) <= MaxResults =>
         \A id \in recorded : Fresh(id) \/ (pc = "stamp" /\ results[entry].phone = id)

\* The users who have stayed are where they were, and those that the walk has passed
\* are recorded or have no DNS entry.
WalkedInv ==
    /\ \A k \in kept : users[k[1]].id = k[2] /\ k[2] # NoId
    /\ config.hostname =>
         \A k \in kept : k[1] < at \/ (k[1] = at /\ pc \in {"stamp", "relock"})
                            => k[2] \in recorded \cup unnamed
    /\ pc = "asleep" => at \notin Slots \/ kept = {}

\* The steps that leave the results and what is said of them alone.
LEMMA ResultsInvStays ==
    ASSUME ResultsInv, pc # "stamp", pc' # "stamp",
           UNCHANGED <<results, entry, recorded, began, now>>
    PROVE  ResultsInv'
  BY DEF ResultsInv, Fresh

\* A phone that has no result takes the place of an older cycle, unless the cycle
\* has recorded more phones than there are entries.
LEMMA RoomForOne ==
    ASSUME BulkInv, ResultsInv, pc = "write", NEW id, id \in Ids, OfPhone(id) = {},
           Cardinality(recorded \cup {id}) <= MaxResults,
           NEW e \in Entries, e = EntryFor(id), results[e].valid
    PROVE  ~(results[e].stamp >= began)
  <1> SUFFICES ASSUME results[e].stamp >= began
               PROVE  FALSE
    OBVIOUS
  <1>1. IsFiniteSet(recorded) /\ Cardinality(recorded) \in Nat
    BY FS_CardinalityType DEF ResultsInv
  <1>2. Unused \subseteq Nat
    BY DEF Unused, Entries
  <1>3. Unused = {}
    <2> SUFFICES ASSUME Unused # {}
                 PROVE  FALSE
      OBVIOUS
    <2>1. e = Min(Unused)
      BY DEF EntryFor
    <2>2. e \in Unused
      BY <1>2, <2>1, MinIsMember
    <2> QED
      BY <2>2 DEF Unused
  <1>4. e \in Oldest
    <2>1. e = Min(Oldest)
      BY <1>3 DEF EntryFor
    <2>2. Oldest \subseteq Nat /\ Oldest # {}
      BY SomeOldest DEF BulkInv, Oldest, Entries
    <2> QED
      BY <2>1, <2>2, MinIsMember
  <1>5. \A q \in Entries : results[q].valid /\ results[q].stamp >= began
    <2> SUFFICES ASSUME NEW q \in Entries
                 PROVE  results[q].valid /\ results[q].stamp >= began
      OBVIOUS
    <2>1. results[q].valid
      BY <1>3 DEF Unused
    <2>2. results[e].stamp <= results[q].stamp
      BY <1>4 DEF Oldest
    <2>3. results[e].stamp \in Int /\ results[q].stamp \in Int /\ began \in Int
      BY BulkAssumption DEF BulkInv, BulkTypeOK, Result
    <2> QED
      BY <2>1, <2>2, <2>3
  <1> DEFINE phones == [q \in Entries |-> results[q].phone]
  <1>6. phones \in Injection(Entries, recorded)
    <2>1. phones \in [Entries -> recorded]
      BY <1>5 DEF ResultsInv
    <2>2. \A q, r \in Entries : phones[q] = phones[r] => q = r
      BY <1>5 DEF BulkInv, OneResultEach
    <2> QED
      BY <2>1, <2>2 DEF Injection, IsInjective
  <1>7. Cardinality(Entries) <= Cardinality(recorded)
    BY <1>1, <1>6, FS_Injection
  <1>8. Cardinality(Entries) = MaxResults
    <2>1. MaxResults \in Nat /\ MaxResults >= 1
      BY BulkAssumption
    <2> QED
      BY <2>1, FS_Interval DEF Entries
  <1>9. id \notin recorded
    <2> SUFFICES ASSUME id \in recorded
                 PROVE  FALSE
      OBVIOUS
    <2>1. recorded \cup {id} = recorded
      OBVIOUS
    <2>2. Fresh(id)
      BY <2>1 DEF ResultsInv
    <2> QED
      BY <2>2 DEF Fresh, OfPhone
  <1>10. Cardinality(recorded \cup {id}) = Cardinality(recorded) + 1
    BY <1>1, <1>9, FS_AddElement
  <1> QED
    BY <1>1, <1>7, <1>8, <1>10, BulkAssumption

LEMMA WriteResultShown ==
    ASSUME BulkInv, ResultsInv, users \in [Slots -> User], WriteResult,
           UNCHANGED <<vars, changes>>
    PROVE  ResultsInv'
  <1>1. at \in Slots /\ Here \in Ids /\ pc = "write" /\ pc' = "stamp"
    BY DEF WriteResult, BulkInv, BulkTypeOK, User, Here
  <1>2. entry' = EntryFor(Here) /\ entry' \in Entries
        /\ (OfPhone(Here) # {} => entry' \in OfPhone(Here))
    BY EntryForIs DEF WriteResult, BulkInv
  <1>3. /\ results'[entry'].phone = Here /\ ~results'[entry'].valid
        /\ \A r \in Entries : r # entry' => results'[r] = results[r]
    BY <1>2 DEF WriteResult, BulkInv, BulkTypeOK
  <1>4. UNCHANGED <<began, now>> /\ recorded' = recorded \cup {Here}
    BY DEF WriteResult
  <1>5. IsFiniteSet(recorded) /\ IsFiniteSet(recorded')
    BY <1>4, FS_AddElement DEF ResultsInv
  <1>6. ASSUME Cardinality(recorded') <= MaxResults, NEW id \in recorded', id # Here
        PROVE  Fresh(id)'
    <2>1. Cardinality(recorded) <= MaxResults
      <3>1. Cardinality(recorded) <= Cardinality(recorded')
        BY <1>4, <1>5, FS_Subset
      <3>2. Cardinality(recorded) \in Nat /\ Cardinality(recorded') \in Nat
        BY <1>5, FS_CardinalityType
      <3> QED
        BY <3>1, <3>2, <1>6, BulkAssumption
    <2>2. id \in recorded
      BY <1>4, <1>6
    <2>3. Fresh(id)
      BY <1>1, <2>1, <2>2 DEF ResultsInv
    <2>4. PICK r \in Entries :
              results[r].valid /\ results[r].phone = id /\ results[r].stamp >= began
      BY <2>3 DEF Fresh
    <2>5. r # entry'
      <3> SUFFICES ASSUME r = entry'
                   PROVE  FALSE
        OBVIOUS
      <3>1. r \notin OfPhone(Here)
        BY <2>4, <1>6 DEF OfPhone
      <3>2. OfPhone(Here) = {}
        BY <3>1, <1>2
      <3>3. ~(results[r].stamp >= began)
        BY <3>2, <1>1, <1>2, <1>4, <1>6, <2>4, RoomForOne
      <3> QED
        BY <3>3, <2>4
    <2> QED
      BY <2>4, <2>5, <1>3, <1>4 DEF Fresh
  <1> QED
    BY <1>1, <1>3, <1>4, <1>5, <1>6 DEF ResultsInv

LEMMA StampResultShown ==
    ASSUME BulkInv, ResultsInv, StampResult
    PROVE  ResultsInv'
  <1>1. entry \in Entries /\ results \in [Entries -> Result] /\ pc = "stamp"
    BY DEF StampResult, BulkInv, BulkTypeOK
  <1>2. now \in Nat /\ began \in Nat /\ now' \in Nat /\ now <= now' /\ began <= now'
    BY BulkAssumption DEF StampResult, BulkInv, BulkTypeOK, ResultsInv
  <1>3. UNCHANGED <<began, recorded>> /\ pc' = "relock"
    BY DEF StampResult
  <1>4. /\ results'[entry].valid /\ results'[entry].stamp = now'
        /\ results'[entry].phone = results[entry].phone
        /\ \A r \in Entries : r # entry => results'[r] = results[r]
    BY <1>1 DEF StampResult, Result
  <1>5. ~results[entry].valid
    BY <1>1 DEF BulkInv, WrittenAlone
  <1>6. \A r \in Entries : results'[r].valid => results'[r].stamp <= now'
    <2> SUFFICES ASSUME NEW r \in Entries, results'[r].valid
                 PROVE  results'[r].stamp <= now'
      OBVIOUS
    <2>1. CASE r = entry
      BY <2>1, <1>2, <1>4
    <2>2. CASE r # entry
      <3>1. results[r].stamp \in Int /\ results[r].stamp <= now
        BY <2>2, <1>1, <1>4, BulkAssumption DEF ResultsInv, Result
      <3> QED
        BY <3>1, <2>2, <1>2, <1>4
    <2> QED
      BY <2>1, <2>2
  <1>7. \A r \in Entries : results'[r].valid /\ results'[r].stamp >= began
                              => results'[r].phone \in recorded
    BY <1>1, <1>4 DEF ResultsInv
  <1>8. \A id : id = results[entry].phone => Fresh(id)'
    <2>1. now' >= began
      BY <1>2
    <2> QED
      BY <2>1, <1>1, <1>3, <1>4 DEF Fresh
  <1>9. \A id : Fresh(id) => Fresh(id)'
    BY <1>3, <1>4, <1>5 DEF Fresh
  <1> QED
    BY <1>1, <1>2, <1>3, <1>6, <1>7, <1>8, <1>9 DEF ResultsInv

\* The walk begins again, and nothing of the cycle is in the table yet.
LEMMA BeginCycleShown ==
    ASSUME BulkInv, ResultsInv, users \in [Slots -> User], BeginCycle,
           UNCHANGED <<vars, changes>>
    PROVE  ResultsInv' /\ WalkedInv'
  <1>1. now \in Nat /\ began' = now + 1 /\ now' = now + 1
    BY BulkAssumption DEF BeginCycle, BulkInv, BulkTypeOK
  <1>2. results' = results /\ recorded' = {} /\ pc' = "scan" /\ at' = 1 /\ users' = users
    BY DEF BeginCycle, vars
  <1>3. \A r \in Entries : results[r].valid => results[r].stamp \in Int /\ results[r].stamp <= now
    BY BulkAssumption DEF BulkInv, BulkTypeOK, Result, ResultsInv
  <1>4. ResultsInv'
    BY <1>1, <1>2, <1>3, FS_EmptySet DEF ResultsInv
  <1>5. kept' = {<<s, users[s].id>> : s \in Occupied}
    BY DEF BeginCycle
  <1>6. \A k \in kept' : k[1] \in Slots /\ users[k[1]].id = k[2] /\ k[2] # NoId
    BY <1>5 DEF Occupied
  <1>7. \A k \in kept' : ~(k[1] < 1)
    BY <1>6, UserAssumption DEF Slots
  <1>8. WalkedInv'
    BY <1>2, <1>6, <1>7 DEF WalkedInv
  <1> QED
    BY <1>4, <1>8

LEMMA WalkShown ==
    ASSUME BulkInv, ResultsInv, WalkedInv, Walk, UNCHANGED <<vars, changes>>
    PROVE  ResultsInv' /\ WalkedInv'
  <1> USE DEF Walk, SkipEmpty, Unresolved, Resolved, Relock, EndCycle
  <1>1. UNCHANGED <<results, entry, recorded, began, now, config, kept>> /\ users' = users
    BY DEF vars
  <1>2. pc \in {"scan", "relock"} /\ pc' \in {"scan", "ping", "options", "call", "asleep"}
    BY DEF AfterPing
  <1>3. ResultsInv'
    BY <1>1, <1>2, ResultsInvStays
  <1>4. at \in Nat /\ \A k \in kept : k[1] \in Nat
    BY UserAssumption DEF BulkInv, BulkTypeOK, Slots
  <1>5. \/ at' = at
        \/ at' = at + 1 /\ pc = "scan" /\ Here = NoId /\ unnamed' = unnamed
        \/ at' = at + 1 /\ pc = "scan" /\ unnamed' = unnamed \cup {Here}
        \/ at' = at + 1 /\ pc = "relock" /\ unnamed' = unnamed
    OBVIOUS
  <1>6. unnamed \subseteq unnamed'
    OBVIOUS
  <1>7. ASSUME config.hostname, NEW k \in kept, k[1] < at' \/ (k[1] = at' /\ pc' \in {"stamp", "relock"})
        PROVE  k[2] \in recorded \cup unnamed'
    <2>1. k[1] < at'
      BY <1>2, <1>7
    <2>2. CASE k[1] < at
      BY <2>2, <1>6, <1>7 DEF WalkedInv
    <2>3. CASE ~(k[1] < at)
      <3>1. k[1] = at /\ at' = at + 1
        BY <2>1, <2>3, <1>4, <1>5
      <3>2. k[2] = Here /\ Here # NoId
        BY <3>1 DEF WalkedInv, Here
      <3>3. CASE pc = "relock"
        BY <3>1, <3>3, <1>6, <1>7 DEF WalkedInv
      <3>4. CASE pc # "relock"
        BY <3>1, <3>2, <3>4, <1>4, <1>5
      <3> QED
        BY <3>3, <3>4
    <2> QED
      BY <2>2, <2>3
  <1>8. pc' = "asleep" => at' \notin Slots
    BY DEF AfterPing
  <1>9. WalkedInv'
    BY <1>1, <1>7, <1>8 DEF WalkedInv
  <1> QED
    BY <1>3, <1>9

LEMMA TestPhoneShown ==
    ASSUME BulkInv, ResultsInv, WalkedInv, TestPhone, UNCHANGED <<vars, changes>>
    PROVE  ResultsInv' /\ WalkedInv'
  <1> USE DEF TestPhone, Ping, OptionsAnswered, OptionsSkipped, OptionsUnanswered, NoCall, Call
  <1>1. UNCHANGED <<results, entry, recorded, began, now, config, kept, unnamed>> /\ users' = users
    BY DEF vars
  <1>2. pc \in {"ping", "options", "call"} /\ pc' \in {"options", "call", "write", "scan"}
    BY DEF AfterPing
  <1>3. at' = at \/ ~config.hostname
    OBVIOUS
  <1>4. ResultsInv'
    BY <1>1, <1>2, ResultsInvStays
  <1>5. WalkedInv'
    BY <1>1, <1>2, <1>3 DEF WalkedInv
  <1> QED
    BY <1>4, <1>5

LEMMA ResultWalked ==
    ASSUME BulkInv, WalkedInv, WriteResult \/ StampResult, UNCHANGED <<vars, changes>>
    PROVE  WalkedInv'
  <1>1. UNCHANGED <<at, config, kept, unnamed>> /\ users' = users
    BY DEF WriteResult, StampResult, vars
  <1>2. CASE WriteResult
    <2>1. recorded' = recorded \cup {Here} /\ pc = "write" /\ pc' = "stamp"
      BY <1>2 DEF WriteResult
    <2>2. \A k \in kept : k[1] = at => k[2] = Here
      BY DEF WalkedInv, Here
    <2> QED
      BY <1>1, <2>1, <2>2 DEF WalkedInv
  <1>3. CASE StampResult
    BY <1>1, <1>3 DEF StampResult, WalkedInv
  <1> QED
    BY <1>2, <1>3

\* The other threads do not touch the results, and a user who leaves the table is
\* not one who has stayed.
LEMMA OthersShown ==
    ASSUME BulkInv, ResultsInv, WalkedInv, Others
    PROVE  ResultsInv' /\ WalkedInv'
  <1>1. /\ UNCHANGED <<config, pc, at, entry, results, now, began, recorded, unnamed>>
        /\ kept' = {k \in kept : users'[k[1]].id = k[2]}
    BY DEF Others, OthersLoad, OthersRegister, OthersRow, OthersEnd, Watch
  <1>2. ResultsInv'
    BY <1>1 DEF ResultsInv, Fresh
  <1>3. WalkedInv'
    BY <1>1 DEF WalkedInv
  <1> QED
    BY <1>2, <1>3

LEMMA ShownStep ==
    ASSUME BulkInv, TypeOK, ResultsInv, WalkedInv, [BulkNext]_bulkVars
    PROVE  ResultsInv' /\ WalkedInv'
  <1>1. users \in [Slots -> User]
    BY DEF TypeOK
  <1>2. CASE Tester /\ UNCHANGED <<vars, changes>>
    BY <1>1, <1>2, BeginCycleShown, WalkShown, TestPhoneShown, WriteResultShown,
       StampResultShown, ResultWalked DEF Tester
  <1>3. CASE Others
    BY <1>3, OthersShown
  <1>4. CASE UNCHANGED bulkVars
    BY <1>4 DEF bulkVars, testerVars, vars, ResultsInv, Fresh, WalkedInv
  <1> QED
    BY <1>2, <1>3, <1>4 DEF BulkNext

\* For any number of users and of results: no phone has two results, and after a
\* cycle each user who stayed in the table has one of that cycle, or has no DNS
\* entry, unless the cycle recorded more phones than there are results.
THEOREM DashboardIsTrue == BulkSpec => []DashboardTrue
  <1>1. BulkSpec => []TypeOK
    BY BulkIsUserTable, UserInvariant, PTL DEF UserInv
  <1>2. BulkInit => ResultsInv /\ WalkedInv
    <2> SUFFICES ASSUME BulkInit
                 PROVE  ResultsInv /\ WalkedInv
      OBVIOUS
    <2>1. PICK m \in Memory : results = m.results
      BY LeftoverAssumption DEF BulkInit
    <2>2. \A r \in Entries : results[r].valid => results[r].stamp = 0
      BY <2>1 DEF Memory
    <2>3. ResultsInv
      BY <2>2, FS_EmptySet DEF BulkInit, ResultsInv
    <2>4. WalkedInv
      BY DEF BulkInit, WalkedInv
    <2> QED
      BY <2>3, <2>4
  <1>3. BulkInv /\ TypeOK /\ ResultsInv /\ WalkedInv /\ [BulkNext]_bulkVars
            => ResultsInv' /\ WalkedInv'
    BY ShownStep
  <1>4. BulkInv /\ ResultsInv /\ WalkedInv => DashboardTrue
    <2> SUFFICES ASSUME BulkInv, ResultsInv, WalkedInv,
                        pc = "asleep", config.hostname, Cardinality(recorded) <= MaxResults,
                        NEW k \in kept, k[2] \notin unnamed
                 PROVE  \E r \in Entries : /\ results[r].valid
                                           /\ results[r].phone = k[2]
                                           /\ results[r].stamp >= began
      BY DEF DashboardTrue, CycleIsShown, BulkInv
    <2>1. at \notin Slots /\ at \in 1..MaxUsers + 1 /\ k[1] \in Slots
      BY DEF WalkedInv, BulkInv, BulkTypeOK
    <2>2. k[1] < at
      BY <2>1, UserAssumption DEF Slots
    <2>3. k[2] \in recorded
      BY <2>2 DEF WalkedInv
    <2> QED
      BY <2>3 DEF ResultsInv, Fresh
  <1> QED
    BY <1>1, <1>2, <1>3, <1>4, BulkInvariant, PTL DEF BulkSpec
==============================================================================
