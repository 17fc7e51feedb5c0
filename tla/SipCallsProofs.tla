--------------------------- MODULE SipCallsProofs ----------------------------
(***************************************************************************)
(* Proofs about SipProxy and SipCalls, for any calls, hosts, ports and     *)
(* table size, and any number of faults of the network.                    *)
(*                                                                         *)
(* The proxy.  Whatever message arrives, a handler has one of four effects *)
(* on the table (StepEffect): none, one call changes state, one call       *)
(* leaves, one call enters a free slot.  Together with the invariant that  *)
(* no slot rests in use while FREE or TERMINATING, this gives the          *)
(* invariants, the action property and the implementation of CallBoard,    *)
(* one effect at a time instead of one message at a time.                  *)
(*                                                                         *)
(* The calls.  A call is seen alone: the states of its two phones, the     *)
(* states of its sessions (Open), and four sets of signals, what is on its *)
(* way from and to each phone.  Every step of the system is, for every     *)
(* call, one of a phone (PhoneOf), of the proxy (ProxyOf), of the network  *)
(* (NetworkOf), of the cleanup (CleanupOf) or of nobody (Untouched):       *)
(* EveryStep.  The invariants are then about one call, and each is proved  *)
(* under the faults it needs to be free of: Meanings under any, InOrder    *)
(* without swaps, OneSession without duplicates, and Unlost without both,  *)
(* as long as nothing was lost and the two phones use different ports.     *)
(* What they say of a session that is still needed (Established, Unlost)   *)
(* is said of calls the cleanup has not ended.                             *)
(***************************************************************************)
EXTENDS SipCalls, SequenceTheorems, TLAPS

(* The proxy alone *)

\* The export follows the table; ExportExact needs TableAtRest besides.
ExportCurrent == exported = Listing(sessions)

ProxyInv ==
    /\ TypeOK
    /\ TableAtRest
    /\ ExportCurrent

\* The effects a step has on the table and its export.
Advances(s) ==
    /\ sessions[s].inUse
    /\ \E st \in {"RINGING", "ESTABLISHED"} : SetState(s, st)

Leaves(s) == sessions[s].inUse /\ Terminate(s)

NewCall(s, call, from, to) ==
    /\ ~sessions[s].inUse
    /\ Commit([sessions EXCEPT ![s] =
                 [inUse |-> TRUE, call |-> call, caller |-> from, callee |-> to,
                  state |-> "INVITE_SENT", age |-> 0]])

Enters(s) ==
    \E call \in CallIds, from \in Addrs, to \in Addrs :
        to.port = SipPort /\ NewCall(s, call, from, to)

Ages == Tick

Effect ==
    \/ Keep
    \/ \E s \in Slots : Advances(s) \/ Leaves(s) \/ Enters(s)
    \/ Ages

-----------------------------------------------------------------------------
(* Every step has one of the effects, and sends typed messages *)

LEMMA RequestEffect ==
    ASSUME NEW m \in Requests, HandleRequest(m)
    PROVE  Effect
  <1>1. CASE HandleInvite(m)
    <2>1. CASE InviteUnresolved(m) \/ InviteRefused(m)
      BY <2>1 DEF InviteUnresolved, InviteRefused, Effect
    <2>2. CASE \E ip \in Ips : InviteAccepted(m, ip)
      <3>1. PICK ip \in Ips : InviteAccepted(m, ip)
        BY <2>2
      <3> DEFINE to == [ip |-> ip, port |-> SipPort]
      <3>2. PICK s \in Slots : ~sessions[s].inUse /\ NewCall(s, m.call, m.src, to)
        BY <3>1 DEF InviteAccepted, FirstUnused, NewCall
      <3>3. m.call \in CallIds /\ m.src \in Addrs /\ to \in Addrs /\ to.port = SipPort
        BY ProxyAssumption DEF Requests, Addrs
      <3> QED
        BY <3>2, <3>3 DEF Enters, Effect
    <2> QED
      BY <1>1, <2>1, <2>2 DEF HandleInvite
  <1>2. CASE ByeInSession(m) \/ ByeUnknown(m)
    BY <1>2 DEF ByeInSession, ByeUnknown, Found, Leaves, Effect
  <1>3. CASE CancelPending(m) \/ CancelRefused(m)
    BY <1>3 DEF CancelPending, CancelRefused, Found, Leaves, Effect
  <1>4. CASE AckEstablished(m) \/ AckDropped(m) \/ AnswerDirectly(m)
    BY <1>4 DEF AckEstablished, AckDropped, AnswerDirectly, Effect
  <1> QED
    BY <1>1, <1>2, <1>3, <1>4 DEF HandleRequest

LEMMA ResponseEffect ==
    ASSUME NEW m \in Responses, HandleResponse(m)
    PROVE  Effect
  <1>1. CASE DropResponse(m)
    BY <1>1 DEF DropResponse, Effect
  <1>2. CASE RelayResponse(m)
    <2>1. PICK s \in Slots :
            /\ sessions[s].inUse
            /\ \/ SetState(s, "ESTABLISHED")
               \/ Terminate(s)
               \/ SetState(s, "RINGING")
               \/ Keep
      BY <1>2 DEF RelayResponse, Found
    <2> QED
      BY <2>1 DEF Advances, Leaves, Effect
  <1> QED
    BY <1>1, <1>2 DEF HandleResponse

LEMMA StepEffect ==
    ASSUME Next
    PROVE  Effect
  <1>1. CASE Handle
    BY <1>1, RequestEffect, ResponseEffect DEF Handle
  <1>2. CASE \E s \in Slots : CleanupStale(s)
    BY <1>2 DEF CleanupStale, Stale, Leaves, Effect
  <1>3. CASE Tick
    BY <1>3 DEF Ages, Effect
  <1> QED
    BY <1>1, <1>2, <1>3 DEF Next

\* What a step sends goes to an address: the source of the message handled, or an
\* address of a session in use.
LEMMA StepSends ==
    ASSUME ProxyInv, Next
    PROVE  out' \in Seq(Sent)
  <1>1. \A s \in Slots : sessions[s].inUse =>
            sessions[s].caller \in Addrs /\ sessions[s].callee \in Addrs
    BY DEF ProxyInv, TableAtRest, FreeSession
  <1>2. ASSUME NEW m \in Requests \cup Responses, NEW to \in Addrs
        PROVE  Relayed(to, m) \in Sent
    BY <1>2 DEF Relayed, Sent, Requests, Responses
  <1>3. ASSUME NEW m \in Requests, NEW st \in Statuses
        PROVE  Answer(m, st) \in Sent
    BY <1>3 DEF Answer, Sent, Requests
  <1>4. ASSUME NEW m \in Requests, HandleRequest(m)
        PROVE  out' \in Seq(Sent)
    <2>1. CASE HandleInvite(m)
      <3>1. CASE InviteUnresolved(m) \/ InviteRefused(m)
        <4>1. out' = <<Answer(m, "failure")>>
          BY <3>1 DEF InviteUnresolved, InviteRefused
        <4> QED
          BY <1>3, <4>1 DEF Statuses
      <3>2. CASE \E ip \in Ips : InviteAccepted(m, ip)
        <4>1. PICK ip \in Ips :
                 out' = <<Answer(m, "other"), Relayed([ip |-> ip, port |-> SipPort], m)>>
          BY <3>2 DEF InviteAccepted
        <4>2. [ip |-> ip, port |-> SipPort] \in Addrs
          BY ProxyAssumption DEF Addrs
        <4> QED
          BY <1>2, <1>3, <4>1, <4>2 DEF Statuses
      <3> QED
        BY <2>1, <3>1, <3>2 DEF HandleInvite
    <2>2. CASE ByeInSession(m)
      <3>1. PICK s \in Slots :
               /\ sessions[s].inUse
               /\ out' = <<Relayed(OtherParty(s, m), m), Answer(m, "ok")>>
        BY <2>2 DEF ByeInSession, Found
      <3>2. OtherParty(s, m) \in Addrs
        BY <1>1, <3>1 DEF OtherParty
      <3> QED
        BY <1>2, <1>3, <3>1, <3>2 DEF Statuses
    <2>3. CASE CancelPending(m)
      <3>1. PICK s \in Slots :
               /\ sessions[s].inUse
               /\ out' = <<Relayed(sessions[s].callee, m), Answer(m, "ok")>>
        BY <2>3 DEF CancelPending, Found
      <3> QED
        BY <1>1, <1>2, <1>3, <3>1 DEF Statuses
    <2>4. CASE AckEstablished(m)
      <3>1. PICK s \in Slots :
               sessions[s].inUse /\ out' = <<Relayed(sessions[s].callee, m)>>
        BY <2>4 DEF AckEstablished, Found
      <3> QED
        BY <1>1, <1>2, <3>1
    <2>5. CASE ByeUnknown(m) \/ CancelRefused(m) \/ AckDropped(m) \/ AnswerDirectly(m)
      <3>1. out' = <<>> \/ \E st \in Statuses : out' = <<Answer(m, st)>>
        BY <2>5 DEF ByeUnknown, CancelRefused, AckDropped, AnswerDirectly, Statuses
      <3>2. CASE out' = <<>>
        BY <3>2
      <3>3. CASE \E st \in Statuses : out' = <<Answer(m, st)>>
        BY <1>3, <3>3
      <3> QED
        BY <3>1, <3>2, <3>3
    <2> QED
      BY <1>4, <2>1, <2>2, <2>3, <2>4, <2>5 DEF HandleRequest
  <1>5. ASSUME NEW m \in Responses, HandleResponse(m)
        PROVE  out' \in Seq(Sent)
    <2>1. CASE DropResponse(m)
      BY <2>1 DEF DropResponse
    <2>2. CASE RelayResponse(m)
      <3>1. PICK s \in Slots :
               sessions[s].inUse /\ out' = <<Relayed(sessions[s].caller, m)>>
        BY <2>2 DEF RelayResponse, Found
      <3> QED
        BY <1>1, <1>2, <3>1
    <2> QED
      BY <1>5, <2>1, <2>2 DEF HandleResponse
  <1>6. CASE \E s \in Slots : CleanupStale(s)
    BY <1>6 DEF CleanupStale
  <1>7. CASE Tick
    BY <1>7 DEF Tick
  <1> QED
    BY <1>4, <1>5, <1>6, <1>7 DEF Next, Handle

-----------------------------------------------------------------------------
(* The invariant *)

LEMMA SessionTypes ==
    /\ FreeSession \in Session
    /\ \A call \in CallIds, from \in Addrs, to \in Addrs :
          [inUse |-> TRUE, call |-> call, caller |-> from, callee |-> to,
           state |-> "INVITE_SENT", age |-> 0] \in Session
  BY ProxyAssumption DEF FreeSession, Session, States

LEMMA ListingType ==
    ASSUME NEW table \in [Slots -> Session]
    PROVE  Listing(table) \in [Slots -> Entry]
  BY DEF Listing, Session, Entry, NotListed, States

LEMMA EffectKeepsTable ==
    ASSUME ProxyInv, Effect
    PROVE  /\ sessions' \in [Slots -> Session]
           /\ TableAtRest'
           /\ ExportCurrent'
  <1> USE DEF ProxyInv, TypeOK
  <1>1. CASE Keep
    BY <1>1 DEF Keep, TableAtRest, ExportCurrent
  <1>2. ASSUME NEW s \in Slots, Advances(s)
        PROVE  sessions' \in [Slots -> Session] /\ TableAtRest' /\ ExportCurrent'
    <2>1. PICK st \in {"RINGING", "ESTABLISHED"} :
            /\ sessions' = [sessions EXCEPT ![s].state = st]
            /\ exported' = Listing(sessions')
      BY <1>2 DEF Advances, SetState, Commit
    <2>2. /\ sessions[s].inUse
          /\ sessions[s] # FreeSession
          /\ st \in States
      BY <1>2 DEF Advances, FreeSession, States
    <2>3. /\ sessions'[s] \in Session
          /\ sessions'[s].state = st
          /\ sessions'[s].inUse = sessions[s].inUse
          /\ sessions'[s].call = sessions[s].call
          /\ sessions'[s].caller = sessions[s].caller
          /\ sessions'[s].callee = sessions[s].callee
      <3>1. /\ sessions[s] \in Session
            /\ sessions'[s] = [sessions[s] EXCEPT !.state = st]
        BY <2>1
      <3>2. \A x \in Session :
              LET y == [x EXCEPT !.state = st]
              IN  /\ y \in Session
                  /\ y.state = st /\ y.inUse = x.inUse /\ y.call = x.call
                  /\ y.caller = x.caller /\ y.callee = x.callee
        BY <2>2 DEF Session
      <3> QED
        BY <3>1, <3>2
    <2>4. sessions' \in [Slots -> Session]
      BY <2>1, <2>3
    <2>5. TableAtRest'
      BY <2>1, <2>2, <2>3 DEF TableAtRest
    <2> QED
      BY <2>1, <2>4, <2>5 DEF ExportCurrent
  <1>3. ASSUME NEW s \in Slots, Leaves(s)
        PROVE  sessions' \in [Slots -> Session] /\ TableAtRest' /\ ExportCurrent'
    <2>1. /\ sessions' = [sessions EXCEPT ![s] = FreeSession]
          /\ exported' = Listing(sessions')
      BY <1>3 DEF Leaves, Terminate, Commit
    <2> QED
      BY <2>1, SessionTypes DEF TableAtRest, ExportCurrent
  <1>4. ASSUME NEW s \in Slots, Enters(s)
        PROVE  sessions' \in [Slots -> Session] /\ TableAtRest' /\ ExportCurrent'
    BY <1>4, SessionTypes DEF Enters, NewCall, Commit, TableAtRest, ExportCurrent
  <1>5. CASE Ages
    <2>1. \A s \in Slots :
            \/ sessions'[s] = sessions[s]
            \/ /\ sessions[s].inUse
               /\ sessions[s].age <= MaxAge
               /\ sessions'[s] = [sessions[s] EXCEPT !.age = @ + 1]
      BY <1>5 DEF Ages, Tick
    <2>1a. \A s \in Slots :
            \/ sessions'[s] = sessions[s]
            \/ /\ sessions[s].inUse
               /\ sessions[s] # FreeSession
               /\ sessions'[s] \in Session
               /\ sessions'[s].inUse = sessions[s].inUse
               /\ sessions'[s].call = sessions[s].call
               /\ sessions'[s].state = sessions[s].state
               /\ sessions'[s].caller = sessions[s].caller
               /\ sessions'[s].callee = sessions[s].callee
      <3> TAKE s \in Slots
      <3>1. CASE sessions'[s] = sessions[s]
        BY <3>1
      <3>2. CASE /\ sessions[s].inUse
                 /\ sessions[s].age <= MaxAge
                 /\ sessions'[s] = [sessions[s] EXCEPT !.age = @ + 1]
        <4>1. sessions[s] \in Session /\ sessions[s] # FreeSession
          BY <3>2 DEF FreeSession
        <4>2. sessions[s].age + 1 \in 0..(MaxAge + 1)
          BY <3>2, <4>1, ProxyAssumption DEF Session
        <4> QED
          BY <3>2, <4>1, <4>2 DEF Session
      <3> QED
        BY <2>1, <3>1, <3>2
    <2>2. sessions' \in [Slots -> Session]
      <3>1. sessions' = [s \in Slots |-> sessions'[s]]
        BY <1>5 DEF Ages, Tick
      <3>2. \A s \in Slots : sessions'[s] \in Session
        BY <2>1a
      <3> QED
        BY <3>1, <3>2
    <2>3. TableAtRest'
      <3> SUFFICES ASSUME NEW s \in Slots
                   PROVE  TableAtRest!(s)'
        BY DEF TableAtRest
      <3> QED
        BY <2>1a DEF TableAtRest
    <2>4. Listing(sessions') = Listing(sessions)
      BY <2>1a DEF Listing
    <2>5. exported' = exported
      BY <1>5 DEF Ages, Tick
    <2> QED
      BY <2>2, <2>3, <2>4, <2>5 DEF ExportCurrent
  <1> QED
    BY <1>1, <1>2, <1>3, <1>4, <1>5 DEF Effect

\* The invariant holds at the start, and every handler, cleanup and tick keeps it.
LEMMA ProxyInit ==
    ASSUME Init
    PROVE  ProxyInv
  <1>1. sessions \in [Slots -> Session]
    BY SessionTypes DEF Init
  <1>2. exported \in [Slots -> Entry] /\ ExportCurrent
    BY <1>1, ListingType DEF Init, ExportCurrent
  <1>3. out \in Seq(Sent)
    BY DEF Init
  <1>4. TableAtRest
    BY DEF Init, TableAtRest
  <1> QED
    BY <1>1, <1>2, <1>3, <1>4 DEF ProxyInv, TypeOK

LEMMA ProxyInvStep ==
    ASSUME ProxyInv, Next
    PROVE  ProxyInv'
  <1>1. /\ sessions' \in [Slots -> Session]
        /\ TableAtRest'
        /\ ExportCurrent'
    BY StepEffect, EffectKeepsTable
  <1>2. exported' \in [Slots -> Entry]
    BY <1>1, ListingType DEF ExportCurrent
  <1>3. out' \in Seq(Sent)
    BY StepSends
  <1> QED
    BY <1>1, <1>2, <1>3 DEF ProxyInv, TypeOK

\* The invariant holds of every behaviour of the proxy.
THEOREM ProxyInvariant == Spec => []ProxyInv
  <1>1. Init => ProxyInv
    BY ProxyInit
  <1>2. ProxyInv /\ [Next]_vars => ProxyInv'
    <2> SUFFICES ASSUME ProxyInv, [Next]_vars PROVE ProxyInv'
      OBVIOUS
    <2>1. CASE Next
      BY <2>1, ProxyInvStep
    <2>2. CASE UNCHANGED vars
      BY <2>2 DEF vars, ProxyInv, TypeOK, TableAtRest, ExportCurrent
    <2> QED
      BY <2>1, <2>2
  <1> QED
    BY <1>1, <1>2, PTL DEF Spec

-----------------------------------------------------------------------------
(* What follows from it, for the proxy *)

LEMMA ExportIsExact ==
    ASSUME ProxyInv
    PROVE  ExportExact
  <1> SUFFICES ASSUME NEW s \in Slots
               PROVE  /\ exported[s] # NotListed <=> sessions[s].inUse
                      /\ sessions[s].inUse =>
                            exported[s] = [call |-> sessions[s].call,
                                           state |-> sessions[s].state]
    BY DEF ExportExact
  <1>1. exported[s] = IF sessions[s].inUse /\ sessions[s].state # "FREE"
                      THEN [call |-> sessions[s].call, state |-> sessions[s].state]
                      ELSE NotListed
    BY DEF ProxyInv, ExportCurrent, Listing
  <1>2. CASE sessions[s] = FreeSession
    BY <1>1, <1>2 DEF FreeSession
  <1>3. CASE sessions[s].inUse /\ sessions[s].state # "FREE"
    BY <1>1, <1>3 DEF NotListed
  <1> QED
    BY <1>2, <1>3 DEF ProxyInv, TableAtRest

\* Every variable of the proxy keeps its type.
THEOREM ProxyTypeOK == Spec => []TypeOK
  BY ProxyInvariant, PTL DEF ProxyInv

\* No slot is ever left in use in a state that no message and no reader of the
\* export can reach again.
THEOREM TableRests == Spec => []TableAtRest
  BY ProxyInvariant, PTL DEF ProxyInv

\* The dashboard file lists the slots in use and no other.
THEOREM ExportFollows == Spec => []ExportExact
  BY ProxyInvariant, ExportIsExact, PTL

\* A call keeps its slot and its two addresses until it leaves the table.
THEOREM CallsKeepSlots == Spec => CallKeepsSlot
  <1> DEFINE Kept(s) ==
         sessions[s].inUse =>
            \/ ~sessions'[s].inUse
            \/ /\ sessions'[s].call = sessions[s].call
               /\ sessions'[s].caller = sessions[s].caller
               /\ sessions'[s].callee = sessions[s].callee
               /\ sessions'[s].age >= sessions[s].age
  <1>1. ProxyInv /\ [Next]_vars => [\A s \in Slots : Kept(s)]_vars
    <2> SUFFICES ASSUME ProxyInv, Next, NEW s \in Slots, sessions[s].inUse
                 PROVE  Kept(s)
      OBVIOUS
    <2>1. /\ sessions \in [Slots -> Session]
          /\ sessions[s] \in Session
          /\ sessions[s].age \in Int
      BY DEF ProxyInv, TypeOK, Session
    <2>2. CASE Keep
      BY <2>1, <2>2 DEF Keep
    <2>3. ASSUME NEW t \in Slots, Advances(t)
          PROVE  Kept(s)
      <3>1. PICK st : sessions' = [sessions EXCEPT ![t].state = st]
        BY <2>3 DEF Advances, SetState, Commit
      <3>2. CASE s = t
        <4>1. sessions'[s] = [sessions[s] EXCEPT !.state = st]
          BY <2>1, <3>1, <3>2
        <4> QED
          BY <2>1, <4>1 DEF Session
      <3>3. CASE s # t
        BY <2>1, <3>1, <3>3
      <3> QED
        BY <3>2, <3>3
    <2>4. ASSUME NEW t \in Slots, Leaves(t)
          PROVE  Kept(s)
      BY <2>1, <2>4 DEF Leaves, Terminate, Commit, FreeSession
    <2>5. ASSUME NEW t \in Slots, Enters(t)
          PROVE  Kept(s)
      <3>1. s # t /\ sessions'[s] = sessions[s]
        BY <2>1, <2>5 DEF Enters, NewCall, Commit
      <3> QED
        BY <2>1, <3>1
    <2>6. CASE Ages
      <3>1. \/ sessions'[s] = sessions[s]
            \/ sessions'[s] = [sessions[s] EXCEPT !.age = @ + 1]
        BY <2>6 DEF Ages, Tick
      <3>2. CASE sessions'[s] = sessions[s]
        BY <2>1, <3>2
      <3>3. CASE sessions'[s] = [sessions[s] EXCEPT !.age = @ + 1]
        BY <2>1, <3>3 DEF Session
      <3> QED
        BY <3>1, <3>2, <3>3
    <2> QED
      BY <2>2, <2>3, <2>4, <2>5, <2>6, StepEffect DEF Effect
  <1> QED
    BY <1>1, ProxyInvariant, PTL DEF Spec, CallKeepsSlot

\* The export implements the promise made to the readers of the dashboard: calls
\* appear forwarded, progress and disappear one at a time, and are never seen
\* terminating.
THEOREM ImplementsCallBoard == Spec => BoardSpec
  <1>1. Init => Board!Init
    BY DEF Init, Board!Init, Listing, FreeSession
  <1>2. /\ ProxyInv /\ ProxyInv'
        /\ ExportExact /\ ExportExact'
        /\ [Next]_vars
        => [Board!Next]_exported
    <2> SUFFICES ASSUME ProxyInv, ProxyInv', ExportExact, ExportExact', Next
                 PROVE  Board!Next \/ UNCHANGED exported
      BY DEF vars
    <2>2. /\ sessions \in [Slots -> Session]
          /\ exported \in [Slots -> Entry] /\ exported' \in [Slots -> Entry]
      BY DEF ProxyInv, TypeOK
    <2>3. ASSUME NEW s \in Slots, NEW x,
                 Commit([sessions EXCEPT ![s] = x])
          PROVE  exported' = [exported EXCEPT ![s] = exported'[s]]
      <3>1. exported' = Listing([sessions EXCEPT ![s] = x])
        BY <2>3 DEF Commit
      <3>2. exported = Listing(sessions)
        BY DEF ProxyInv, ExportCurrent
      <3> QED
        BY <2>2, <3>1, <3>2 DEF Listing
    <2>4. ASSUME NEW s \in Slots, Advances(s)
          PROVE  Board!Next
      <3>1. PICK st \in {"RINGING", "ESTABLISHED"} :
               Commit([sessions EXCEPT ![s] = [sessions[s] EXCEPT !.state = st]])
        BY <2>4 DEF Advances, SetState
      <3>2. sessions'[s] = [sessions[s] EXCEPT !.state = st]
        BY <2>2, <3>1 DEF Commit
      <3>3. /\ sessions'[s].inUse
            /\ sessions'[s].call = sessions[s].call
            /\ sessions'[s].state = st
        BY <2>2, <2>4, <3>2 DEF Advances, Session
      <3>4. /\ exported[s] # NotListed
            /\ exported[s].call = sessions[s].call
            /\ exported'[s] = [call |-> sessions[s].call, state |-> st]
        <4>1. sessions[s].inUse
          BY <2>4 DEF Advances
        <4>2. /\ exported[s] # NotListed
              /\ exported[s] = [call |-> sessions[s].call, state |-> sessions[s].state]
          BY <4>1 DEF ExportExact
        <4>3. exported'[s] = [call |-> sessions'[s].call, state |-> sessions'[s].state]
          BY <3>3 DEF ExportExact
        <4> QED
          BY <3>3, <4>2, <4>3
      <3>5. exported' = [exported EXCEPT ![s] = exported'[s]]
        BY <2>3, <3>1
      <3>6. Board!Progress(s, st)
        BY <3>4, <3>5 DEF Board!Progress, Board!Shows
      <3> QED
        BY <3>6 DEF Board!Next
    <2>5. ASSUME NEW s \in Slots, Leaves(s)
          PROVE  Board!Next
      <3>1. exported' = [exported EXCEPT ![s] = exported'[s]]
        BY <2>3, <2>5 DEF Leaves, Terminate
      <3>2. sessions'[s] = FreeSession
        BY <2>2, <2>5 DEF Leaves, Terminate, Commit
      <3>3. exported[s] # NotListed /\ exported'[s] = NotListed
        <4>1. sessions[s].inUse
          BY <2>5 DEF Leaves
        <4>2. ~sessions'[s].inUse
          BY <3>2 DEF FreeSession
        <4>3. exported[s] # NotListed
          BY <4>1 DEF ExportExact
        <4>4. exported'[s] = NotListed
          BY <4>2 DEF ExportExact
        <4> QED
          BY <4>3, <4>4
      <3>4. Board!Vanish(s)
        BY <3>1, <3>3 DEF Board!Vanish
      <3> QED
        BY <3>4 DEF Board!Next
    <2>6. ASSUME NEW s \in Slots, Enters(s)
          PROVE  Board!Next
      <3>1. PICK call \in CallIds, from \in Addrs, to \in Addrs :
               NewCall(s, call, from, to)
        BY <2>6 DEF Enters
      <3>2. exported' = [exported EXCEPT ![s] = exported'[s]]
        BY <2>3, <3>1 DEF NewCall
      <3>3. /\ sessions'[s].inUse
            /\ sessions'[s].call = call
            /\ sessions'[s].state = "INVITE_SENT"
        BY <2>2, <3>1 DEF NewCall, Commit
      <3>4. /\ exported[s] = NotListed
            /\ exported'[s] = [call |-> call, state |-> "INVITE_SENT"]
        BY <3>1, <3>3 DEF ExportExact, NewCall
      <3>5. Board!Appear(s, call)
        BY <3>2, <3>4 DEF Board!Appear, Board!Shows
      <3> QED
        BY <3>5 DEF Board!Next
    <2>7. CASE Keep \/ Ages
      BY <2>7 DEF Keep, Ages, Tick
    <2> QED
      BY <2>4, <2>5, <2>6, <2>7, StepEffect DEF Effect
  <1> QED
    BY <1>1, <1>2, ProxyInvariant, ExportFollows, PTL DEF Spec, BoardSpec, Board!Spec

-----------------------------------------------------------------------------
(* A call as its two phones see it: signals on their way, and sessions *)

\* What a message says, whoever sent it.
Signal(m) ==
    CASE m.kind = "request" -> m.method
      [] m.kind = "response" /\ m.method = "INVITE" -> m.status
      [] m.kind = "response" /\ m.method = "BYE" /\ m.status = "ok" -> "byeOk"
      [] m.kind = "response" /\ m.method = "BYE" /\ m.status = "failure" -> "byeFailed"
      [] m.kind = "response" /\ m.method = "CANCEL" /\ m.status = "ok" -> "cancelOk"
      [] m.kind = "response" /\ m.method = "CANCEL" /\ m.status = "failure" -> "cancelFailed"
      [] OTHER -> "odd"

\* What each of the two phones may say, and what it may be sent.
CallerSays == {"INVITE", "ACK", "CANCEL", "BYE", "byeOk", "byeFailed"}
CalleeSays == {"ringing", "ok", "failure", "cancelOk", "cancelFailed", "BYE", "byeOk", "byeFailed"}
CallerHears == {"ringing", "ok", "failure", "other", "cancelOk", "cancelFailed",
                "BYE", "byeOk", "byeFailed"}
CalleeHears == {"INVITE", "ACK", "CANCEL", "BYE", "byeOk", "byeFailed"}

\* The messages to the proxy.
Message == Requests \cup Responses

\* What is on its way from, or to, a phone of a call.
Said(ms, c, a) == {Signal(m) : m \in {n \in ms : n.call = c /\ n.src = a}}
Told(ms, c) == {Signal(m) : m \in {n \in ms : n.call = c}}

\* What a list of messages says.
SignalsOf(msgs) == {Signal(m) : m \in Range(msgs)}

\* What is on its way from and to the two phones of each call, as the proxy and the
\* phones have yet to read it, and the states of the sessions of the call.
FromCaller == [c \in CallIds |-> Said(Range(inbox), c, Caller[c])]
FromCallee == [c \in CallIds |-> Said(Range(inbox), c, Callee(c))]
ToCaller == [c \in CallIds |-> Told(Range(mail[Caller[c]]), c)]
ToCallee == [c \in CallIds |-> Told(Range(mail[Callee(c)]), c)]
Open == [c \in CallIds |-> {sessions[s].state : s \in SessionsOf(c)}]

-----------------------------------------------------------------------------
(* The parts of a call are its own *)

\* Types of the phones and of the network.
CallsTypes ==
    /\ inbox \in Seq(Message)
    /\ mail \in [Addrs -> Seq(Sent)]
    /\ caller \in [CallIds -> CallerStates]
    /\ callee \in [CallIds -> CalleeStates]
    /\ faults \in [loss : 0..MaxLoss, dup : 0..MaxDup, swap : 0..MaxSwap]

\* A message to the proxy comes from one of the two phones of its call, a message to
\* a phone is about a call of that phone, and each says what it may.
SentByPhone(m) ==
    \/ m.src = Caller[m.call] /\ Signal(m) \in CallerSays
    \/ m.src = Callee(m.call) /\ Signal(m) \in CalleeSays

ForPhone(a, x) ==
    \/ a = Caller[x.call] /\ Signal(x) \in CallerHears
    \/ a = Callee(x.call) /\ Signal(x) \in CalleeHears

\* A session routes to the two phones of its call.
OwnSessions ==
    \A s \in Slots : sessions[s].inUse =>
        /\ sessions[s].caller = Caller[sessions[s].call]
        /\ sessions[s].callee = Callee(sessions[s].call)

OwnMessages ==
    /\ \A m \in Range(inbox) : SentByPhone(m)
    /\ \A a \in Addrs : \A x \in Range(mail[a]) : ForPhone(a, x)

PhonesInv == ProxyInv /\ CallsTypes /\ OwnSessions /\ OwnMessages

-----------------------------------------------------------------------------
(* Messages *)

\* The first element of a queue and the others.
LEMMA RangeTail ==
    ASSUME NEW M, NEW q \in Seq(M), q # <<>>
    PROVE  /\ Head(q) \in M
           /\ Tail(q) \in Seq(M)
           /\ Head(q) \in Range(q)
           /\ Range(q) = {Head(q)} \cup Range(Tail(q))
  <1>1. /\ Tail(q) \in Seq(M) /\ q = <<Head(q)>> \o Tail(q) /\ <<Head(q)>> \in Seq(M) /\ Head(q) \in M
    <2>1. Head(q) \in M /\ Tail(q) \in Seq(M)
      OBVIOUS
    <2>2. <<Head(q)>> \in Seq(M)
      BY <2>1
    <2>3. q = <<Head(q)>> \o Tail(q)
      OBVIOUS
    <2> QED
      BY <2>1, <2>2, <2>3, Zenon
  <1>2. \A a, b \in Seq(M) : Range(a \o b) = Range(a) \cup Range(b)
    BY RangeConcatenation
  <1>3. Range(<<Head(q)>>) = {Head(q)}
    <2>1. DOMAIN <<Head(q)>> = {1} /\ <<Head(q)>>[1] = Head(q)
      OBVIOUS
    <2> QED
      BY <2>1, Zenon DEF Range
  <1>4. Range(q) = {Head(q)} \cup Range(Tail(q))
    BY <1>1, <1>2, <1>3, Zenon
  <1> QED
    BY <1>1, <1>4, Zenon

LEMMA PhoneAddrs ==
    \A c \in CallIds : Caller[c] \in Addrs /\ Callee(c) \in Addrs /\ Caller[c] # Callee(c)
  BY CallsAssumption, ProxyAssumption DEF Callee, Addrs

\* What the messages that the phones make say, and what a signal tells of a message.
LEMMA Signals ==
    /\ \A c \in CallIds, a \in Addrs, w \in Methods :
          LET m == Req(c, a, w) IN m \in Message /\ m.call = c /\ m.src = a /\ Signal(m) = w
    /\ \A c \in CallIds, a \in Addrs, w \in Methods, st \in Statuses :
          LET m == Resp(c, a, st, w) IN
          /\ m \in Message /\ m.call = c /\ m.src = a
          /\ w = "INVITE" => Signal(m) = st
          /\ w = "BYE" /\ st = "ok" => Signal(m) = "byeOk"
          /\ w = "BYE" /\ st = "failure" => Signal(m) = "byeFailed"
          /\ w = "CANCEL" /\ st = "ok" => Signal(m) = "cancelOk"
          /\ w = "CANCEL" /\ st = "failure" => Signal(m) = "cancelFailed"
  BY DEF Req, Resp, Message, Requests, Responses, Signal, Statuses

LEMMA SignalRead ==
    ASSUME NEW m \in Message \cup Sent
    PROVE  /\ m.call \in CallIds
           /\ \A w \in {"INVITE", "ACK", "CANCEL", "BYE"} :
                 Signal(m) = w <=> m.kind = "request" /\ m.method = w
           /\ \A st \in {"ok", "ringing", "failure"} :
                 Signal(m) = st <=> m.kind = "response" /\ m.method = "INVITE" /\ m.status = st
           /\ Signal(m) = "byeOk" <=> m.kind = "response" /\ m.method = "BYE" /\ m.status = "ok"
           /\ Signal(m) = "byeFailed" <=> m.kind = "response" /\ m.method = "BYE" /\ m.status = "failure"
           /\ Signal(m) = "cancelOk" <=> m.kind = "response" /\ m.method = "CANCEL" /\ m.status = "ok"
           /\ Signal(m) = "cancelFailed" <=> m.kind = "response" /\ m.method = "CANCEL" /\ m.status = "failure"
  <1>1. /\ m.call \in CallIds /\ m.kind \in {"request", "response"} /\ m.method \in Methods
        /\ m.kind = "response" => m.status \in Statuses \cup {"none"}
    BY DEF Message, Requests, Responses, Sent
  <1> QED
    BY <1>1 DEF Signal, Methods, Statuses

LEMMA SaidMore ==
    ASSUME NEW ms, NEW ns, NEW c, NEW a
    PROVE  Said(ms \cup ns, c, a) = Said(ms, c, a) \cup Said(ns, c, a)
  BY DEF Said

LEMMA ToldMore ==
    ASSUME NEW ms, NEW ns, NEW c
    PROVE  Told(ms \cup ns, c) = Told(ms, c) \cup Told(ns, c)
  BY DEF Told

\* Signals added to what is on its way from a phone.
CallerAdds(c, says) ==
    FromCaller'[c] = FromCaller[c] \cup says /\ FromCallee'[c] = FromCallee[c]
CalleeAdds(c, says) ==
    FromCallee'[c] = FromCallee[c] \cup says /\ FromCaller'[c] = FromCaller[c]

\* What one party of call c sends is heard from it and from nobody else.
LEMMA PhoneSends ==
    ASSUME CallsTypes, NEW c \in CallIds, NEW a, NEW msgs \in Seq(Message),
           \A m \in Range(msgs) : m.call = c /\ m.src = a,
           inbox' = inbox \o msgs
    PROVE  /\ inbox' \in Seq(Message)
           /\ \A m \in Range(inbox') : m \in Range(inbox) \/ m \in Range(msgs)
           /\ \A d \in CallIds \ {c} : FromCaller'[d] = FromCaller[d] /\ FromCallee'[d] = FromCallee[d]
           /\ a = Caller[c] => CallerAdds(c, SignalsOf(msgs))
           /\ a = Callee(c) => CalleeAdds(c, SignalsOf(msgs))
  <1>1. inbox' \in Seq(Message) /\ Range(inbox') = Range(inbox) \cup Range(msgs)
    BY RangeConcatenation DEF CallsTypes
  <1>2. \A d, b : Said(Range(inbox'), d, b) = Said(Range(inbox), d, b) \cup Said(Range(msgs), d, b)
    BY <1>1, SaidMore
  <1>3. \A d, b : d # c \/ b # a => Said(Range(inbox'), d, b) = Said(Range(inbox), d, b)
    <2> SUFFICES ASSUME NEW d, NEW b, d # c \/ b # a
                 PROVE  Said(Range(inbox'), d, b) = Said(Range(inbox), d, b)
      OBVIOUS
    <2>1. Said(Range(msgs), d, b) = {}
      BY DEF Said
    <2> QED
      BY <1>2, <2>1
  <1>4. Said(Range(inbox'), c, a) = Said(Range(inbox), c, a) \cup SignalsOf(msgs)
    <2>1. Said(Range(msgs), c, a) = SignalsOf(msgs)
      BY DEF Said, SignalsOf
    <2> QED
      BY <1>2, <2>1
  <1>5. \A d \in CallIds : /\ FromCaller'[d] = Said(Range(inbox'), d, Caller[d])
                           /\ FromCallee'[d] = Said(Range(inbox'), d, Callee(d))
                           /\ FromCaller[d] = Said(Range(inbox), d, Caller[d])
                           /\ FromCallee[d] = Said(Range(inbox), d, Callee(d))
    BY DEF FromCaller, FromCallee, Callee
  <1>6. \A d \in CallIds \ {c} : FromCaller'[d] = FromCaller[d] /\ FromCallee'[d] = FromCallee[d]
    BY <1>3, <1>5
  <1>7. Caller[c] # Callee(c)
    BY PhoneAddrs
  <1>8. a = Caller[c] => /\ FromCaller'[c] = FromCaller[c] \cup SignalsOf(msgs)
                         /\ FromCallee'[c] = FromCallee[c]
    BY <1>3, <1>4, <1>5, <1>7
  <1>9. a = Callee(c) => /\ FromCallee'[c] = FromCallee[c] \cup SignalsOf(msgs)
                         /\ FromCaller'[c] = FromCaller[c]
    BY <1>3, <1>4, <1>5, <1>7
  <1> QED
    BY <1>1, <1>6, <1>8, <1>9 DEF CallerAdds, CalleeAdds

\* A phone that takes its first message takes it from the mail of that call.
LEMMA PhoneReads ==
    ASSUME CallsTypes, NEW c \in CallIds, NEW a \in Addrs, mail[a] # <<>>,
           Head(mail[a]).call = c,
           mail' = [mail EXCEPT ![a] = Tail(@)]
    PROVE  LET x == Head(mail[a]) IN
           /\ mail' \in [Addrs -> Seq(Sent)] /\ x \in Sent /\ x \in Range(mail[a])
           /\ \A b \in Addrs : Range(mail'[b]) \subseteq Range(mail[b])
           /\ \A d \in CallIds \ {c} : ToCaller'[d] = ToCaller[d] /\ ToCallee'[d] = ToCallee[d]
           /\ a = Caller[c] => /\ ToCaller[c] = ToCaller'[c] \cup {Signal(x)}
                               /\ ToCallee'[c] = ToCallee[c]
           /\ a = Callee(c) => /\ ToCallee[c] = ToCallee'[c] \cup {Signal(x)}
                               /\ ToCaller'[c] = ToCaller[c]
  <1> DEFINE x == Head(mail[a])
  <1>1. mail[a] \in Seq(Sent) /\ mail'[a] = Tail(mail[a])
        /\ \A b \in Addrs \ {a} : mail'[b] = mail[b]
    BY DEF CallsTypes
  <1>2. /\ x \in Sent /\ x \in Range(mail[a]) /\ mail'[a] \in Seq(Sent)
        /\ Range(mail[a]) = {x} \cup Range(mail'[a])
    BY <1>1, RangeTail
  <1>3. mail' \in [Addrs -> Seq(Sent)]
    BY <1>1, <1>2 DEF CallsTypes
  <1>4. \A d : Told(Range(mail[a]), d) = Told({x}, d) \cup Told(Range(mail'[a]), d)
    BY <1>2, ToldMore
  <1>5. Told({x}, c) = {Signal(x)} /\ \A d : d # c => Told({x}, d) = {}
    BY DEF Told
  <1>6. \A d \in CallIds : /\ ToCaller'[d] = Told(Range(mail'[Caller[d]]), d)
                           /\ ToCallee'[d] = Told(Range(mail'[Callee(d)]), d)
                           /\ ToCaller[d] = Told(Range(mail[Caller[d]]), d)
                           /\ ToCallee[d] = Told(Range(mail[Callee(d)]), d)
    BY DEF ToCaller, ToCallee, Callee
  <1>7. \A b \in Addrs : Range(mail'[b]) \subseteq Range(mail[b])
    BY <1>1, <1>2
  <1>8. \A d \in CallIds \ {c}, b \in Addrs : Told(Range(mail'[b]), d) = Told(Range(mail[b]), d)
    <2> TAKE d \in CallIds \ {c}, b \in Addrs
    <2>1. CASE b = a
      BY <1>4, <1>5, <2>1
    <2>2. CASE b # a
      BY <1>1, <2>2
    <2> QED
      BY <2>1, <2>2
  <1>9. \A d \in CallIds \ {c} : ToCaller'[d] = ToCaller[d] /\ ToCallee'[d] = ToCallee[d]
    BY <1>6, <1>8, PhoneAddrs
  <1>a. Caller[c] \in Addrs /\ Callee(c) \in Addrs /\ Caller[c] # Callee(c)
    BY PhoneAddrs
  <1>c. Told(Range(mail[a]), c) = Told(Range(mail'[a]), c) \cup {Signal(x)}
    BY <1>4, <1>5
  <1>10. a = Caller[c] => /\ ToCaller[c] = ToCaller'[c] \cup {Signal(x)}
                          /\ ToCallee'[c] = ToCallee[c]
    BY <1>1, <1>c, <1>6, <1>a
  <1>b. a = Callee(c) => /\ ToCallee[c] = Told(Range(mail[a]), c) /\ ToCallee'[c] = Told(Range(mail'[a]), c)
                         /\ mail'[Caller[c]] = mail[Caller[c]]
    BY <1>1, <1>6, <1>a
  <1>11. a = Callee(c) => /\ ToCallee[c] = ToCallee'[c] \cup {Signal(x)}
                          /\ ToCaller'[c] = ToCaller[c]
    <2> SUFFICES ASSUME a = Callee(c)
                 PROVE  /\ ToCallee[c] = ToCallee'[c] \cup {Signal(x)}
                        /\ ToCaller'[c] = ToCaller[c]
      OBVIOUS
    <2>1. ToCallee[c] = ToCallee'[c] \cup {Signal(x)}
      BY <1>b, <1>c
    <2>2. ToCaller'[c] = ToCaller[c]
      BY <1>b, <1>6
    <2> QED
      BY <2>1, <2>2
  <1> QED
    BY <1>2, <1>3, <1>7, <1>9, <1>10, <1>11

-----------------------------------------------------------------------------
(* What the phones do, in signals *)

\* The next state of a phone in state st that hears x, and what it says.
CallerAnswer(st, x, next, says) ==
    \/ x = "ok" /\ st = "calling" /\ next = "up" /\ says = {"ACK"}
    \/ x = "ok" /\ st = "cancelling" /\ next = "ending" /\ says = {"ACK", "BYE"}
    \/ x = "ok" /\ st \in {"up", "ending"} /\ next = st /\ says = {"ACK"}
    \/ x = "failure" /\ st \in {"calling", "cancelling"} /\ next = "done" /\ says = {"ACK"}
    \/ x \in {"byeOk", "byeFailed"} /\ st = "ending" /\ next = "done" /\ says = {}
    \/ x = "BYE" /\ st = "up" /\ next = "done" /\ says = {"byeOk"}
    \/ x = "BYE" /\ st = "ending" /\ next = st /\ says = {"byeOk"}
    \/ x = "BYE" /\ st \notin {"up", "ending"} /\ next = st /\ says = {"byeFailed"}
    \/ /\ x # "BYE"
       /\ x = "ok" => st \in {"idle", "done"}
       /\ x = "failure" => st \notin {"calling", "cancelling"}
       /\ next = st /\ says = {}

CalleeAnswer(st, x, next, says) ==
    \/ x = "INVITE" /\ st = "idle" /\ next = "alerting" /\ says = {"ringing"}
    \/ x = "ACK" /\ st = "answered" /\ next = "up" /\ says = {}
    \/ x = "CANCEL" /\ st = "alerting" /\ next = "done" /\ says = {"cancelOk", "failure"}
    \/ x = "CANCEL" /\ st = "answered" /\ next = st /\ says = {"cancelOk"}
    \/ x = "CANCEL" /\ st \notin {"alerting", "answered"} /\ next = st /\ says = {"cancelFailed"}
    \/ x = "BYE" /\ st \in {"answered", "up"} /\ next = "done" /\ says = {"byeOk"}
    \/ x = "BYE" /\ st = "ending" /\ next = st /\ says = {"byeOk"}
    \/ x = "BYE" /\ st \in {"idle", "alerting", "done"} /\ next = st /\ says = {"byeFailed"}
    \/ x \in {"byeOk", "byeFailed"} /\ st = "ending" /\ next = "done" /\ says = {}
    \/ /\ x \notin {"CANCEL", "BYE"}
       /\ x = "INVITE" => st # "idle"
       /\ x = "ACK" => st # "answered"
       /\ next = st /\ says = {}

\* Of the messages of which the order matters, a phone sends one at a time.
SentAlone(msgs) ==
    SignalsOf(msgs) \cap {"INVITE", "ringing"} # {} => \E m \in Message : msgs = <<m>>

\* Lists of no, one and two messages.
LEMMA FewMessages ==
    /\ <<>> \in Seq(Message) /\ SignalsOf(<<>>) = {} /\ Range(<<>>) = {}
    /\ \A m \in Message : <<m>> \in Seq(Message) /\ SignalsOf(<<m>>) = {Signal(m)} /\ Range(<<m>>) = {m}
    /\ \A m, n \in Message : /\ <<m, n>> \in Seq(Message)
                             /\ SignalsOf(<<m, n>>) = {Signal(m), Signal(n)} /\ Range(<<m, n>>) = {m, n}
  BY DEF Range, SignalsOf

\* The answers of the phones to what they receive are those above.
LEMMA CallerReaction ==
    ASSUME NEW c \in CallIds, CallsTypes, NEW x \in Sent, Signal(x) \in CallerHears
    PROVE  LET r == CallerReacts(c, x) IN
           /\ r[1] \in CallerStates /\ r[2] \in Seq(Message)
           /\ CallerAnswer(caller[c], Signal(x), r[1], SignalsOf(r[2]))
           /\ SentAlone(r[2])
           /\ SignalsOf(r[2]) \subseteq CallerSays
           /\ \A m \in Range(r[2]) : m.call = c /\ m.src = Caller[c]
  <1> DEFINE r == CallerReacts(c, x)
             st == caller[c]
             ack == Req(c, Caller[c], "ACK")
             bye == Req(c, Caller[c], "BYE")
             byeOk == Resp(c, Caller[c], "ok", "BYE")
             byeFailed == Resp(c, Caller[c], "failure", "BYE")
             Good(next, msgs) ==
                 /\ next \in CallerStates /\ msgs \in Seq(Message)
                 /\ CallerAnswer(st, Signal(x), next, SignalsOf(msgs))
                 /\ SentAlone(msgs)
                 /\ SignalsOf(msgs) \subseteq CallerSays
                 /\ \A m \in Range(msgs) : m.call = c /\ m.src = Caller[c]
  <1> HIDE DEF r, Good
  <1> SUFFICES Good(r[1], r[2])
    BY DEF r, Good, SignalsOf
  <1>1. st \in CallerStates /\ Caller[c] \in Addrs
    BY PhoneAddrs DEF CallsTypes
  <1>2. /\ {ack, bye, byeOk, byeFailed} \subseteq Message
        /\ \A m \in {ack, bye, byeOk, byeFailed} : m.call = c /\ m.src = Caller[c]
        /\ Signal(ack) = "ACK" /\ Signal(bye) = "BYE"
        /\ Signal(byeOk) = "byeOk" /\ Signal(byeFailed) = "byeFailed"
    BY <1>1, Signals DEF Methods, Statuses
  <1>3. CASE Signal(x) = "ok"
    <2>1. x.kind = "response" /\ x.method = "INVITE" /\ x.status = "ok"
      BY <1>3, SignalRead
    <2>2. CASE st = "calling"
      <3>1. r = <<"up", <<ack>>>>
        BY <2>1, <2>2 DEF r, CallerReacts
      <3>2. Good("up", <<ack>>)
        BY <1>1, <1>2, <1>3, <2>2, FewMessages DEF Good, SentAlone, CallerAnswer, CallerStates, CallerSays
      <3> QED
        BY <3>1, <3>2
    <2>3. CASE st = "cancelling"
      <3>1. r = <<"ending", <<ack, bye>>>>
        BY <2>1, <2>3 DEF r, CallerReacts
      <3>2. Good("ending", <<ack, bye>>)
        BY <1>1, <1>2, <1>3, <2>3, FewMessages DEF Good, SentAlone, CallerAnswer, CallerStates, CallerSays
      <3> QED
        BY <3>1, <3>2
    <2>4. CASE st \in {"up", "ending"}
      <3>1. r = <<st, <<ack>>>>
        BY <2>1, <2>4 DEF r, CallerReacts
      <3>2. Good(st, <<ack>>)
        BY <1>1, <1>2, <1>3, <2>4, FewMessages DEF Good, SentAlone, CallerAnswer, CallerStates, CallerSays
      <3> QED
        BY <3>1, <3>2
    <2>5. CASE st \in {"idle", "done"}
      <3>1. r = <<st, <<>>>>
        BY <2>1, <2>5 DEF r, CallerReacts
      <3>2. Good(st, <<>>)
        BY <1>1, <1>2, <1>3, <2>5, FewMessages DEF Good, SentAlone, CallerAnswer, CallerStates, CallerSays
      <3> QED
        BY <3>1, <3>2
    <2> QED
      BY <1>1, <2>2, <2>3, <2>4, <2>5 DEF CallerStates
  <1>4. CASE Signal(x) = "failure"
    <2>1. x.kind = "response" /\ x.method = "INVITE" /\ x.status = "failure"
      BY <1>4, SignalRead
    <2>2. CASE st \in {"calling", "cancelling"}
      <3>1. r = <<"done", <<ack>>>>
        BY <2>1, <2>2 DEF r, CallerReacts
      <3>2. Good("done", <<ack>>)
        BY <1>1, <1>2, <1>4, <2>2, FewMessages DEF Good, SentAlone, CallerAnswer, CallerStates, CallerSays
      <3> QED
        BY <3>1, <3>2
    <2>3. CASE st \notin {"calling", "cancelling"}
      <3>1. r = <<st, <<>>>>
        BY <2>1, <2>3 DEF r, CallerReacts
      <3>2. Good(st, <<>>)
        BY <1>1, <1>2, <1>4, <2>3, FewMessages DEF Good, SentAlone, CallerAnswer, CallerStates, CallerSays
      <3> QED
        BY <3>1, <3>2
    <2> QED
      BY <1>1, <2>2, <2>3 DEF CallerStates
  <1>5. CASE Signal(x) \in {"byeOk", "byeFailed"}
    <2>1. x.kind = "response" /\ x.method = "BYE" /\ x.status \in {"ok", "failure"}
      BY <1>5, SignalRead
    <2>2. CASE st = "ending"
      <3>1. r = <<"done", <<>>>>
        BY <2>1, <2>2 DEF r, CallerReacts
      <3>2. Good("done", <<>>)
        BY <1>1, <1>2, <1>5, <2>2, FewMessages DEF Good, SentAlone, CallerAnswer, CallerStates, CallerSays
      <3> QED
        BY <3>1, <3>2
    <2>3. CASE st # "ending"
      <3>1. r = <<st, <<>>>>
        BY <2>1, <2>3 DEF r, CallerReacts
      <3>2. Good(st, <<>>)
        BY <1>1, <1>2, <1>5, <2>3, FewMessages DEF Good, SentAlone, CallerAnswer, CallerStates, CallerSays
      <3> QED
        BY <3>1, <3>2
    <2> QED
      BY <1>1, <2>2, <2>3 DEF CallerStates
  <1>6. CASE Signal(x) = "BYE"
    <2>1. x.kind = "request" /\ x.method = "BYE"
      BY <1>6, SignalRead
    <2>2. CASE st = "up"
      <3>1. r = <<"done", <<byeOk>>>>
        BY <2>1, <2>2 DEF r, CallerReacts
      <3>2. Good("done", <<byeOk>>)
        BY <1>1, <1>2, <1>6, <2>2, FewMessages DEF Good, SentAlone, CallerAnswer, CallerStates, CallerSays
      <3> QED
        BY <3>1, <3>2
    <2>3. CASE st = "ending"
      <3>1. r = <<st, <<byeOk>>>>
        BY <2>1, <2>3 DEF r, CallerReacts
      <3>2. Good(st, <<byeOk>>)
        BY <1>1, <1>2, <1>6, <2>3, FewMessages DEF Good, SentAlone, CallerAnswer, CallerStates, CallerSays
      <3> QED
        BY <3>1, <3>2
    <2>4. CASE st \notin {"up", "ending"}
      <3>1. r = <<st, <<byeFailed>>>>
        BY <2>1, <2>4 DEF r, CallerReacts
      <3>2. Good(st, <<byeFailed>>)
        BY <1>1, <1>2, <1>6, <2>4, FewMessages DEF Good, SentAlone, CallerAnswer, CallerStates, CallerSays
      <3> QED
        BY <3>1, <3>2
    <2> QED
      BY <1>1, <2>2, <2>3, <2>4 DEF CallerStates
  <1>7. CASE Signal(x) \in {"ringing", "other", "cancelOk", "cancelFailed"}
    <2>1. /\ ~(x.kind = "response" /\ x.status \in {"ok", "failure"} /\ x.method \in {"INVITE", "BYE"})
          /\ ~(x.kind = "request" /\ x.method = "BYE")
      BY <1>7, SignalRead
    <2>2. r = <<st, <<>>>>
      BY <2>1 DEF r, CallerReacts
    <2>3. Good(st, <<>>)
      BY <1>1, <1>7, FewMessages DEF Good, SentAlone, CallerAnswer, CallerSays
    <2> QED
      BY <2>2, <2>3
  <1> QED
    BY <1>3, <1>4, <1>5, <1>6, <1>7 DEF CallerHears

LEMMA CalleeReaction ==
    ASSUME NEW c \in CallIds, CallsTypes, NEW x \in Sent, Signal(x) \in CalleeHears
    PROVE  LET r == CalleeReacts(c, x) IN
           /\ r[1] \in CalleeStates /\ r[2] \in Seq(Message)
           /\ CalleeAnswer(callee[c], Signal(x), r[1], SignalsOf(r[2]))
           /\ SentAlone(r[2])
           /\ SignalsOf(r[2]) \subseteq CalleeSays
           /\ \A m \in Range(r[2]) : m.call = c /\ m.src = Callee(c)
  <1> DEFINE r == CalleeReacts(c, x)
             st == callee[c]
             ringing == Resp(c, Callee(c), "ringing", "INVITE")
             failure == Resp(c, Callee(c), "failure", "INVITE")
             cancelOk == Resp(c, Callee(c), "ok", "CANCEL")
             cancelFailed == Resp(c, Callee(c), "failure", "CANCEL")
             byeOk == Resp(c, Callee(c), "ok", "BYE")
             byeFailed == Resp(c, Callee(c), "failure", "BYE")
             Good(next, msgs) ==
                 /\ next \in CalleeStates /\ msgs \in Seq(Message)
                 /\ CalleeAnswer(st, Signal(x), next, SignalsOf(msgs))
                 /\ SentAlone(msgs)
                 /\ SignalsOf(msgs) \subseteq CalleeSays
                 /\ \A m \in Range(msgs) : m.call = c /\ m.src = Callee(c)
  <1> HIDE DEF r, Good
  <1> SUFFICES Good(r[1], r[2])
    BY DEF r, Good, SignalsOf
  <1>1. st \in CalleeStates /\ Callee(c) \in Addrs
    BY PhoneAddrs DEF CallsTypes
  <1>2. /\ {ringing, failure, cancelOk, cancelFailed, byeOk, byeFailed} \subseteq Message
        /\ \A m \in {ringing, failure, cancelOk, cancelFailed, byeOk, byeFailed} :
              m.call = c /\ m.src = Callee(c)
        /\ Signal(ringing) = "ringing" /\ Signal(failure) = "failure"
        /\ Signal(cancelOk) = "cancelOk" /\ Signal(cancelFailed) = "cancelFailed"
        /\ Signal(byeOk) = "byeOk" /\ Signal(byeFailed) = "byeFailed"
    BY <1>1, Signals DEF Methods, Statuses
  <1>3. CASE Signal(x) = "INVITE"
    <2>1. x.kind = "request" /\ x.method = "INVITE"
      BY <1>3, SignalRead
    <2>2. CASE st = "idle"
      <3>1. r = <<"alerting", <<ringing>>>>
        BY <2>1, <2>2 DEF r, CalleeReacts
      <3>2. Good("alerting", <<ringing>>)
        BY <1>1, <1>2, <1>3, <2>2, FewMessages DEF Good, SentAlone, CalleeAnswer, CalleeStates, CalleeSays
      <3> QED
        BY <3>1, <3>2
    <2>3. CASE st # "idle"
      <3>1. r = <<st, <<>>>>
        BY <2>1, <2>3 DEF r, CalleeReacts
      <3>2. Good(st, <<>>)
        BY <1>1, <1>2, <1>3, <2>3, FewMessages DEF Good, SentAlone, CalleeAnswer, CalleeStates, CalleeSays
      <3> QED
        BY <3>1, <3>2
    <2> QED
      BY <1>1, <2>2, <2>3 DEF CalleeStates
  <1>4. CASE Signal(x) = "ACK"
    <2>1. x.kind = "request" /\ x.method = "ACK"
      BY <1>4, SignalRead
    <2>2. CASE st = "answered"
      <3>1. r = <<"up", <<>>>>
        BY <2>1, <2>2 DEF r, CalleeReacts
      <3>2. Good("up", <<>>)
        BY <1>1, <1>2, <1>4, <2>2, FewMessages DEF Good, SentAlone, CalleeAnswer, CalleeStates, CalleeSays
      <3> QED
        BY <3>1, <3>2
    <2>3. CASE st # "answered"
      <3>1. r = <<st, <<>>>>
        BY <2>1, <2>3 DEF r, CalleeReacts
      <3>2. Good(st, <<>>)
        BY <1>1, <1>2, <1>4, <2>3, FewMessages DEF Good, SentAlone, CalleeAnswer, CalleeStates, CalleeSays
      <3> QED
        BY <3>1, <3>2
    <2> QED
      BY <1>1, <2>2, <2>3 DEF CalleeStates
  <1>5. CASE Signal(x) = "CANCEL"
    <2>1. x.kind = "request" /\ x.method = "CANCEL"
      BY <1>5, SignalRead
    <2>2. CASE st = "alerting"
      <3>1. r = <<"done", <<cancelOk, failure>>>>
        BY <2>1, <2>2 DEF r, CalleeReacts
      <3>2. Good("done", <<cancelOk, failure>>)
        BY <1>1, <1>2, <1>5, <2>2, FewMessages DEF Good, SentAlone, CalleeAnswer, CalleeStates, CalleeSays
      <3> QED
        BY <3>1, <3>2
    <2>3. CASE st = "answered"
      <3>1. r = <<st, <<cancelOk>>>>
        BY <2>1, <2>3 DEF r, CalleeReacts
      <3>2. Good(st, <<cancelOk>>)
        BY <1>1, <1>2, <1>5, <2>3, FewMessages DEF Good, SentAlone, CalleeAnswer, CalleeStates, CalleeSays
      <3> QED
        BY <3>1, <3>2
    <2>4. CASE st \notin {"alerting", "answered"}
      <3>1. r = <<st, <<cancelFailed>>>>
        BY <2>1, <2>4 DEF r, CalleeReacts
      <3>2. Good(st, <<cancelFailed>>)
        BY <1>1, <1>2, <1>5, <2>4, FewMessages DEF Good, SentAlone, CalleeAnswer, CalleeStates, CalleeSays
      <3> QED
        BY <3>1, <3>2
    <2> QED
      BY <1>1, <2>2, <2>3, <2>4 DEF CalleeStates
  <1>6. CASE Signal(x) = "BYE"
    <2>1. x.kind = "request" /\ x.method = "BYE"
      BY <1>6, SignalRead
    <2>2. CASE st \in {"answered", "up"}
      <3>1. r = <<"done", <<byeOk>>>>
        BY <2>1, <2>2 DEF r, CalleeReacts
      <3>2. Good("done", <<byeOk>>)
        BY <1>1, <1>2, <1>6, <2>2, FewMessages DEF Good, SentAlone, CalleeAnswer, CalleeStates, CalleeSays
      <3> QED
        BY <3>1, <3>2
    <2>3. CASE st = "ending"
      <3>1. r = <<st, <<byeOk>>>>
        BY <2>1, <2>3 DEF r, CalleeReacts
      <3>2. Good(st, <<byeOk>>)
        BY <1>1, <1>2, <1>6, <2>3, FewMessages DEF Good, SentAlone, CalleeAnswer, CalleeStates, CalleeSays
      <3> QED
        BY <3>1, <3>2
    <2>4. CASE st \in {"idle", "alerting", "done"}
      <3>1. r = <<st, <<byeFailed>>>>
        BY <2>1, <2>4 DEF r, CalleeReacts
      <3>2. Good(st, <<byeFailed>>)
        BY <1>1, <1>2, <1>6, <2>4, FewMessages DEF Good, SentAlone, CalleeAnswer, CalleeStates, CalleeSays
      <3> QED
        BY <3>1, <3>2
    <2> QED
      BY <1>1, <2>2, <2>3, <2>4 DEF CalleeStates
  <1>7. CASE Signal(x) \in {"byeOk", "byeFailed"}
    <2>1. x.kind = "response" /\ x.method = "BYE"
      BY <1>7, SignalRead
    <2>2. CASE st = "ending"
      <3>1. r = <<"done", <<>>>>
        BY <2>1, <2>2 DEF r, CalleeReacts
      <3>2. Good("done", <<>>)
        BY <1>1, <1>2, <1>7, <2>2, FewMessages DEF Good, SentAlone, CalleeAnswer, CalleeStates, CalleeSays
      <3> QED
        BY <3>1, <3>2
    <2>3. CASE st # "ending"
      <3>1. r = <<st, <<>>>>
        BY <2>1, <2>3 DEF r, CalleeReacts
      <3>2. Good(st, <<>>)
        BY <1>1, <1>2, <1>7, <2>3, FewMessages DEF Good, SentAlone, CalleeAnswer, CalleeStates, CalleeSays
      <3> QED
        BY <3>1, <3>2
    <2> QED
      BY <1>1, <2>2, <2>3 DEF CalleeStates
  <1> QED
    BY <1>3, <1>4, <1>5, <1>6, <1>7 DEF CalleeHears

-----------------------------------------------------------------------------
(* The order of two signals in a queue *)

\* In a queue, a t of the call comes after an s of it.
Follows(q, c, s, t) ==
    \E i, j \in DOMAIN q : /\ i < j /\ q[i].call = c /\ q[j].call = c
                           /\ Signal(q[i]) = s /\ Signal(q[j]) = t

\* Two signals in order in a queue that grew, lost its first message, or was damaged.
LEMMA FollowsAppend ==
    ASSUME NEW M, NEW q \in Seq(M), NEW r \in Seq(M), NEW c, NEW s, NEW t, Follows(q \o r, c, s, t)
    PROVE  \/ Follows(q, c, s, t)
           \/ s \in Told(Range(q), c) /\ t \in Told(Range(r), c)
           \/ Follows(r, c, s, t)
  <1> DEFINE p == q \o r
  <1>1. PICK i \in DOMAIN p, j \in DOMAIN p :
             i < j /\ p[i].call = c /\ p[j].call = c /\ Signal(p[i]) = s /\ Signal(p[j]) = t
    BY DEF Follows
  <1>2. /\ Len(q) \in Nat /\ Len(r) \in Nat /\ DOMAIN q = 1..Len(q) /\ DOMAIN r = 1..Len(r)
        /\ DOMAIN p = 1..(Len(q) + Len(r)) /\ i \in Int /\ j \in Int
        /\ \A k \in DOMAIN p : p[k] = IF k <= Len(q) THEN q[k] ELSE r[k - Len(q)]
    OBVIOUS
  <1> HIDE DEF p
  <1>3. CASE j <= Len(q)
    BY <1>1, <1>2, <1>3 DEF Follows
  <1>4. CASE i > Len(q)
    <2> DEFINE k == i - Len(q)
               l == j - Len(q)
    <2>1. k \in DOMAIN r /\ l \in DOMAIN r /\ k < l /\ r[k] = p[i] /\ r[l] = p[j]
      BY <1>1, <1>2, <1>4
    <2> QED
      BY <1>1, <2>1 DEF Follows
  <1>5. CASE i <= Len(q) /\ j > Len(q)
    <2>1. i \in DOMAIN q /\ q[i] = p[i] /\ j - Len(q) \in DOMAIN r /\ r[j - Len(q)] = p[j]
      BY <1>1, <1>2, <1>5
    <2>2. p[i] \in Range(q) /\ p[j] \in Range(r)
      BY <2>1 DEF Range
    <2> QED
      BY <1>1, <2>2 DEF Told
  <1> QED
    BY <1>2, <1>3, <1>4, <1>5

LEMMA FollowsTail ==
    ASSUME NEW M, NEW q \in Seq(M), q # <<>>, NEW c, NEW s, NEW t
    PROVE  /\ Follows(Tail(q), c, s, t) => Follows(q, c, s, t)
           /\ /\ ~Follows(q, c, s, t)
              /\ Head(q).call = c /\ Signal(Head(q)) = s
              => t \notin Told(Range(Tail(q)), c)
  <1>1. /\ Len(q) \in Nat /\ Len(q) >= 1 /\ DOMAIN q = 1..Len(q)
        /\ DOMAIN Tail(q) = 1..(Len(q) - 1)
        /\ \A i \in 1..(Len(q) - 1) : Tail(q)[i] = q[i + 1]
        /\ Head(q) = q[1]
    OBVIOUS
  <1>2. \A i \in DOMAIN Tail(q) : /\ i \in Int /\ i >= 1
                                  /\ i + 1 \in DOMAIN q /\ Tail(q)[i] = q[i + 1]
    BY <1>1
  <1>3. ASSUME Follows(Tail(q), c, s, t)
        PROVE  Follows(q, c, s, t)
    <2>1. PICK i \in DOMAIN Tail(q), j \in DOMAIN Tail(q) :
               /\ i < j /\ Tail(q)[i].call = c /\ Tail(q)[j].call = c
               /\ Signal(Tail(q)[i]) = s /\ Signal(Tail(q)[j]) = t
      BY <1>3 DEF Follows
    <2>2. i + 1 < j + 1 /\ i + 1 \in DOMAIN q /\ j + 1 \in DOMAIN q
          /\ Tail(q)[i] = q[i + 1] /\ Tail(q)[j] = q[j + 1]
      BY <1>2, <2>1
    <2> QED
      BY <2>1, <2>2 DEF Follows
  <1>4. ASSUME Head(q).call = c, Signal(Head(q)) = s, t \in Told(Range(Tail(q)), c)
        PROVE  Follows(q, c, s, t)
    <2>1. PICK i \in DOMAIN Tail(q) : Tail(q)[i].call = c /\ Signal(Tail(q)[i]) = t
      BY <1>4 DEF Told, Range
    <2>2. 1 \in DOMAIN q /\ i + 1 \in DOMAIN q /\ 1 < i + 1 /\ q[i + 1] = Tail(q)[i]
      BY <1>1, <1>2
    <2> QED
      BY <1>1, <1>4, <2>1, <2>2 DEF Follows
  <1> QED
    BY <1>3, <1>4

LEMMA FollowsFaults ==
    ASSUME NEW M, NEW q \in Seq(M), q # <<>>, NEW c, NEW s, NEW t
    PROVE  /\ s # t => (Follows(Twice(q), c, s, t) => Follows(q, c, s, t))
           /\ Len(q) >= 2 => (Follows(Swapped(q), c, s, s) => Follows(q, c, s, s))
  <1>0. /\ Len(q) \in Nat /\ Len(q) >= 1 /\ DOMAIN q = 1..Len(q) /\ Head(q) = q[1]
    OBVIOUS
  <1>1. ASSUME s # t, Follows(Twice(q), c, s, t)
        PROVE  Follows(q, c, s, t)
    <2> DEFINE p == Twice(q)
    <2>1. PICK i \in DOMAIN p, j \in DOMAIN p :
               i < j /\ p[i].call = c /\ p[j].call = c /\ Signal(p[i]) = s /\ Signal(p[j]) = t
      BY <1>1 DEF Follows
    <2>2. /\ DOMAIN p = 1..(Len(q) + 1) /\ i \in Int /\ j \in Int
          /\ \A k \in DOMAIN p : p[k] = IF k = 1 THEN q[1] ELSE q[k - 1]
      BY <1>0 DEF Twice
    <2> HIDE DEF p
    <2> DEFINE k == IF i = 1 THEN 1 ELSE i - 1
               l == j - 1
    <2>3. k \in DOMAIN q /\ l \in DOMAIN q /\ q[k] = p[i] /\ q[l] = p[j] /\ k <= l
      BY <1>0, <2>1, <2>2
    <2>4. k # l
      BY <1>1, <2>1, <2>3
    <2>5. k < l
      BY <1>0, <2>3, <2>4
    <2> QED
      BY <2>1, <2>3, <2>5 DEF Follows
  <1>2. ASSUME Len(q) >= 2, Follows(Swapped(q), c, s, s)
        PROVE  Follows(q, c, s, s)
    <2> DEFINE p == Swapped(q)
               other(k) == IF k = 1 THEN 2 ELSE IF k = 2 THEN 1 ELSE k
    <2>1. PICK i \in DOMAIN p, j \in DOMAIN p :
               i < j /\ p[i].call = c /\ p[j].call = c /\ Signal(p[i]) = s /\ Signal(p[j]) = s
      BY <1>2 DEF Follows
    <2>2. DOMAIN p = 1..Len(q) /\ \A k \in DOMAIN p : p[k] = q[other(k)]
      BY <1>0, <1>2 DEF Swapped
    <2>a. i \in 1..Len(q) /\ j \in 1..Len(q) /\ i # j
      BY <1>0, <2>1, <2>2
    <2>3. other(i) \in 1..Len(q) /\ other(j) \in 1..Len(q) /\ other(i) # other(j)
      <3>1. i \in Int /\ i >= 1 /\ i <= Len(q) /\ j \in Int /\ j >= 1 /\ j <= Len(q) /\ i # j /\ Len(q) >= 2
        BY <1>0, <1>2, <2>a
      <3>2. other(i) \in Int /\ other(i) >= 1 /\ other(i) <= Len(q)
        BY <1>0, <3>1
      <3>3. other(j) \in Int /\ other(j) >= 1 /\ other(j) <= Len(q)
        BY <1>0, <3>1
      <3>4. other(i) # other(j)
        BY <3>1
      <3> HIDE DEF other
      <3> QED
        BY <1>0, <3>2, <3>3, <3>4
    <2>4. other(i) < other(j) \/ other(j) < other(i)
      <3> HIDE DEF other
      <3> QED
        BY <1>0, <2>3
    <2>5. p[i] = q[other(i)] /\ p[j] = q[other(j)]
      BY <2>2
    <2> HIDE DEF p, other
    <2> QED
      BY <1>0, <2>1, <2>3, <2>4, <2>5 DEF Follows
  <1> QED
    BY <1>1, <1>2

-----------------------------------------------------------------------------
(* A call seen alone *)

\* Two INVITEs in a queue, a 180 behind the 200, and at most one session.
InviteRepeats(c) == Follows(inbox, c, "INVITE", "INVITE")
RingsLate(c) == Follows(inbox, c, "ok", "ringing")
OutRepeats(c) == Follows(mail[Callee(c)], c, "INVITE", "INVITE")
Alone(c) == \A s, t \in SessionsOf(c) : s = t

\* What the steps of other calls, and those of the phones, leave as it is.
SameSessions(c) == Open'[c] = Open[c] /\ (Alone(c) => Alone(c)')

\* After says is added to the messages to the proxy, signals are in an order they were
\* not in before only if one of them is new and the other was there.
OrderKept(c, says) ==
    /\ InviteRepeats(c)' => InviteRepeats(c) \/ ("INVITE" \in says /\ "INVITE" \in FromCaller[c])
    /\ RingsLate(c)' => RingsLate(c) \/ ("ringing" \in says /\ "ok" \in FromCallee[c])

\* A step of another call.
Untouched(c) ==
    /\ caller'[c] = caller[c] /\ callee'[c] = callee[c]
    /\ FromCaller'[c] = FromCaller[c] /\ FromCallee'[c] = FromCallee[c]
    /\ ToCaller'[c] = ToCaller[c] /\ ToCallee'[c] = ToCallee[c]
    /\ OrderKept(c, {}) /\ (OutRepeats(c)' => OutRepeats(c))
    /\ SameSessions(c)
    /\ faults' = faults

\* A phone moves to state next and says something; the rest of its call stays.
CallerSends(c, next, says) ==
    /\ caller'[c] = next /\ callee'[c] = callee[c]
    /\ CallerAdds(c, says)
    /\ ToCallee'[c] = ToCallee[c]
    /\ OrderKept(c, says) /\ (OutRepeats(c)' => OutRepeats(c))
    /\ SameSessions(c)
    /\ faults' = faults

CalleeSends(c, next, says) ==
    /\ callee'[c] = next /\ caller'[c] = caller[c]
    /\ CalleeAdds(c, says)
    /\ ToCaller'[c] = ToCaller[c]
    /\ OrderKept(c, says) /\ (OutRepeats(c)' => OutRepeats(c))
    /\ SameSessions(c)
    /\ faults' = faults

\* A phone takes the first message of its mail.
Reads(c, a) ==
    /\ mail[a] # <<>> /\ Head(mail[a]).call = c
    /\ mail' = [mail EXCEPT ![a] = Tail(@)]

\* Every message of the call to the proxy is from one of its phones.
LEMMA InboxSignals ==
    ASSUME PhonesInv, NEW c \in CallIds
    PROVE  /\ Told(Range(inbox), c) = FromCaller[c] \cup FromCallee[c]
           /\ FromCaller[c] \subseteq CallerSays /\ FromCallee[c] \subseteq CalleeSays
  <1>1. \A m \in Range(inbox) : SentByPhone(m)
    BY DEF PhonesInv, OwnMessages
  <1>2. Told(Range(inbox), c) = FromCaller[c] \cup FromCallee[c]
    BY <1>1 DEF SentByPhone, Told, Said, FromCaller, FromCallee
  <1> QED
    BY <1>1, <1>2, PhoneAddrs DEF SentByPhone, Said, FromCaller, FromCallee

\* What a phone adds to the queue to the proxy keeps the order of signals.
LEMMA PhoneQueue ==
    ASSUME PhonesInv, NEW c \in CallIds, NEW msgs \in Seq(Message), SentAlone(msgs),
           \A m \in Range(msgs) : m.call = c,
           inbox' = inbox \o msgs
    PROVE  /\ OrderKept(c, SignalsOf(msgs))
           /\ \A d \in CallIds \ {c} : OrderKept(d, {})
  <1>1. inbox \in Seq(Message)
    BY DEF PhonesInv, CallsTypes
  <1>2. Told(Range(msgs), c) = SignalsOf(msgs) /\ \A d : d # c => Told(Range(msgs), d) = {}
    BY DEF Told, SignalsOf
  <1>3. ASSUME NEW d \in CallIds, NEW s, NEW t, Follows(msgs, d, s, t)
        PROVE  d = c /\ t \notin {"INVITE", "ringing"}
    <2>1. PICK i \in DOMAIN msgs, j \in DOMAIN msgs :
               i < j /\ msgs[j].call = d /\ Signal(msgs[j]) = t
      BY <1>3 DEF Follows
    <2>2. msgs[j] \in Range(msgs)
      BY DEF Range
    <2>3. d = c /\ t \in SignalsOf(msgs)
      BY <2>1, <2>2 DEF SignalsOf
    <2>4. \A m \in Message : msgs # <<m>>
      BY <2>1
    <2> QED
      BY <2>3, <2>4 DEF SentAlone
  <1>4. ASSUME NEW d \in CallIds, NEW s, NEW t \in {"INVITE", "ringing"}, Follows(inbox', d, s, t)
        PROVE  \/ Follows(inbox, d, s, t)
               \/ d = c /\ s \in Told(Range(inbox), d) /\ t \in SignalsOf(msgs)
    <2>1. \/ Follows(inbox, d, s, t)
          \/ s \in Told(Range(inbox), d) /\ t \in Told(Range(msgs), d)
          \/ Follows(msgs, d, s, t)
      BY <1>1, <1>4, FollowsAppend
    <2> QED
      BY <1>2, <1>3, <2>1
  <1>5. \A d \in CallIds : /\ "INVITE" \in Told(Range(inbox), d) => "INVITE" \in FromCaller[d]
                           /\ "ok" \in Told(Range(inbox), d) => "ok" \in FromCallee[d]
    BY InboxSignals DEF CallerSays, CalleeSays
  <1> QED
    BY <1>4, <1>5 DEF OrderKept, InviteRepeats, RingsLate

\* What a phone that reads, or does not, leaves in the mail.
LEMMA MailReads ==
    ASSUME PhonesInv, NEW c \in CallIds, NEW a \in Addrs, mail' = mail \/ Reads(c, a)
    PROVE  /\ mail' \in [Addrs -> Seq(Sent)]
           /\ \A b \in Addrs : Range(mail'[b]) \subseteq Range(mail[b])
           /\ \A d \in CallIds : OutRepeats(d)' => OutRepeats(d)
           /\ \A d \in CallIds \ {c} : ToCaller'[d] = ToCaller[d] /\ ToCallee'[d] = ToCallee[d]
           /\ a = Caller[c] => ToCallee'[c] = ToCallee[c]
           /\ a = Callee(c) => ToCaller'[c] = ToCaller[c]
  <1>1. CallsTypes /\ \A d \in CallIds : Callee(d) \in Addrs
    BY PhoneAddrs DEF PhonesInv
  <1>2. CASE mail' = mail
    <2>1. ToCaller' = ToCaller /\ ToCallee' = ToCallee
      BY <1>2 DEF ToCaller, ToCallee, Callee
    <2>2. \A d \in CallIds : OutRepeats(d)' => OutRepeats(d)
      BY <1>2 DEF OutRepeats, Callee
    <2> QED
      BY <1>1, <1>2, <2>1, <2>2 DEF CallsTypes
  <1>3. CASE Reads(c, a)
    <2>1. \A d \in CallIds : OutRepeats(d)' => OutRepeats(d)
      <3> TAKE d \in CallIds
      <3>1. mail[Callee(d)] \in Seq(Sent) /\ mail[a] \in Seq(Sent) /\ mail[a] # <<>>
        BY <1>1, <1>3 DEF CallsTypes, Reads
      <3>2. mail'[Callee(d)] = mail[Callee(d)] \/ (a = Callee(d) /\ mail'[Callee(d)] = Tail(mail[a]))
        BY <1>1, <1>3 DEF CallsTypes, Reads
      <3>3. OutRepeats(d)' <=> Follows(mail'[Callee(d)], d, "INVITE", "INVITE")
        BY DEF OutRepeats, Callee
      <3> QED
        BY <3>1, <3>2, <3>3, FollowsTail DEF OutRepeats
    <2> QED
      BY <1>1, <1>3, <2>1, PhoneReads DEF Reads
  <1> QED
    BY <1>2, <1>3

\* Everything a step of a phone does except to the state of that phone.
LEMMA PhoneMoves ==
    ASSUME PhonesInv, NEW c \in CallIds, NEW a \in {Caller[c], Callee(c)},
           NEW msgs \in Seq(Message), SentAlone(msgs),
           \A m \in Range(msgs) : m.call = c /\ m.src = a /\ SentByPhone(m),
           Send(msgs), mail' = mail \/ Reads(c, a),
           caller' \in [CallIds -> CallerStates], callee' \in [CallIds -> CalleeStates]
    PROVE  /\ PhonesInv'
           /\ faults' = faults
           /\ \A d \in CallIds : SameSessions(d)
           /\ OrderKept(c, SignalsOf(msgs))
           /\ \A d \in CallIds \ {c} :
                caller'[d] = caller[d] /\ callee'[d] = callee[d] => Untouched(d)
           /\ OutRepeats(c)' => OutRepeats(c)
           /\ a = Caller[c] => CallerAdds(c, SignalsOf(msgs))
           /\ a = Caller[c] => ToCallee'[c] = ToCallee[c]
           /\ a = Callee(c) => CalleeAdds(c, SignalsOf(msgs))
           /\ a = Callee(c) => ToCaller'[c] = ToCaller[c]
  <1>1. /\ ProxyInv /\ CallsTypes /\ OwnSessions /\ OwnMessages /\ a \in Addrs
        /\ inbox' = inbox \o msgs /\ out' = <<>>
        /\ UNCHANGED <<sessions, exported, faults>>
    BY PhoneAddrs DEF PhonesInv, Send
  <1>2. ProxyInv' /\ OwnSessions'
    BY <1>1 DEF ProxyInv, TypeOK, TableAtRest, ExportCurrent, OwnSessions, Callee
  <1>3. \A d \in CallIds : SameSessions(d)
    BY <1>1 DEF SameSessions, Alone, Open, SessionsOf
  <1>4. /\ inbox' \in Seq(Message)
        /\ \A m \in Range(inbox') : m \in Range(inbox) \/ m \in Range(msgs)
        /\ \A d \in CallIds \ {c} : FromCaller'[d] = FromCaller[d] /\ FromCallee'[d] = FromCallee[d]
        /\ a = Caller[c] => CallerAdds(c, SignalsOf(msgs))
        /\ a = Callee(c) => CalleeAdds(c, SignalsOf(msgs))
    <2>1. \A m \in Range(msgs) : m.call = c /\ m.src = a
      OBVIOUS
    <2>2. CallsTypes /\ inbox' = inbox \o msgs /\ c \in CallIds /\ msgs \in Seq(Message)
      BY <1>1
    <2>3. \A m \in Range(inbox') : m \in Range(inbox) \/ m \in Range(msgs)
      BY <2>1, <2>2, PhoneSends
    <2>4. inbox' \in Seq(Message)
      BY <2>1, <2>2, PhoneSends
    <2>5. \A d \in CallIds \ {c} : FromCaller'[d] = FromCaller[d] /\ FromCallee'[d] = FromCallee[d]
      BY <2>1, <2>2, PhoneSends
    <2>6. a = Caller[c] => CallerAdds(c, SignalsOf(msgs))
      BY <2>1, <2>2, PhoneSends
    <2>7. a = Callee(c) => CalleeAdds(c, SignalsOf(msgs))
      BY <2>1, <2>2, PhoneSends
    <2> QED
      BY <2>3, <2>4, <2>5, <2>6, <2>7
  <1>5. OrderKept(c, SignalsOf(msgs)) /\ \A d \in CallIds \ {c} : OrderKept(d, {})
    BY <1>1, PhoneQueue
  <1>6. CallsTypes'
    BY <1>1, <1>4, MailReads DEF CallsTypes
  <1>7. OwnMessages'
    <2>1. \A m \in Range(inbox') : SentByPhone(m)
      BY <1>1, <1>4 DEF OwnMessages
    <2>2. \A b \in Addrs : \A x \in Range(mail'[b]) : ForPhone(b, x)
      BY <1>1, MailReads DEF OwnMessages
    <2> QED
      BY <2>1, <2>2 DEF OwnMessages, SentByPhone, ForPhone, Callee
  <1>8. ASSUME NEW d \in CallIds \ {c}, caller'[d] = caller[d], callee'[d] = callee[d]
        PROVE  Untouched(d)
    BY <1>1, <1>3, <1>4, <1>5, <1>8, MailReads DEF Untouched
  <1> QED
    BY <1>1, <1>2, <1>3, <1>4, <1>5, <1>6, <1>7, <1>8, MailReads DEF PhonesInv

-----------------------------------------------------------------------------
(* The steps of the two phones *)

\* No signal of the call is in flight: what Quiet means here.
Silent(c) ==
    FromCaller[c] = {} /\ FromCallee[c] = {} /\ ToCaller[c] = {} /\ ToCallee[c] = {}

\* What a phone does by itself, in signals: its state, the next one, what it sends.
CallerTurns(c, next, says) ==
    \/ caller[c] = "idle" /\ next = "calling" /\ says = {"INVITE"}
    \/ caller[c] = "calling" /\ next = "cancelling" /\ says = {"CANCEL"}
    \/ caller[c] = "up" /\ next = "ending" /\ says = {"BYE"}
    \/ /\ caller[c] \in {"calling", "cancelling", "ending"}
       /\ Silent(c) /\ callee[c] \notin {"alerting", "answered"}
       /\ next = "done" /\ says = {}

CalleeTurns(c, next, says) ==
    \/ callee[c] = "alerting" /\ next = "answered" /\ says = {"ok"}
    \/ callee[c] = "alerting" /\ next = "done" /\ says = {"failure"}
    \/ callee[c] = "up" /\ next = "ending" /\ says = {"BYE"}
    \/ callee[c] = "answered" /\ Silent(c) /\ next = "ending" /\ says = {"BYE"}
    \/ callee[c] = "ending" /\ Silent(c) /\ next = "done" /\ says = {}

\* A phone acts by itself, or on a signal it received.
CallerActs(c) ==
    \E next \in CallerStates, says \in SUBSET CallerSays :
        /\ CallerTurns(c, next, says)
        /\ CallerSends(c, next, says)
        /\ ToCaller'[c] = ToCaller[c]

CallerHearsOne(c) ==
    \E x \in CallerHears, next \in CallerStates, says \in SUBSET CallerSays :
        /\ ToCaller[c] = ToCaller'[c] \cup {x}
        /\ CallerAnswer(caller[c], x, next, says)
        /\ CallerSends(c, next, says)

CalleeActs(c) ==
    \E next \in CalleeStates, says \in SUBSET CalleeSays :
        /\ CalleeTurns(c, next, says)
        /\ CalleeSends(c, next, says)
        /\ ToCallee'[c] = ToCallee[c]

CalleeHearsOne(c) ==
    \E x \in CalleeHears, next \in CalleeStates, says \in SUBSET CalleeSays :
        /\ ToCallee[c] = ToCallee'[c] \cup {x}
        /\ x = "INVITE" /\ ~OutRepeats(c) => "INVITE" \notin ToCallee'[c]
        /\ CalleeAnswer(callee[c], x, next, says)
        /\ CalleeSends(c, next, says)

PhoneOf(c) == CallerActs(c) \/ CallerHearsOne(c) \/ CalleeActs(c) \/ CalleeHearsOne(c)

\* A phone reads what it may be sent.
LEMMA MailSignals ==
    ASSUME PhonesInv, NEW c \in CallIds
    PROVE  /\ \A x \in Range(mail[Caller[c]]) : x.call = c => Signal(x) \in CallerHears
           /\ \A x \in Range(mail[Callee(c)]) : x.call = c => Signal(x) \in CalleeHears
           /\ ToCaller[c] \subseteq CallerHears /\ ToCallee[c] \subseteq CalleeHears
  <1>1. \A a \in Addrs : \A x \in Range(mail[a]) : ForPhone(a, x)
    BY DEF PhonesInv, OwnMessages
  <1>2. /\ \A x \in Range(mail[Caller[c]]) : x.call = c => Signal(x) \in CallerHears
        /\ \A x \in Range(mail[Callee(c)]) : x.call = c => Signal(x) \in CalleeHears
    BY <1>1, PhoneAddrs DEF ForPhone
  <1> QED
    BY <1>2 DEF Told, ToCaller, ToCallee

LEMMA QuietIsSilent ==
    ASSUME NEW c \in CallIds, Quiet(c)
    PROVE  Silent(c)
  <1>1. \A a \in Addrs : \A x \in Range(mail[a]) : x.call # c
    BY DEF Quiet, About, Range
  <1>2. \A m \in Range(inbox) : m.call # c
    BY DEF Quiet, About, Range
  <1> QED
    BY <1>1, <1>2, PhoneAddrs DEF Silent, FromCaller, FromCallee, ToCaller, ToCallee, Said, Told

\* A step of a phone is one of its call, and of no other.
LEMMA CallerMoves ==
    ASSUME PhonesInv, NEW c \in CallIds, NEW msgs \in Seq(Message), SentAlone(msgs),
           \A m \in Range(msgs) : m.call = c /\ m.src = Caller[c],
           SignalsOf(msgs) \subseteq CallerSays,
           NEW next \in CallerStates, caller' = [caller EXCEPT ![c] = next], callee' = callee,
           Send(msgs), mail' = mail \/ Reads(c, Caller[c])
    PROVE  /\ PhonesInv'
           /\ CallerSends(c, next, SignalsOf(msgs))
           /\ \A d \in CallIds \ {c} : Untouched(d)
  <1>1. \A m \in Range(msgs) : m.call = c /\ m.src = Caller[c] /\ SentByPhone(m)
    BY DEF SentByPhone, SignalsOf
  <1>2. /\ caller' \in [CallIds -> CallerStates] /\ callee' \in [CallIds -> CalleeStates]
        /\ caller'[c] = next /\ callee'[c] = callee[c]
        /\ \A d \in CallIds \ {c} : caller'[d] = caller[d] /\ callee'[d] = callee[d]
    BY DEF PhonesInv, CallsTypes
  <1>3. Caller[c] \in {Caller[c], Callee(c)}
    OBVIOUS
  <1>4. /\ PhonesInv' /\ faults' = faults
        /\ SameSessions(c) /\ OrderKept(c, SignalsOf(msgs)) /\ (OutRepeats(c)' => OutRepeats(c))
        /\ CallerAdds(c, SignalsOf(msgs)) /\ ToCallee'[c] = ToCallee[c]
        /\ \A d \in CallIds \ {c} :
             caller'[d] = caller[d] /\ callee'[d] = callee[d] => Untouched(d)
    BY <1>1, <1>2, <1>3, PhoneMoves
  <1> QED
    BY <1>2, <1>4 DEF CallerSends

LEMMA CalleeMoves ==
    ASSUME PhonesInv, NEW c \in CallIds, NEW msgs \in Seq(Message), SentAlone(msgs),
           \A m \in Range(msgs) : m.call = c /\ m.src = Callee(c),
           SignalsOf(msgs) \subseteq CalleeSays,
           NEW next \in CalleeStates, callee' = [callee EXCEPT ![c] = next], caller' = caller,
           Send(msgs), mail' = mail \/ Reads(c, Callee(c))
    PROVE  /\ PhonesInv'
           /\ CalleeSends(c, next, SignalsOf(msgs))
           /\ \A d \in CallIds \ {c} : Untouched(d)
  <1>1. \A m \in Range(msgs) : m.call = c /\ m.src = Callee(c) /\ SentByPhone(m)
    BY DEF SentByPhone, SignalsOf
  <1>2. /\ caller' \in [CallIds -> CallerStates] /\ callee' \in [CallIds -> CalleeStates]
        /\ callee'[c] = next /\ caller'[c] = caller[c]
        /\ \A d \in CallIds \ {c} : caller'[d] = caller[d] /\ callee'[d] = callee[d]
    BY DEF PhonesInv, CallsTypes
  <1>3. Callee(c) \in {Caller[c], Callee(c)}
    OBVIOUS
  <1>4. /\ PhonesInv' /\ faults' = faults
        /\ SameSessions(c) /\ OrderKept(c, SignalsOf(msgs)) /\ (OutRepeats(c)' => OutRepeats(c))
        /\ CalleeAdds(c, SignalsOf(msgs)) /\ ToCaller'[c] = ToCaller[c]
        /\ \A d \in CallIds \ {c} :
             caller'[d] = caller[d] /\ callee'[d] = callee[d] => Untouched(d)
    BY <1>1, <1>2, <1>3, PhoneMoves
  <1> QED
    BY <1>2, <1>4 DEF CalleeSends

\* One message sent by a phone on its own account.
LEMMA CallerTakesTurn ==
    ASSUME PhonesInv, NEW c \in CallIds, NEW next \in CallerStates,
           NEW w \in {"INVITE", "CANCEL", "BYE"}, CallerTurns(c, next, {w}),
           caller' = [caller EXCEPT ![c] = next], Send(<<Req(c, Caller[c], w)>>),
           UNCHANGED <<callee, mail>>
    PROVE  PhonesInv' /\ PhoneOf(c) /\ \A d \in CallIds \ {c} : Untouched(d)
  <1> DEFINE m == Req(c, Caller[c], w)
  <1>1. m \in Message /\ m.call = c /\ m.src = Caller[c] /\ Signal(m) = w
    BY Signals, PhoneAddrs DEF Methods
  <1>2. /\ <<m>> \in Seq(Message) /\ SignalsOf(<<m>>) = {w} /\ Range(<<m>>) = {m}
        /\ SentAlone(<<m>>)
    BY <1>1, FewMessages DEF SentAlone
  <1> HIDE DEF m
  <1>3. {w} \subseteq CallerSays
    BY DEF CallerSays
  <1>4. Send(<<m>>)
    BY DEF m
  <1>5. PhonesInv' /\ CallerSends(c, next, {w}) /\ \A d \in CallIds \ {c} : Untouched(d)
    BY <1>1, <1>2, <1>3, <1>4, CallerMoves
  <1>6. ToCaller'[c] = ToCaller[c]
    BY DEF ToCaller
  <1> QED
    BY <1>3, <1>5, <1>6 DEF CallerActs, PhoneOf

LEMMA CalleeTakesTurn ==
    ASSUME PhonesInv, NEW c \in CallIds, NEW next \in CalleeStates,
           NEW m \in Message, m.call = c, m.src = Callee(c),
           Signal(m) \in {"ok", "failure", "BYE"}, CalleeTurns(c, next, {Signal(m)}),
           callee' = [callee EXCEPT ![c] = next], Send(<<m>>),
           UNCHANGED <<caller, mail>>
    PROVE  PhonesInv' /\ PhoneOf(c) /\ \A d \in CallIds \ {c} : Untouched(d)
  <1>2. /\ <<m>> \in Seq(Message) /\ SignalsOf(<<m>>) = {Signal(m)} /\ Range(<<m>>) = {m}
        /\ SentAlone(<<m>>)
    BY FewMessages DEF SentAlone
  <1>3. {Signal(m)} \subseteq CalleeSays
    BY DEF CalleeSays
  <1>5. PhonesInv' /\ CalleeSends(c, next, {Signal(m)}) /\ \A d \in CallIds \ {c} : Untouched(d)
    BY <1>2, <1>3, CalleeMoves
  <1>6. ToCallee'[c] = ToCallee[c]
    BY DEF ToCallee, Callee
  <1> QED
    BY <1>3, <1>5, <1>6 DEF CalleeActs, PhoneOf

\* Every step of a phone is one of those four, and leaves the other calls untouched.
LEMMA PhoneStep ==
    ASSUME PhonesInv, NEW c \in CallIds, User(c) \/ Phone(c)
    PROVE  PhonesInv' /\ PhoneOf(c) /\ \A d \in CallIds \ {c} : Untouched(d)
  <1> DEFINE Goal == PhonesInv' /\ PhoneOf(c) /\ \A d \in CallIds \ {c} : Untouched(d)
  <1> HIDE DEF Goal
  <1> SUFFICES Goal
    BY DEF Goal
  <1>0. CallsTypes /\ \A d \in CallIds : Caller[d] \in Addrs /\ Callee(d) \in Addrs
    BY PhoneAddrs DEF PhonesInv
  <1>1. CASE Place(c)
    BY <1>1, CallerTakesTurn DEF Place, CallerTurns, CallerStates, Goal
  <1>2. CASE GiveUpRinging(c)
    BY <1>2, CallerTakesTurn DEF GiveUpRinging, CallerTurns, CallerStates, Goal
  <1>3. CASE CallerHangsUp(c)
    BY <1>3, CallerTakesTurn DEF CallerHangsUp, CallerTurns, CallerStates, Goal
  <1>4. CASE CallerTimesOut(c)
    <2>1. CallerTurns(c, "done", {})
      BY <1>4, QuietIsSilent DEF CallerTimesOut, CallerTurns
    <2>2. SentAlone(<<>>) /\ SignalsOf(<<>>) = {} /\ Range(<<>>) = {} /\ <<>> \in Seq(Message)
      BY FewMessages DEF SentAlone
    <2>3. PhonesInv' /\ CallerSends(c, "done", {}) /\ \A d \in CallIds \ {c} : Untouched(d)
      BY <1>4, <2>2, CallerMoves DEF CallerTimesOut, CallerStates
    <2>4. ToCaller'[c] = ToCaller[c]
      BY <1>4 DEF CallerTimesOut, ToCaller
    <2> QED
      BY <2>1, <2>3, <2>4 DEF CallerActs, PhoneOf, CallerStates, Goal
  <1>5. CASE CallerReceives(c)
    <2> DEFINE a == Caller[c]
               x == Head(mail[a])
               r == CallerReacts(c, x)
    <2>1. /\ mail[a] # <<>> /\ x.call = c /\ Reads(c, a)
          /\ caller' = [caller EXCEPT ![c] = r[1]] /\ Send(r[2]) /\ callee' = callee
      BY <1>5 DEF CallerReceives, Reads
    <2>2. x \in Sent /\ x \in Range(mail[a]) /\ ToCaller[c] = ToCaller'[c] \cup {Signal(x)}
      BY <1>0, <2>1, PhoneReads DEF Reads
    <2>3. Signal(x) \in CallerHears
      BY <2>1, <2>2, MailSignals
    <2> HIDE DEF x
    <2>4. /\ r[1] \in CallerStates /\ r[2] \in Seq(Message) /\ SentAlone(r[2])
          /\ CallerAnswer(caller[c], Signal(x), r[1], SignalsOf(r[2]))
          /\ SignalsOf(r[2]) \subseteq CallerSays
          /\ \A m \in Range(r[2]) : m.call = c /\ m.src = Caller[c]
      BY <1>0, <2>2, <2>3, CallerReaction
    <2> HIDE DEF r
    <2>5. PhonesInv' /\ CallerSends(c, r[1], SignalsOf(r[2])) /\ \A d \in CallIds \ {c} : Untouched(d)
      BY <2>1, <2>4, CallerMoves
    <2>6. CallerHearsOne(c)
      BY <2>2, <2>3, <2>4, <2>5 DEF CallerHearsOne
    <2> QED
      BY <2>5, <2>6 DEF PhoneOf, Goal
  <1>a. \A st \in {"ok", "failure"} :
           LET m == Resp(c, Callee(c), st, "INVITE") IN
           m \in Message /\ m.call = c /\ m.src = Callee(c) /\ Signal(m) = st
    BY <1>0, Signals DEF Methods, Statuses
  <1>b. LET m == Req(c, Callee(c), "BYE") IN
        m \in Message /\ m.call = c /\ m.src = Callee(c) /\ Signal(m) = "BYE"
    BY <1>0, Signals DEF Methods
  <1>6. CASE Answers(c)
    <2> DEFINE m == Resp(c, Callee(c), "ok", "INVITE")
    <2>1. m \in Message /\ m.call = c /\ m.src = Callee(c) /\ Signal(m) = "ok"
      BY <1>a
    <2>2. CalleeTurns(c, "answered", {"ok"})
      BY <1>6 DEF Answers, CalleeTurns
    <2>3. Send(<<m>>) /\ callee' = [callee EXCEPT ![c] = "answered"] /\ UNCHANGED <<caller, mail>>
      BY <1>6 DEF Answers
    <2> HIDE DEF m
    <2> QED
      BY <2>1, <2>2, <2>3, CalleeTakesTurn DEF CalleeStates, Goal
  <1>7. CASE Declines(c)
    <2> DEFINE m == Resp(c, Callee(c), "failure", "INVITE")
    <2>1. m \in Message /\ m.call = c /\ m.src = Callee(c) /\ Signal(m) = "failure"
      BY <1>a
    <2>2. CalleeTurns(c, "done", {"failure"})
      BY <1>7 DEF Declines, CalleeTurns
    <2>3. Send(<<m>>) /\ callee' = [callee EXCEPT ![c] = "done"] /\ UNCHANGED <<caller, mail>>
      BY <1>7 DEF Declines
    <2> HIDE DEF m
    <2> QED
      BY <2>1, <2>2, <2>3, CalleeTakesTurn DEF CalleeStates, Goal
  <1>8. CASE CalleeHangsUp(c)
    <2> DEFINE m == Req(c, Callee(c), "BYE")
    <2>1. m \in Message /\ m.call = c /\ m.src = Callee(c) /\ Signal(m) = "BYE"
      BY <1>b
    <2>2. CalleeTurns(c, "ending", {"BYE"})
      BY <1>8 DEF CalleeHangsUp, CalleeTurns
    <2>3. Send(<<m>>) /\ callee' = [callee EXCEPT ![c] = "ending"] /\ UNCHANGED <<caller, mail>>
      BY <1>8 DEF CalleeHangsUp
    <2> HIDE DEF m
    <2> QED
      BY <2>1, <2>2, <2>3, CalleeTakesTurn DEF CalleeStates, Goal
  <1>9. CASE AckTimesOut(c)
    <2> DEFINE m == Req(c, Callee(c), "BYE")
    <2>1. m \in Message /\ m.call = c /\ m.src = Callee(c) /\ Signal(m) = "BYE"
      BY <1>b
    <2>2. CalleeTurns(c, "ending", {"BYE"})
      BY <1>9, QuietIsSilent DEF AckTimesOut, CalleeTurns
    <2>3. Send(<<m>>) /\ callee' = [callee EXCEPT ![c] = "ending"] /\ UNCHANGED <<caller, mail>>
      BY <1>9 DEF AckTimesOut
    <2> HIDE DEF m
    <2> QED
      BY <2>1, <2>2, <2>3, CalleeTakesTurn DEF CalleeStates, Goal
  <1>10. CASE CalleeTimesOut(c)
    <2>1. CalleeTurns(c, "done", {})
      BY <1>10, QuietIsSilent DEF CalleeTimesOut, CalleeTurns
    <2>2. SentAlone(<<>>) /\ SignalsOf(<<>>) = {} /\ Range(<<>>) = {} /\ <<>> \in Seq(Message)
      BY FewMessages DEF SentAlone
    <2>3. PhonesInv' /\ CalleeSends(c, "done", {}) /\ \A d \in CallIds \ {c} : Untouched(d)
      BY <1>10, <2>2, CalleeMoves DEF CalleeTimesOut, CalleeStates
    <2>4. ToCallee'[c] = ToCallee[c]
      BY <1>10 DEF CalleeTimesOut, ToCallee, Callee
    <2> QED
      BY <2>1, <2>3, <2>4 DEF CalleeActs, PhoneOf, CalleeStates, Goal
  <1>11. CASE CalleeReceives(c)
    <2> DEFINE a == Callee(c)
               x == Head(mail[a])
               r == CalleeReacts(c, x)
    <2>1. /\ mail[a] # <<>> /\ x.call = c /\ Reads(c, a)
          /\ callee' = [callee EXCEPT ![c] = r[1]] /\ Send(r[2]) /\ caller' = caller
      BY <1>11 DEF CalleeReceives, Reads
    <2>2. x \in Sent /\ x \in Range(mail[a]) /\ ToCallee[c] = ToCallee'[c] \cup {Signal(x)}
      BY <1>0, <2>1, PhoneReads DEF Reads
    <2>3. Signal(x) \in CalleeHears
      BY <2>1, <2>2, MailSignals
    <2>a. Signal(x) = "INVITE" /\ ~OutRepeats(c) => "INVITE" \notin ToCallee'[c]
      <3>1. mail[a] \in Seq(Sent) /\ mail'[a] = Tail(mail[a])
        BY <1>0, <2>1 DEF Reads, CallsTypes
      <3>2. ToCallee'[c] = Told(Range(mail'[a]), c)
        BY DEF ToCallee, Callee
      <3> QED
        BY <2>1, <3>1, <3>2, FollowsTail DEF OutRepeats
    <2> HIDE DEF x
    <2>4. /\ r[1] \in CalleeStates /\ r[2] \in Seq(Message) /\ SentAlone(r[2])
          /\ CalleeAnswer(callee[c], Signal(x), r[1], SignalsOf(r[2]))
          /\ SignalsOf(r[2]) \subseteq CalleeSays
          /\ \A m \in Range(r[2]) : m.call = c /\ m.src = Callee(c)
      BY <1>0, <2>2, <2>3, CalleeReaction
    <2> HIDE DEF r
    <2>5. PhonesInv' /\ CalleeSends(c, r[1], SignalsOf(r[2])) /\ \A d \in CallIds \ {c} : Untouched(d)
      BY <2>1, <2>4, CalleeMoves
    <2>6. CalleeHearsOne(c)
      BY <2>2, <2>3, <2>a, <2>4, <2>5 DEF CalleeHearsOne
    <2> QED
      BY <2>5, <2>6 DEF PhoneOf, Goal
  <1> QED
    BY <1>1, <1>2, <1>3, <1>4, <1>5, <1>6, <1>7, <1>8, <1>9, <1>10, <1>11 DEF User, Phone

-----------------------------------------------------------------------------
(* The faults of the network *)

\* What a fault of the network does to a call.
Loses(c) ==
    /\ faults'.loss # 0
    /\ FromCaller'[c] \subseteq FromCaller[c] /\ FromCallee'[c] \subseteq FromCallee[c]
    /\ ToCaller'[c] \subseteq ToCaller[c] /\ ToCallee'[c] \subseteq ToCallee[c]
    /\ OrderKept(c, {}) /\ (OutRepeats(c)' => OutRepeats(c))

SameSignals(c) ==
    /\ FromCaller'[c] = FromCaller[c] /\ FromCallee'[c] = FromCallee[c]
    /\ ToCaller'[c] = ToCaller[c] /\ ToCallee'[c] = ToCallee[c]

Duplicates(c) ==
    /\ MaxDup # 0 /\ faults'.loss = faults.loss
    /\ SameSignals(c)
    /\ RingsLate(c)' => RingsLate(c)

Swaps(c) ==
    /\ MaxSwap # 0 /\ faults'.loss = faults.loss
    /\ SameSignals(c)
    /\ InviteRepeats(c)' => InviteRepeats(c)
    /\ OutRepeats(c)' => OutRepeats(c)

NetworkOf(c) ==
    /\ caller'[c] = caller[c] /\ callee'[c] = callee[c] /\ SameSessions(c)
    /\ Loses(c) \/ Duplicates(c) \/ Swaps(c)

\* Signals are lost, or stay, with the messages in the queues.
LEMMA QueuesShrink ==
    ASSUME CallsTypes, Range(inbox') \subseteq Range(inbox),
           \A a \in Addrs : Range(mail'[a]) \subseteq Range(mail[a]),
           NEW c \in CallIds
    PROVE  /\ FromCaller'[c] \subseteq FromCaller[c] /\ FromCallee'[c] \subseteq FromCallee[c]
           /\ ToCaller'[c] \subseteq ToCaller[c] /\ ToCallee'[c] \subseteq ToCallee[c]
  <1>1. \A b : Said(Range(inbox'), c, b) \subseteq Said(Range(inbox), c, b)
    BY DEF Said
  <1>2. \A a \in Addrs : Told(Range(mail'[a]), c) \subseteq Told(Range(mail[a]), c)
    BY DEF Told
  <1>3. /\ FromCaller'[c] = Said(Range(inbox'), c, Caller[c]) /\ FromCaller[c] = Said(Range(inbox), c, Caller[c])
        /\ FromCallee'[c] = Said(Range(inbox'), c, Callee(c)) /\ FromCallee[c] = Said(Range(inbox), c, Callee(c))
        /\ ToCaller'[c] = Told(Range(mail'[Caller[c]]), c) /\ ToCaller[c] = Told(Range(mail[Caller[c]]), c)
        /\ ToCallee'[c] = Told(Range(mail'[Callee(c)]), c) /\ ToCallee[c] = Told(Range(mail[Callee(c)]), c)
    BY DEF FromCaller, FromCallee, ToCaller, ToCallee, Callee
  <1> QED
    BY <1>1, <1>2, <1>3, PhoneAddrs

LEMMA QueuesSame ==
    ASSUME CallsTypes, Range(inbox') = Range(inbox),
           \A a \in Addrs : Range(mail'[a]) = Range(mail[a]),
           NEW c \in CallIds
    PROVE  SameSignals(c)
  BY PhoneAddrs DEF SameSignals, FromCaller, FromCallee, ToCaller, ToCallee, Callee

\* A fault changes queues and nothing else.
LEMMA FaultKeeps ==
    ASSUME PhonesInv, UNCHANGED <<sessions, exported, caller, callee>>, out' = <<>>,
           inbox' \in Seq(Message), mail' \in [Addrs -> Seq(Sent)],
           Range(inbox') \subseteq Range(inbox),
           \A a \in Addrs : Range(mail'[a]) \subseteq Range(mail[a]),
           faults' \in [loss : 0..MaxLoss, dup : 0..MaxDup, swap : 0..MaxSwap]
    PROVE  PhonesInv' /\ \A c \in CallIds : SameSessions(c)
  <1>1. ProxyInv' /\ OwnSessions'
    BY DEF PhonesInv, ProxyInv, TypeOK, TableAtRest, ExportCurrent, OwnSessions, Callee
  <1>2. CallsTypes'
    BY DEF PhonesInv, CallsTypes
  <1>3. OwnMessages'
    <2>1. OwnMessages
      BY DEF PhonesInv
    <2>2. \A m \in Range(inbox') : SentByPhone(m)
      BY <2>1 DEF OwnMessages
    <2>3. \A b \in Addrs : \A x \in Range(mail'[b]) : ForPhone(b, x)
      BY <2>1 DEF OwnMessages
    <2> QED
      BY <2>2, <2>3 DEF OwnMessages, SentByPhone, ForPhone, Callee
  <1>4. \A c \in CallIds : SameSessions(c)
    BY DEF SameSessions, Alone, Open, SessionsOf
  <1> QED
    BY <1>1, <1>2, <1>3, <1>4 DEF PhonesInv

\* The three faults lose, repeat and reorder messages of a queue and add none.
LEMMA QueueDamage ==
    ASSUME NEW M, NEW q \in Seq(M), Len(q) >= 1
    PROVE  /\ Tail(q) \in Seq(M) /\ Range(Tail(q)) \subseteq Range(q)
           /\ Twice(q) \in Seq(M) /\ Range(Twice(q)) = Range(q)
           /\ Len(q) >= 2 => Swapped(q) \in Seq(M) /\ Range(Swapped(q)) = Range(q)
  <1>1. q # <<>>
    OBVIOUS
  <1>2. Tail(q) \in Seq(M) /\ Range(Tail(q)) \subseteq Range(q)
    BY <1>1, RangeTail
  <1>3. Twice(q) \in Seq(M) /\ Range(Twice(q)) = Range(q)
    <2>1. Twice(q) \in Seq(M)
      BY <1>1 DEF Twice
    <2>2. /\ Len(q) \in Nat /\ DOMAIN q = 1..Len(q) /\ DOMAIN Twice(q) = 1..(Len(q) + 1)
          /\ \A k \in 1..(Len(q) + 1) : Twice(q)[k] = IF k = 1 THEN q[1] ELSE q[k - 1]
      BY <1>1 DEF Twice
    <2>3. \A k \in DOMAIN q : k + 1 \in DOMAIN Twice(q) /\ Twice(q)[k + 1] = q[k]
      BY <2>2
    <2>4. \A k \in DOMAIN Twice(q) : \E l \in DOMAIN q : Twice(q)[k] = q[l]
      BY <2>2
    <2>5. Range(Twice(q)) = Range(q)
      BY <2>3, <2>4 DEF Range
    <2> QED
      BY <2>1, <2>5
  <1>4. Len(q) >= 2 => Swapped(q) \in Seq(M) /\ Range(Swapped(q)) = Range(q)
    BY DEF Swapped, Range
  <1> QED
    BY <1>2, <1>3, <1>4

\* Each fault is, for every call, a step of the network.
LEMMA LoseStep ==
    ASSUME PhonesInv, Lose
    PROVE  PhonesInv' /\ \A c \in CallIds : NetworkOf(c)
  <1>1. CallsTypes
    BY DEF PhonesInv
  <1>2. /\ UNCHANGED <<sessions, exported, caller, callee>> /\ out' = <<>>
        /\ faults.loss < MaxLoss /\ faults' = [faults EXCEPT !.loss = @ + 1]
    BY DEF Lose, Fault, phones
  <1>3. /\ faults' \in [loss : 0..MaxLoss, dup : 0..MaxDup, swap : 0..MaxSwap]
        /\ faults'.loss # 0
    <2>1. faults \in [loss : 0..MaxLoss, dup : 0..MaxDup, swap : 0..MaxSwap]
      BY <1>1 DEF CallsTypes
    <2>2. faults.loss + 1 \in 0..MaxLoss /\ faults.loss + 1 # 0
      BY <1>2, <2>1, CallsAssumption
    <2> QED
      BY <1>2, <2>1, <2>2
  <1>4. /\ inbox' = inbox \/ (Len(inbox) >= 1 /\ inbox' = Tail(inbox))
        /\ mail' = mail \/ \E a \in Addrs : Len(mail[a]) >= 1 /\ mail' = [mail EXCEPT ![a] = Tail(@)]
    BY DEF Lose, Fault
  <1>5. /\ inbox' \in Seq(Message) /\ Range(inbox') \subseteq Range(inbox)
        /\ \A c \in CallIds : OrderKept(c, {})
    <2>1. inbox \in Seq(Message)
      BY <1>1 DEF CallsTypes
    <2>3. Len(inbox) >= 1 => inbox # <<>>
      BY <2>1
    <2>2. inbox' \in Seq(Message) /\ Range(inbox') \subseteq Range(inbox)
      <3>1. CASE inbox' = inbox
        BY <2>1, <3>1
      <3>2. CASE Len(inbox) >= 1 /\ inbox' = Tail(inbox)
        BY <2>1, <2>3, <3>2, RangeTail
      <3> QED
        BY <1>4, <3>1, <3>2
    <2>4. \A c, s, t : Follows(inbox', c, s, t) => Follows(inbox, c, s, t)
      BY <1>4, <2>1, <2>3, FollowsTail
    <2> QED
      BY <2>2, <2>4 DEF OrderKept, InviteRepeats, RingsLate
  <1>6. /\ mail' \in [Addrs -> Seq(Sent)]
        /\ \A a \in Addrs : Range(mail'[a]) \subseteq Range(mail[a])
        /\ \A c \in CallIds : OutRepeats(c)' => OutRepeats(c)
    <2>1. \A a \in Addrs : mail[a] \in Seq(Sent) /\ (Len(mail[a]) >= 1 => mail[a] # <<>>)
      BY <1>1 DEF CallsTypes
    <2>2. \A a \in Addrs : mail'[a] = mail[a] \/ (Len(mail[a]) >= 1 /\ mail'[a] = Tail(mail[a]))
      BY <1>1, <1>4 DEF CallsTypes
    <2>3. \A a \in Addrs : mail'[a] \in Seq(Sent) /\ Range(mail'[a]) \subseteq Range(mail[a])
      BY <2>1, <2>2, RangeTail
    <2>4. \A a \in Addrs : \A c, s, t : Follows(mail'[a], c, s, t) => Follows(mail[a], c, s, t)
      BY <2>1, <2>2, FollowsTail
    <2>5. mail' \in [Addrs -> Seq(Sent)]
      BY <1>1, <1>4, <2>3 DEF CallsTypes
    <2> QED
      BY <2>3, <2>4, <2>5, PhoneAddrs DEF OutRepeats, Callee
  <1>7. PhonesInv' /\ \A c \in CallIds : SameSessions(c)
    BY <1>2, <1>3, <1>5, <1>6, FaultKeeps
  <1>8. \A c \in CallIds : Loses(c)
    BY <1>1, <1>3, <1>5, <1>6, QueuesShrink DEF Loses
  <1> QED
    BY <1>2, <1>7, <1>8 DEF NetworkOf

LEMMA DuplicateStep ==
    ASSUME PhonesInv, Duplicate
    PROVE  PhonesInv' /\ \A c \in CallIds : NetworkOf(c)
  <1>1. CallsTypes
    BY DEF PhonesInv
  <1>2. /\ UNCHANGED <<sessions, exported, caller, callee>> /\ out' = <<>>
        /\ faults.dup < MaxDup /\ faults' = [faults EXCEPT !.dup = @ + 1]
    BY DEF Duplicate, Fault, phones
  <1>3. /\ faults' \in [loss : 0..MaxLoss, dup : 0..MaxDup, swap : 0..MaxSwap]
        /\ faults'.loss = faults.loss /\ MaxDup # 0
    <2>1. faults \in [loss : 0..MaxLoss, dup : 0..MaxDup, swap : 0..MaxSwap]
      BY <1>1 DEF CallsTypes
    <2>2. faults.dup + 1 \in 0..MaxDup /\ MaxDup # 0
      BY <1>2, <2>1, CallsAssumption
    <2> QED
      BY <1>2, <2>1, <2>2
  <1>4. /\ inbox' = inbox \/ (Len(inbox) >= 1 /\ inbox' = Twice(inbox))
        /\ mail' = mail \/ \E a \in Addrs : Len(mail[a]) >= 1 /\ mail' = [mail EXCEPT ![a] = Twice(@)]
    BY DEF Duplicate, Fault
  <1>5. /\ inbox' \in Seq(Message) /\ Range(inbox') = Range(inbox)
        /\ \A c \in CallIds : RingsLate(c)' => RingsLate(c)
    <2>1. inbox \in Seq(Message) /\ (Len(inbox) >= 1 => Len(inbox) >= 1 /\ inbox # <<>>)
      BY <1>1 DEF CallsTypes
    <2>2. CASE inbox' = inbox
      BY <2>1, <2>2 DEF InviteRepeats, RingsLate
    <2>3. CASE Len(inbox) >= 1 /\ inbox' = Twice(inbox)
      <3>1. inbox' \in Seq(Message) /\ Range(inbox') = Range(inbox)
        BY <2>1, <2>3, QueueDamage
      <3>2. \A c \in CallIds : RingsLate(c)' => RingsLate(c)
        BY <2>1, <2>3, FollowsFaults DEF InviteRepeats, RingsLate
      <3> QED
        BY <3>1, <3>2
    <2> QED
      BY <1>4, <2>2, <2>3
  <1>6. /\ mail' \in [Addrs -> Seq(Sent)]
        /\ \A a \in Addrs : Range(mail'[a]) = Range(mail[a])
    <2>1. \A a \in Addrs : mail[a] \in Seq(Sent) /\ (Len(mail[a]) >= 1 => Len(mail[a]) >= 1 /\ mail[a] # <<>>)
      BY <1>1 DEF CallsTypes
    <2>2. \A a \in Addrs : mail'[a] = mail[a] \/ (Len(mail[a]) >= 1 /\ mail'[a] = Twice(mail[a]))
      BY <1>1, <1>4 DEF CallsTypes
    <2>3. ASSUME NEW a \in Addrs
          PROVE  mail'[a] \in Seq(Sent) /\ Range(mail'[a]) = Range(mail[a])
      <3>1. CASE mail'[a] = mail[a]
        BY <2>1, <3>1
      <3>2. CASE Len(mail[a]) >= 1 /\ mail'[a] = Twice(mail[a])
        BY <2>1, <3>2, QueueDamage
      <3> QED
        BY <2>2, <3>1, <3>2
    <2>5. mail' \in [Addrs -> Seq(Sent)]
      BY <1>1, <1>4, <2>3 DEF CallsTypes
    <2> QED
      BY <2>3, <2>5, PhoneAddrs DEF OutRepeats, Callee
  <1>7. PhonesInv' /\ \A c \in CallIds : SameSessions(c)
    BY <1>2, <1>3, <1>5, <1>6, FaultKeeps
  <1>8. \A c \in CallIds : Duplicates(c)
    BY <1>1, <1>3, <1>5, <1>6, QueuesSame DEF Duplicates
  <1> QED
    BY <1>2, <1>7, <1>8 DEF NetworkOf

LEMMA SwapStep ==
    ASSUME PhonesInv, Swap
    PROVE  PhonesInv' /\ \A c \in CallIds : NetworkOf(c)
  <1>1. CallsTypes
    BY DEF PhonesInv
  <1>2. /\ UNCHANGED <<sessions, exported, caller, callee>> /\ out' = <<>>
        /\ faults.swap < MaxSwap /\ faults' = [faults EXCEPT !.swap = @ + 1]
    BY DEF Swap, Fault, phones
  <1>3. /\ faults' \in [loss : 0..MaxLoss, dup : 0..MaxDup, swap : 0..MaxSwap]
        /\ faults'.loss = faults.loss /\ MaxSwap # 0
    <2>1. faults \in [loss : 0..MaxLoss, dup : 0..MaxDup, swap : 0..MaxSwap]
      BY <1>1 DEF CallsTypes
    <2>2. faults.swap + 1 \in 0..MaxSwap /\ MaxSwap # 0
      BY <1>2, <2>1, CallsAssumption
    <2> QED
      BY <1>2, <2>1, <2>2
  <1>4. /\ inbox' = inbox \/ (Len(inbox) >= 2 /\ inbox' = Swapped(inbox))
        /\ mail' = mail \/ \E a \in Addrs : Len(mail[a]) >= 2 /\ mail' = [mail EXCEPT ![a] = Swapped(@)]
    BY DEF Swap, Fault
  <1>5. /\ inbox' \in Seq(Message) /\ Range(inbox') = Range(inbox)
        /\ \A c \in CallIds : InviteRepeats(c)' => InviteRepeats(c)
    <2>1. inbox \in Seq(Message) /\ (Len(inbox) >= 2 => Len(inbox) >= 1 /\ inbox # <<>>)
      BY <1>1 DEF CallsTypes
    <2>2. CASE inbox' = inbox
      BY <2>1, <2>2 DEF InviteRepeats, RingsLate
    <2>3. CASE Len(inbox) >= 2 /\ inbox' = Swapped(inbox)
      <3>1. inbox' \in Seq(Message) /\ Range(inbox') = Range(inbox)
        BY <2>1, <2>3, QueueDamage
      <3>2. \A c \in CallIds : InviteRepeats(c)' => InviteRepeats(c)
        BY <2>1, <2>3, FollowsFaults DEF InviteRepeats, RingsLate
      <3> QED
        BY <3>1, <3>2
    <2> QED
      BY <1>4, <2>2, <2>3
  <1>6. /\ mail' \in [Addrs -> Seq(Sent)]
        /\ \A a \in Addrs : Range(mail'[a]) = Range(mail[a])
        /\ \A c \in CallIds : OutRepeats(c)' => OutRepeats(c)
    <2>1. \A a \in Addrs : mail[a] \in Seq(Sent) /\ (Len(mail[a]) >= 2 => Len(mail[a]) >= 1 /\ mail[a] # <<>>)
      BY <1>1 DEF CallsTypes
    <2>2. \A a \in Addrs : mail'[a] = mail[a] \/ (Len(mail[a]) >= 2 /\ mail'[a] = Swapped(mail[a]))
      BY <1>1, <1>4 DEF CallsTypes
    <2>3. ASSUME NEW a \in Addrs
          PROVE  mail'[a] \in Seq(Sent) /\ Range(mail'[a]) = Range(mail[a])
      <3>1. CASE mail'[a] = mail[a]
        BY <2>1, <3>1
      <3>2. CASE Len(mail[a]) >= 2 /\ mail'[a] = Swapped(mail[a])
        BY <2>1, <3>2, QueueDamage
      <3> QED
        BY <2>2, <3>1, <3>2
    <2>4. \A a \in Addrs : \A c : Follows(mail'[a], c, "INVITE", "INVITE") => Follows(mail[a], c, "INVITE", "INVITE")
      BY <2>1, <2>2, FollowsFaults
    <2>5. mail' \in [Addrs -> Seq(Sent)]
      BY <1>1, <1>4, <2>3 DEF CallsTypes
    <2> QED
      BY <2>3, <2>4, <2>5, PhoneAddrs DEF OutRepeats, Callee
  <1>7. PhonesInv' /\ \A c \in CallIds : SameSessions(c)
    BY <1>2, <1>3, <1>5, <1>6, FaultKeeps
  <1>8. \A c \in CallIds : Swaps(c)
    BY <1>1, <1>3, <1>5, <1>6, QueuesSame DEF Swaps
  <1> QED
    BY <1>2, <1>7, <1>8 DEF NetworkOf

-----------------------------------------------------------------------------
(* What the proxy takes and what it delivers *)

\* The first message to the proxy is taken off the queue.
LEMMA HeadTaken ==
    ASSUME PhonesInv, NEW m, inbox # <<>>, m = Head(inbox), inbox' = Tail(inbox),
           NEW c, c = m.call
    PROVE  /\ m \in Message /\ c \in CallIds /\ SentByPhone(m)
           /\ inbox' \in Seq(Message)
           /\ \A n \in Range(inbox') : SentByPhone(n)
           /\ \A d \in CallIds : OrderKept(d, {})
           /\ \A d \in CallIds \ {c} : FromCaller'[d] = FromCaller[d] /\ FromCallee'[d] = FromCallee[d]
           /\ m.src = Caller[c] => /\ FromCaller[c] = FromCaller'[c] \cup {Signal(m)}
                                   /\ FromCallee'[c] = FromCallee[c]
           /\ m.src = Callee(c) => /\ FromCallee[c] = FromCallee'[c] \cup {Signal(m)}
                                   /\ FromCaller'[c] = FromCaller[c]
           /\ Signal(m) = "INVITE" /\ ~InviteRepeats(c) => "INVITE" \notin FromCaller'[c]
           /\ Signal(m) = "ok" /\ ~RingsLate(c) => "ringing" \notin FromCallee'[c]
  <1>1. inbox \in Seq(Message) /\ \A n \in Range(inbox) : SentByPhone(n)
    BY DEF PhonesInv, CallsTypes, OwnMessages
  <1>2. /\ m \in Message /\ m \in Range(inbox) /\ inbox' \in Seq(Message)
        /\ Range(inbox) = {m} \cup Range(inbox')
    BY <1>1, RangeTail
  <1>3. c \in CallIds
    BY <1>2, SignalRead
  <1>4. \A d, s, t : Follows(inbox', d, s, t) => Follows(inbox, d, s, t)
    BY <1>1, FollowsTail
  <1>5. \A d, a : Said(Range(inbox), d, a) = Said({m}, d, a) \cup Said(Range(inbox'), d, a)
    BY <1>2, SaidMore
  <1>6. /\ \A d, a : d # c \/ a # m.src => Said(Range(inbox), d, a) = Said(Range(inbox'), d, a)
        /\ Said(Range(inbox), c, m.src) = Said(Range(inbox'), c, m.src) \cup {Signal(m)}
    <2>1. Said({m}, c, m.src) = {Signal(m)}
      BY DEF Said
    <2>2. ASSUME NEW d, NEW a, d # c \/ a # m.src
          PROVE  Said(Range(inbox), d, a) = Said(Range(inbox'), d, a)
      <3>1. Said({m}, d, a) = {}
        BY <2>2 DEF Said
      <3>2. Said(Range(inbox), d, a) = Said({m}, d, a) \cup Said(Range(inbox'), d, a)
        BY <1>5
      <3> QED
        BY <3>1, <3>2
    <2>3. Said(Range(inbox), c, m.src) = Said({m}, c, m.src) \cup Said(Range(inbox'), c, m.src)
      BY <1>5
    <2> QED
      BY <2>1, <2>2, <2>3
  <1>7. \A d \in CallIds : /\ FromCaller'[d] = Said(Range(inbox'), d, Caller[d])
                           /\ FromCallee'[d] = Said(Range(inbox'), d, Callee(d))
                           /\ FromCaller[d] = Said(Range(inbox), d, Caller[d])
                           /\ FromCallee[d] = Said(Range(inbox), d, Callee(d))
    BY DEF FromCaller, FromCallee, Callee
  <1>8. \A d \in CallIds \ {c} : FromCaller'[d] = FromCaller[d] /\ FromCallee'[d] = FromCallee[d]
    BY <1>6, <1>7
  <1>9. Caller[c] # Callee(c)
    BY <1>3, PhoneAddrs
  <1>10. m.src = Caller[c] => /\ FromCaller[c] = FromCaller'[c] \cup {Signal(m)}
                              /\ FromCallee'[c] = FromCallee[c]
    BY <1>3, <1>6, <1>7, <1>9
  <1>11. m.src = Callee(c) => /\ FromCallee[c] = FromCallee'[c] \cup {Signal(m)}
                              /\ FromCaller'[c] = FromCaller[c]
    BY <1>3, <1>6, <1>7, <1>9
  <1>12. /\ FromCaller'[c] \subseteq Told(Range(inbox'), c)
         /\ FromCallee'[c] \subseteq Told(Range(inbox'), c)
    BY <1>3, <1>7 DEF Said, Told
  <1>13. \A s, t : ~Follows(inbox, c, s, t) /\ Signal(m) = s => t \notin Told(Range(inbox'), c)
    BY <1>1, FollowsTail
  <1>14. /\ Signal(m) = "INVITE" /\ ~InviteRepeats(c) => "INVITE" \notin FromCaller'[c]
         /\ Signal(m) = "ok" /\ ~RingsLate(c) => "ringing" \notin FromCallee'[c]
    BY <1>12, <1>13 DEF InviteRepeats, RingsLate
  <1>15. \A d \in CallIds : OrderKept(d, {})
    BY <1>4 DEF OrderKept, InviteRepeats, RingsLate
  <1>16. SentByPhone(m) /\ \A n \in Range(inbox') : SentByPhone(n)
    BY <1>1, <1>2
  <1> QED
    BY <1>2, <1>3, <1>8, <1>10, <1>11, <1>14, <1>15, <1>16

\* The signals sent to address a about call d.
Heard(a, d) == Told({x \in Range(out') : x.to = a}, d)

\* What the proxy sent is delivered at the end of the mail of each address.
LEMMA SentIsDelivered ==
    ASSUME CallsTypes, out' \in Seq(Sent), Len(out') <= 2,
           Len(out') = 2 => Signal(out'[1]) # "INVITE",
           mail' = [a \in Addrs |-> mail[a] \o (Delivered(a, 1) \o Delivered(a, 2))]
    PROVE  /\ mail' \in [Addrs -> Seq(Sent)]
           /\ \A a \in Addrs : Range(mail'[a]) = Range(mail[a]) \cup {x \in Range(out') : x.to = a}
           /\ \A d \in CallIds : /\ ToCaller'[d] = ToCaller[d] \cup Heard(Caller[d], d)
                                 /\ ToCallee'[d] = ToCallee[d] \cup Heard(Callee(d), d)
                                 /\ OutRepeats(d)' => \/ OutRepeats(d)
                                                      \/ /\ "INVITE" \in ToCallee[d]
                                                         /\ "INVITE" \in Heard(Callee(d), d)
  <1> DEFINE New(a) == Delivered(a, 1) \o Delivered(a, 2)
             Mine(a) == {x \in Range(out') : x.to = a}
  <1>1. \A i \in DOMAIN out' : out'[i] \in Sent /\ i \in {1, 2}
    OBVIOUS
  <1>2. ASSUME NEW a
        PROVE  /\ New(a) \in Seq(Sent) /\ Range(New(a)) = Mine(a)
               /\ \A d : ~Follows(New(a), d, "INVITE", "INVITE")
    <2>1. \A i \in {1, 2} : /\ Delivered(a, i) \in Seq(Sent)
                            /\ \/ Delivered(a, i) = <<>> /\ ~(i \in DOMAIN out' /\ out'[i].to = a)
                               \/ Delivered(a, i) = <<out'[i]>> /\ i \in DOMAIN out' /\ out'[i].to = a
      BY <1>1 DEF Delivered
    <2>2. Range(New(a)) = Range(Delivered(a, 1)) \cup Range(Delivered(a, 2))
      BY <2>1, RangeConcatenation
    <2>3. \A i \in {1, 2} : Range(Delivered(a, i)) = {out'[j] : j \in {k \in DOMAIN out' : k = i /\ out'[k].to = a}}
      BY <2>1 DEF Range
    <2>4. Range(New(a)) = Mine(a)
      BY <1>1, <2>2, <2>3 DEF Range
    <2>5. ASSUME NEW d, Follows(New(a), d, "INVITE", "INVITE")
          PROVE  FALSE
      <3>1. PICK i \in DOMAIN New(a), j \in DOMAIN New(a) : i < j /\ Signal(New(a)[i]) = "INVITE"
        BY <2>5 DEF Follows
      <3>2. Delivered(a, 1) = <<out'[1]>> /\ Delivered(a, 2) = <<out'[2]>> /\ 1 \in DOMAIN out' /\ 2 \in DOMAIN out'
        BY <2>1, <3>1
      <3>3. New(a)[i] = out'[1]
        BY <3>1, <3>2
      <3>4. Len(out') = 2
        <4>1. Len(out') \in Nat /\ DOMAIN out' = 1..Len(out')
          OBVIOUS
        <4> QED
          BY <3>2, <4>1
      <3> QED
        BY <3>1, <3>3, <3>4
    <2> QED
      BY <2>1, <2>4, <2>5
  <1>3. \A a \in Addrs : mail[a] \in Seq(Sent) /\ mail'[a] = mail[a] \o New(a)
    BY DEF CallsTypes
  <1> HIDE DEF New
  <1>4. ASSUME NEW a \in Addrs
        PROVE  mail'[a] \in Seq(Sent) /\ Range(mail'[a]) = Range(mail[a]) \cup Mine(a)
    <2>1. mail[a] \in Seq(Sent) /\ New(a) \in Seq(Sent) /\ Range(New(a)) = Mine(a) /\ mail'[a] = mail[a] \o New(a)
      BY <1>2, <1>3
    <2>2. Range(mail[a] \o New(a)) = Range(mail[a]) \cup Range(New(a))
      BY <2>1, RangeConcatenation
    <2>3. mail[a] \o New(a) \in Seq(Sent)
      BY <2>1
    <2> HIDE DEF Mine
    <2> QED
      BY <2>1, <2>2, <2>3
  <1>5. mail' \in [Addrs -> Seq(Sent)]
    BY <1>4
  <1>6. \A d \in CallIds : /\ ToCaller'[d] = Told(Range(mail'[Caller[d]]), d)
                           /\ ToCallee'[d] = Told(Range(mail'[Callee(d)]), d)
                           /\ ToCaller[d] = Told(Range(mail[Caller[d]]), d)
                           /\ ToCallee[d] = Told(Range(mail[Callee(d)]), d)
    BY DEF ToCaller, ToCallee, Callee
  <1>7. \A a \in Addrs : \A d : Told(Range(mail'[a]), d) = Told(Range(mail[a]), d) \cup Heard(a, d)
    <2> TAKE a \in Addrs
    <2> TAKE d
    <2>1. Range(mail'[a]) = Range(mail[a]) \cup Mine(a)
      BY <1>4
    <2>2. Heard(a, d) = Told(Mine(a), d)
      BY DEF Heard
    <2> HIDE DEF Mine
    <2> QED
      BY <2>1, <2>2, ToldMore
  <1>8. \A d \in CallIds : /\ ToCaller'[d] = ToCaller[d] \cup Heard(Caller[d], d)
                           /\ ToCallee'[d] = ToCallee[d] \cup Heard(Callee(d), d)
    <2> TAKE d \in CallIds
    <2>1. Caller[d] \in Addrs /\ Callee(d) \in Addrs
      BY PhoneAddrs
    <2>2. /\ Told(Range(mail'[Caller[d]]), d) = Told(Range(mail[Caller[d]]), d) \cup Heard(Caller[d], d)
          /\ Told(Range(mail'[Callee(d)]), d) = Told(Range(mail[Callee(d)]), d) \cup Heard(Callee(d), d)
      BY <1>7, <2>1
    <2> QED
      BY <1>6, <2>2
  <1>9. ASSUME NEW d \in CallIds, OutRepeats(d)'
        PROVE  OutRepeats(d) \/ ("INVITE" \in ToCallee[d] /\ "INVITE" \in Heard(Callee(d), d))
    <2> DEFINE a == Callee(d)
    <2>1. a \in Addrs /\ Follows(mail'[a], d, "INVITE", "INVITE")
      BY <1>9, PhoneAddrs DEF OutRepeats, Callee
    <2>2. \/ Follows(mail[a], d, "INVITE", "INVITE")
          \/ "INVITE" \in Told(Range(mail[a]), d) /\ "INVITE" \in Told(Range(New(a)), d)
          \/ Follows(New(a), d, "INVITE", "INVITE")
      <3>1. mail[a] \in Seq(Sent) /\ New(a) \in Seq(Sent) /\ Follows(mail[a] \o New(a), d, "INVITE", "INVITE")
        BY <1>2, <1>3, <2>1
      <3> HIDE DEF a
      <3> QED
        BY <3>1, FollowsAppend
    <2> QED
      BY <1>2, <1>6, <2>2 DEF OutRepeats, Heard
  <1> QED
    BY <1>4, <1>5, <1>8, <1>9

-----------------------------------------------------------------------------
(* What a handler does to the sessions *)

\* What a step does to the sessions of a call: one leaves, one turns to state st,
\* one is opened.  A second session of the call may stand beside it.
Frees(c) ==
    /\ Open[c] # {} /\ Open'[c] \subseteq Open[c]
    /\ Alone(c) => Alone(c)' /\ Open'[c] = {}

Turns(c, st) ==
    /\ Open[c] # {} /\ st \in Open'[c] /\ Open'[c] \subseteq Open[c] \cup {st}
    /\ Alone(c) => Alone(c)' /\ Open'[c] = {st}

Opens(c) ==
    /\ Open'[c] = Open[c] \cup {"INVITE_SENT"}
    /\ Open[c] = {} => Alone(c)'

\* The sessions of every other call are as they were, and every session keeps the
\* addresses of its call.
OthersSame(c) == OwnSessions' /\ \A d \in CallIds \ {c} : SameSessions(d)

\* The four effects on the table, seen from one call.
LEMMA SessionsKept ==
    ASSUME PhonesInv, NEW c \in CallIds, Keep
    PROVE  SameSessions(c) /\ OthersSame(c)
  <1>1. OwnSessions'
    BY DEF PhonesInv, OwnSessions, Keep, Callee
  <1> QED
    BY <1>1 DEF OthersSame, SameSessions, Alone, Open, SessionsOf, Keep

LEMMA SessionFreed ==
    ASSUME PhonesInv, NEW c \in CallIds, NEW s \in SessionsOf(c), Terminate(s)
    PROVE  Frees(c) /\ OthersSame(c)
  <1>1. /\ sessions \in [Slots -> Session] /\ OwnSessions
        /\ sessions' = [sessions EXCEPT ![s] = FreeSession]
        /\ s \in Slots /\ sessions[s].inUse /\ sessions[s].call = c
    BY DEF PhonesInv, ProxyInv, TypeOK, Terminate, Commit, SessionsOf
  <1>2. /\ ~sessions'[s].inUse
        /\ \A t \in Slots \ {s} : sessions'[t] = sessions[t]
    BY <1>1 DEF FreeSession
  <1> DEFINE Rest(d) == {t \in Slots : sessions'[t].inUse /\ sessions'[t].call = d}
  <1>3. Rest(c) = SessionsOf(c) \ {s} /\ \A d \in CallIds \ {c} : Rest(d) = SessionsOf(d)
    BY <1>1, <1>2 DEF SessionsOf
  <1>4. \A d \in CallIds : /\ Open[d] = {sessions[t].state : t \in SessionsOf(d)}
                           /\ Open'[d] = {sessions'[t].state : t \in Rest(d)}
                           /\ Alone(d)' <=> \A t, u \in Rest(d) : t = u
    BY DEF Open, Alone, SessionsOf
  <1>5. \A d \in CallIds : \A t \in Rest(d) : sessions'[t] = sessions[t]
    BY <1>2
  <1> HIDE DEF Rest
  <1>6. \A d \in CallIds \ {c} : SameSessions(d)
    <2> SUFFICES ASSUME NEW d \in CallIds \ {c}
                 PROVE  SameSessions(d)
      OBVIOUS
    <2>1. Rest(d) = SessionsOf(d) /\ \A t \in SessionsOf(d) : sessions'[t] = sessions[t]
      BY <1>3, <1>5
    <2>2. Open'[d] = Open[d]
      <3>1. /\ Open[d] = {sessions[t].state : t \in SessionsOf(d)}
            /\ Open'[d] = {sessions'[t].state : t \in SessionsOf(d)}
        BY <1>4, <2>1
      <3> QED
        BY <2>1, <3>1
    <2>3. Alone(d) => Alone(d)'
      BY <1>4, <2>1 DEF Alone
    <2> QED
      BY <2>2, <2>3 DEF SameSessions
  <1>7. Frees(c)
    <2>1. Open[c] # {}
      <3>1. sessions[s].state \in Open[c]
        BY <1>4
      <3> QED
        BY <3>1
    <2>2. Open'[c] \subseteq Open[c]
      BY <1>3, <1>4, <1>5
    <2>3. Alone(c) => Rest(c) = {}
      BY <1>3 DEF Alone
    <2> QED
      BY <1>4, <2>1, <2>2, <2>3 DEF Frees
  <1>8. OwnSessions'
    <2>1. \A t \in Slots : sessions'[t].inUse => sessions'[t] = sessions[t]
      BY <1>2
    <2> QED
      BY <1>1, <2>1 DEF OwnSessions, Callee
  <1> QED
    BY <1>6, <1>7, <1>8 DEF OthersSame

LEMMA SessionTurned ==
    ASSUME PhonesInv, NEW c \in CallIds, NEW s \in SessionsOf(c), NEW st, SetState(s, st)
    PROVE  Turns(c, st) /\ OthersSame(c)
  <1>1. /\ sessions \in [Slots -> Session] /\ OwnSessions
        /\ sessions' = [sessions EXCEPT ![s].state = st]
        /\ s \in Slots /\ sessions[s].inUse /\ sessions[s].call = c
    BY DEF PhonesInv, ProxyInv, TypeOK, SetState, Commit, SessionsOf
  <1>a. sessions'[s] = [sessions[s] EXCEPT !.state = st] /\ sessions[s] \in Session
    BY <1>1
  <1>2. /\ sessions'[s].state = st /\ sessions'[s].inUse = sessions[s].inUse
        /\ sessions'[s].call = sessions[s].call
        /\ sessions'[s].caller = sessions[s].caller /\ sessions'[s].callee = sessions[s].callee
        /\ \A t \in Slots \ {s} : sessions'[t] = sessions[t]
    BY <1>1, <1>a DEF Session
  <1> DEFINE Now(d) == {t \in Slots : sessions'[t].inUse /\ sessions'[t].call = d}
  <1>3. \A d \in CallIds : Now(d) = SessionsOf(d)
    BY <1>1, <1>2 DEF SessionsOf
  <1>4. \A d \in CallIds : /\ Open[d] = {sessions[t].state : t \in SessionsOf(d)}
                           /\ Open'[d] = {sessions'[t].state : t \in Now(d)}
                           /\ Alone(d)' <=> \A t, u \in Now(d) : t = u
    BY DEF Open, Alone, SessionsOf
  <1> HIDE DEF Now
  <1>5. \A d \in CallIds \ {c} : s \notin SessionsOf(d)
    BY <1>1 DEF SessionsOf
  <1>6. \A d \in CallIds \ {c} : SameSessions(d)
    <2> SUFFICES ASSUME NEW d \in CallIds \ {c}
                 PROVE  SameSessions(d)
      OBVIOUS
    <2>1. Now(d) = SessionsOf(d) /\ \A t \in SessionsOf(d) : sessions'[t] = sessions[t]
      BY <1>2, <1>3, <1>5 DEF SessionsOf
    <2>2. Open'[d] = Open[d]
      <3>1. /\ Open[d] = {sessions[t].state : t \in SessionsOf(d)}
            /\ Open'[d] = {sessions'[t].state : t \in SessionsOf(d)}
        BY <1>4, <2>1
      <3> QED
        BY <2>1, <3>1
    <2>3. Alone(d) => Alone(d)'
      BY <1>4, <2>1 DEF Alone
    <2> QED
      BY <2>2, <2>3 DEF SameSessions
  <1>7. Turns(c, st)
    <2>1. \A t \in SessionsOf(c) : sessions'[t].state = IF t = s THEN st ELSE sessions[t].state
      BY <1>2 DEF SessionsOf
    <2>2. Open[c] # {} /\ st \in Open'[c] /\ Open'[c] \subseteq Open[c] \cup {st}
      BY <1>3, <1>4, <2>1
    <2>3. Alone(c) => SessionsOf(c) = {s} /\ Alone(c)'
      BY <1>3, <1>4 DEF Alone
    <2>4. Alone(c) => Open'[c] = {st}
      BY <1>3, <1>4, <2>1, <2>3
    <2> QED
      BY <2>2, <2>3, <2>4 DEF Turns
  <1>8. OwnSessions'
    <2>1. \A t \in Slots : /\ sessions'[t].inUse = sessions[t].inUse
                           /\ sessions'[t].call = sessions[t].call
                           /\ sessions'[t].caller = sessions[t].caller
                           /\ sessions'[t].callee = sessions[t].callee
      BY <1>2
    <2> QED
      BY <1>1, <2>1 DEF OwnSessions, Callee
  <1> QED
    BY <1>6, <1>7, <1>8 DEF OthersSame

LEMMA SessionOpened ==
    ASSUME PhonesInv, NEW c \in CallIds, NEW s \in Slots, ~sessions[s].inUse,
           NEW n, n.inUse, n.call = c, n.caller = Caller[c], n.callee = Callee(c),
           n.state = "INVITE_SENT",
           Commit([sessions EXCEPT ![s] = n])
    PROVE  Opens(c) /\ OthersSame(c)
  <1>1. /\ sessions \in [Slots -> Session] /\ OwnSessions
        /\ sessions' = [sessions EXCEPT ![s] = n]
    BY DEF PhonesInv, ProxyInv, TypeOK, Commit
  <1>2. sessions'[s] = n /\ \A t \in Slots \ {s} : sessions'[t] = sessions[t]
    BY <1>1
  <1> DEFINE Now(d) == {t \in Slots : sessions'[t].inUse /\ sessions'[t].call = d}
  <1>3. /\ Now(c) = SessionsOf(c) \cup {s} /\ s \notin SessionsOf(c)
        /\ \A d \in CallIds \ {c} : Now(d) = SessionsOf(d) /\ s \notin SessionsOf(d)
    BY <1>1, <1>2 DEF SessionsOf
  <1>4. \A d \in CallIds : /\ Open[d] = {sessions[t].state : t \in SessionsOf(d)}
                           /\ Open'[d] = {sessions'[t].state : t \in Now(d)}
                           /\ Alone(d)' <=> \A t, u \in Now(d) : t = u
    BY DEF Open, Alone, SessionsOf
  <1>5. \A d \in CallIds : \A t \in SessionsOf(d) : t # s => sessions'[t] = sessions[t]
    BY <1>2 DEF SessionsOf
  <1> HIDE DEF Now
  <1>6. \A d \in CallIds \ {c} : SameSessions(d)
    <2> SUFFICES ASSUME NEW d \in CallIds \ {c}
                 PROVE  SameSessions(d)
      OBVIOUS
    <2>1. Now(d) = SessionsOf(d) /\ \A t \in SessionsOf(d) : sessions'[t] = sessions[t]
      BY <1>3, <1>5
    <2>2. Open'[d] = Open[d]
      <3>1. /\ Open[d] = {sessions[t].state : t \in SessionsOf(d)}
            /\ Open'[d] = {sessions'[t].state : t \in SessionsOf(d)}
        BY <1>4, <2>1
      <3> QED
        BY <2>1, <3>1
    <2>3. Alone(d) => Alone(d)'
      BY <1>4, <2>1 DEF Alone
    <2> QED
      BY <2>2, <2>3 DEF SameSessions
  <1>7. Opens(c)
    <2>1. Open'[c] = Open[c] \cup {"INVITE_SENT"}
      BY <1>2, <1>3, <1>4, <1>5
    <2>2. Open[c] = {} => SessionsOf(c) = {}
      <3>1. \A t \in SessionsOf(c) : sessions[t].state \in Open[c]
        BY <1>4
      <3> QED
        BY <3>1
    <2> QED
      BY <1>3, <1>4, <2>1, <2>2 DEF Opens
  <1>8. OwnSessions'
    <2>1. \A t \in Slots : sessions'[t] = n \/ sessions'[t] = sessions[t]
      BY <1>2
    <2> QED
      BY <1>1, <2>1 DEF OwnSessions, Callee
  <1> QED
    BY <1>6, <1>7, <1>8 DEF OthersSame

-----------------------------------------------------------------------------
(* What a handler sends *)

\* The signals a handler leaves with the caller and with the callee of a call.
Routes(c, told, heard) ==
    /\ ToCaller'[c] = ToCaller[c] \cup told
    /\ ToCallee'[c] = ToCallee[c] \cup heard
    /\ OutRepeats(c)' => OutRepeats(c) \/ ("INVITE" \in heard /\ "INVITE" \in ToCallee[c])

\* What the messages of a handler must be for that.
Posts(c, told, heard) ==
    /\ Len(out') <= 2
    /\ Len(out') = 2 => Signal(out'[1]) # "INVITE"
    /\ \A x \in Range(out') : x.call = c /\ ForPhone(x.to, x)
    /\ Heard(Caller[c], c) = told
    /\ Heard(Callee(c), c) = heard

\* None, one or two messages sent to the phones of the call.
LEMMA PostsNone ==
    ASSUME NEW c \in CallIds, out' = <<>>
    PROVE  Posts(c, {}, {})
  BY DEF Posts, Heard, Told, Range

LEMMA PostsOne ==
    ASSUME NEW c \in CallIds, NEW x \in Sent, x.call = c, ForPhone(x.to, x), out' = <<x>>
    PROVE  /\ x.to = Caller[c] => Posts(c, {Signal(x)}, {})
           /\ x.to = Callee(c) => Posts(c, {}, {Signal(x)})
  <1>1. Range(out') = {x} /\ Len(out') = 1
    BY DEF Range
  <1>2. Caller[c] # Callee(c)
    BY PhoneAddrs
  <1>3. \A a : Heard(a, c) = IF x.to = a THEN {Signal(x)} ELSE {}
    BY <1>1 DEF Heard, Told
  <1> QED
    BY <1>1, <1>2, <1>3 DEF Posts

LEMMA PostsTwo ==
    ASSUME NEW c \in CallIds, NEW x \in Sent, NEW y \in Sent, x.call = c, y.call = c,
           ForPhone(x.to, x), ForPhone(y.to, y), Signal(x) # "INVITE", out' = <<x, y>>
    PROVE  /\ x.to = Caller[c] /\ y.to = Callee(c) => Posts(c, {Signal(x)}, {Signal(y)})
           /\ x.to = Callee(c) /\ y.to = Caller[c] => Posts(c, {Signal(y)}, {Signal(x)})
           /\ x.to = Callee(c) /\ y.to = Callee(c) => Posts(c, {}, {Signal(x), Signal(y)})
  <1>1. Range(out') = {x, y} /\ Len(out') = 2 /\ out'[1] = x
    BY DEF Range
  <1>2. Caller[c] # Callee(c)
    BY PhoneAddrs
  <1>3. \A a : Heard(a, c) = {Signal(z) : z \in {w \in {x, y} : w.to = a}}
    BY <1>1 DEF Heard, Told
  <1>4. /\ x.to = Caller[c] /\ y.to = Callee(c) => Heard(Caller[c], c) = {Signal(x)} /\ Heard(Callee(c), c) = {Signal(y)}
        /\ x.to = Callee(c) /\ y.to = Caller[c] => Heard(Caller[c], c) = {Signal(y)} /\ Heard(Callee(c), c) = {Signal(x)}
        /\ x.to = Callee(c) /\ y.to = Callee(c) => Heard(Caller[c], c) = {} /\ Heard(Callee(c), c) = {Signal(x), Signal(y)}
    BY <1>2, <1>3
  <1>5. \A z \in Range(out') : z.call = c /\ ForPhone(z.to, z)
    BY <1>1
  <1> QED
    BY <1>1, <1>4, <1>5 DEF Posts

\* What a relayed message and an answer say.
LEMMA Relays ==
    ASSUME NEW m \in Message, NEW to \in Addrs
    PROVE  LET x == Relayed(to, m) IN
           x \in Sent /\ x.to = to /\ x.call = m.call /\ Signal(x) = Signal(m)
  BY DEF Relayed, Message, Requests, Responses, Sent, Signal

LEMMA Replies ==
    ASSUME NEW m \in Requests, NEW st \in Statuses
    PROVE  LET x == Answer(m, st) IN
           /\ x \in Sent /\ x.to = m.src /\ x.call = m.call
           /\ m.method = "INVITE" => Signal(x) = st
           /\ m.method = "BYE" /\ st = "ok" => Signal(x) = "byeOk"
           /\ m.method = "BYE" /\ st = "failure" => Signal(x) = "byeFailed"
           /\ m.method = "CANCEL" /\ st = "ok" => Signal(x) = "cancelOk"
           /\ m.method = "CANCEL" /\ st = "failure" => Signal(x) = "cancelFailed"
  BY DEF Answer, Requests, Sent, Signal

\* A handler that posts signals of one call routes them, and touches no other call.
LEMMA ProxyDelivers ==
    ASSUME PhonesInv, Proxy, ProxyInv', NEW c, c = Head(inbox).call, OthersSame(c),
           NEW told, NEW heard, Posts(c, told, heard)
    PROVE  /\ PhonesInv' /\ Routes(c, told, heard)
           /\ \A d \in CallIds \ {c} : Untouched(d)
  <1>1. /\ inbox # <<>> /\ inbox' = Tail(inbox)
        /\ mail' = [a \in Addrs |-> mail[a] \o (Delivered(a, 1) \o Delivered(a, 2))]
        /\ caller' = caller /\ callee' = callee /\ faults' = faults
    BY DEF Proxy, phones
  <1>2. CallsTypes /\ out' \in Seq(Sent)
    BY DEF PhonesInv, ProxyInv, TypeOK
  <1>3. /\ c \in CallIds /\ inbox' \in Seq(Message) /\ \A n \in Range(inbox') : SentByPhone(n)
        /\ \A d \in CallIds : OrderKept(d, {})
        /\ \A d \in CallIds \ {c} : FromCaller'[d] = FromCaller[d] /\ FromCallee'[d] = FromCallee[d]
    BY <1>1, HeadTaken
  <1>4. /\ mail' \in [Addrs -> Seq(Sent)]
        /\ \A a \in Addrs : Range(mail'[a]) = Range(mail[a]) \cup {x \in Range(out') : x.to = a}
        /\ \A d \in CallIds : /\ ToCaller'[d] = ToCaller[d] \cup Heard(Caller[d], d)
                              /\ ToCallee'[d] = ToCallee[d] \cup Heard(Callee(d), d)
                              /\ OutRepeats(d)' => \/ OutRepeats(d)
                                                   \/ /\ "INVITE" \in ToCallee[d]
                                                      /\ "INVITE" \in Heard(Callee(d), d)
    BY <1>1, <1>2, SentIsDelivered DEF Posts
  <1>5. \A x \in Range(out') : x.call = c /\ ForPhone(x.to, x)
    BY DEF Posts
  <1>6. \A d \in CallIds \ {c} : \A a : Heard(a, d) = {}
    BY <1>5 DEF Heard, Told
  <1>7. Routes(c, told, heard)
    BY <1>3, <1>4 DEF Routes, Posts
  <1>8. ASSUME NEW d \in CallIds \ {c}
        PROVE  Untouched(d)
    <2>1. SameSessions(d)
      BY DEF OthersSame
    <2>2. ToCaller'[d] = ToCaller[d] /\ ToCallee'[d] = ToCallee[d] /\ (OutRepeats(d)' => OutRepeats(d))
      <3>1. Heard(Caller[d], d) = {} /\ Heard(Callee(d), d) = {}
        BY <1>6
      <3> QED
        BY <1>4, <3>1
    <2> QED
      BY <1>1, <1>3, <2>1, <2>2 DEF Untouched
  <1>9. CallsTypes'
    BY <1>1, <1>2, <1>3, <1>4 DEF CallsTypes
  <1>10. \A a \in Addrs : \A x \in Range(mail'[a]) : ForPhone(a, x)
    BY <1>4, <1>5 DEF PhonesInv, OwnMessages
  <1>11. OwnMessages'
    BY <1>3, <1>10 DEF OwnMessages, SentByPhone, ForPhone, Callee
  <1>12. PhonesInv'
    BY <1>9, <1>11 DEF PhonesInv, OthersSame
  <1> QED
    BY <1>7, <1>8, <1>12

-----------------------------------------------------------------------------
(* What the proxy does with a signal *)

\* What the handlers do with a signal of the caller, and with one of the callee.
CallerServed(c, x) ==
    \/ x = "INVITE" /\ Routes(c, {"failure"}, {}) /\ SameSessions(c)
    \/ x = "INVITE" /\ Routes(c, {"other"}, {"INVITE"}) /\ Opens(c)
    \/ x = "BYE" /\ Routes(c, {"byeOk"}, {"BYE"}) /\ Frees(c)
    \/ x = "BYE" /\ Open[c] = {} /\ Routes(c, {"byeFailed"}, {}) /\ SameSessions(c)
    \/ /\ x = "CANCEL" /\ Open[c] \cap {"INVITE_SENT", "RINGING"} # {}
       /\ Routes(c, {"cancelOk"}, {"CANCEL"}) /\ Frees(c)
    \/ x = "CANCEL" /\ Routes(c, {"cancelFailed"}, {}) /\ SameSessions(c)
    \/ x = "ACK" /\ Routes(c, {}, {"ACK"}) /\ SameSessions(c)
    \/ x = "ACK" /\ Routes(c, {}, {}) /\ SameSessions(c)
    \/ x = "byeOk" /\ Routes(c, {"byeOk"}, {}) /\ SameSessions(c)
    \/ x = "byeFailed" /\ Routes(c, {"byeFailed"}, {}) /\ Frees(c)
    \/ x \in {"byeOk", "byeFailed"} /\ Open[c] = {} /\ Routes(c, {}, {}) /\ SameSessions(c)

CalleeServed(c, x) ==
    \/ x = "ringing" /\ Routes(c, {"ringing"}, {}) /\ Turns(c, "RINGING")
    \/ x = "ok" /\ Routes(c, {"ok"}, {}) /\ Turns(c, "ESTABLISHED")
    \/ x \in {"failure", "cancelFailed", "byeFailed"} /\ Routes(c, {x}, {}) /\ Frees(c)
    \/ x \in {"cancelOk", "byeOk"} /\ Routes(c, {x}, {}) /\ SameSessions(c)
    \/ x # "BYE" /\ Open[c] = {} /\ Routes(c, {}, {}) /\ SameSessions(c)
    \/ x = "BYE" /\ Caller[c].port # SipPort /\ Routes(c, {"BYE"}, {"byeOk"}) /\ Frees(c)
    \/ x = "BYE" /\ Caller[c].port = SipPort /\ Routes(c, {}, {"BYE", "byeOk"}) /\ Frees(c)
    \/ x = "BYE" /\ Open[c] = {} /\ Routes(c, {}, {"byeFailed"}) /\ SameSessions(c)

\* A message is served for the phone it came from.
Served(c, m) ==
    \/ m.src = Caller[c] /\ CallerServed(c, Signal(m))
    \/ m.src = Callee(c) /\ CalleeServed(c, Signal(m))

\* The session a message of the call finds.
LEMMA FoundSession ==
    ASSUME PhonesInv, NEW c \in CallIds
    PROVE  /\ \A s \in Slots : Found(s, c) => /\ s \in SessionsOf(c)
                                              /\ sessions[s].caller = Caller[c]
                                              /\ sessions[s].callee = Callee(c)
                                              /\ Open[c] # {}
           /\ NotFound(c) => Open[c] = {}
  <1>1. ASSUME NEW s \in Slots, Found(s, c)
        PROVE  /\ s \in SessionsOf(c) /\ sessions[s].caller = Caller[c]
               /\ sessions[s].callee = Callee(c)
    BY <1>1 DEF Found, SessionsOf, PhonesInv, OwnSessions
  <1>2. Open[c] = {sessions[s].state : s \in SessionsOf(c)}
    BY DEF Open
  <1>3. NotFound(c) => SessionsOf(c) = {}
    BY DEF NotFound, SessionsOf
  <1>4. \A s \in SessionsOf(c) : sessions[s].state \in Open[c]
    BY <1>2
  <1> QED
    BY <1>1, <1>2, <1>3, <1>4

\* Every branch of the handlers serves the message in one of these ways.
LEMMA ResponseServed ==
    ASSUME PhonesInv, NEW m \in Responses, SentByPhone(m), HandleResponse(m)
    PROVE  /\ OthersSame(m.call)
           /\ \E told, heard : 
                 /\ Posts(m.call, told, heard)
                 /\ Routes(m.call, told, heard) => Served(m.call, m)
  <1> DEFINE c == m.call
             x == Signal(m)
             Goal == /\ OthersSame(c)
                     /\ \E told, heard : Posts(c, told, heard) /\ (Routes(c, told, heard) => Served(c, m))
  <1> HIDE DEF Goal
  <1> SUFFICES Goal
    BY DEF Goal
  <1>1. c \in CallIds /\ m \in Message /\ Caller[c] \in Addrs /\ Callee(c) \in Addrs
    BY PhoneAddrs DEF Responses, Message
  <1>2. \/ m.src = Caller[c] /\ x \in {"byeOk", "byeFailed"}
        \/ m.src = Callee(c) /\ x \in CalleeSays \ {"BYE"}
    BY <1>1, SignalRead DEF SentByPhone, CallerSays, CalleeSays, Responses
  <1>3. CASE DropResponse(m)
    <2>1. OthersSame(c) /\ SameSessions(c) /\ Posts(c, {}, {}) /\ Open[c] = {}
      BY <1>1, <1>3, SessionsKept, PostsNone, FoundSession DEF DropResponse
    <2>2. Routes(c, {}, {}) => Served(c, m)
      BY <1>2, <2>1 DEF Served, CallerServed, CalleeServed
    <2> QED
      BY <2>1, <2>2 DEF Goal
  <1>4. CASE RelayResponse(m)
    <2>1. PICK s \in Slots :
            /\ Found(s, c) /\ out' = <<Relayed(sessions[s].caller, m)>>
            /\ \/ m.status = "ok" /\ m.method = "INVITE" /\ SetState(s, "ESTABLISHED")
               \/ m.status = "failure" /\ Terminate(s)
               \/ m.status = "ringing" /\ SetState(s, "RINGING")
               \/ (m.status = "other" \/ (m.status = "ok" /\ m.method # "INVITE")) /\ Keep
      BY <1>4 DEF RelayResponse
    <2>2. s \in SessionsOf(c) /\ sessions[s].caller = Caller[c]
      BY <1>1, <2>1, FoundSession
    <2> DEFINE y == Relayed(Caller[c], m)
    <2>3. y \in Sent /\ y.to = Caller[c] /\ y.call = c /\ Signal(y) = x /\ out' = <<y>>
      BY <1>1, <2>1, <2>2, Relays
    <2>4. ForPhone(y.to, y)
      BY <1>2, <2>3 DEF ForPhone, CallerHears, CalleeSays
    <2> HIDE DEF y
    <2>5. Posts(c, {x}, {})
      BY <1>1, <2>3, <2>4, PostsOne
    <2>6. /\ x = "ok" => m.status = "ok" /\ m.method = "INVITE"
          /\ x = "ringing" => m.status = "ringing"
          /\ x \in {"failure", "byeFailed", "cancelFailed"} => m.status = "failure"
          /\ x \in {"byeOk", "cancelOk"} => m.status = "ok" /\ m.method # "INVITE"
      BY <1>1, SignalRead
    <2>7. CASE x = "ok"
      <3>1. Turns(c, "ESTABLISHED") /\ OthersSame(c)
        BY <1>1, <2>1, <2>2, <2>6, <2>7, SessionTurned
      <3>2. Routes(c, {x}, {}) => Served(c, m)
        BY <1>2, <2>7, <3>1 DEF Served, CalleeServed
      <3> QED
        BY <2>5, <3>1, <3>2 DEF Goal
    <2>8. CASE x = "ringing"
      <3>1. Turns(c, "RINGING") /\ OthersSame(c)
        BY <1>1, <2>1, <2>2, <2>6, <2>8, SessionTurned
      <3>2. Routes(c, {x}, {}) => Served(c, m)
        BY <1>2, <2>8, <3>1 DEF Served, CalleeServed
      <3> QED
        BY <2>5, <3>1, <3>2 DEF Goal
    <2>9. CASE x \in {"failure", "byeFailed", "cancelFailed"}
      <3>1. Frees(c) /\ OthersSame(c)
        BY <1>1, <2>1, <2>2, <2>6, <2>9, SessionFreed
      <3>2. Routes(c, {x}, {}) => Served(c, m)
        BY <1>2, <2>9, <3>1 DEF Served, CallerServed, CalleeServed
      <3> QED
        BY <2>5, <3>1, <3>2 DEF Goal
    <2>10. CASE x \in {"byeOk", "cancelOk"}
      <3>1. SameSessions(c) /\ OthersSame(c)
        BY <1>1, <2>1, <2>6, <2>10, SessionsKept
      <3>2. Routes(c, {x}, {}) => Served(c, m)
        BY <1>2, <2>10, <3>1 DEF Served, CallerServed, CalleeServed
      <3> QED
        BY <2>5, <3>1, <3>2 DEF Goal
    <2> QED
      BY <1>2, <2>7, <2>8, <2>9, <2>10 DEF CalleeSays
  <1> QED
    BY <1>3, <1>4 DEF HandleResponse

LEMMA InviteServed ==
    ASSUME PhonesInv, NEW m \in Requests, m.method = "INVITE", SentByPhone(m),
           InviteUnresolved(m) \/ InviteRefused(m) \/ InviteAccepted(m, CalleeHost[m.call])
    PROVE  /\ OthersSame(m.call)
           /\ \E told, heard :
                 /\ Posts(m.call, told, heard)
                 /\ Routes(m.call, told, heard) => Served(m.call, m)
  <1> DEFINE c == m.call
             Goal == /\ OthersSame(c)
                     /\ \E told, heard : Posts(c, told, heard) /\ (Routes(c, told, heard) => Served(c, m))
  <1> HIDE DEF Goal
  <1> SUFFICES Goal
    BY DEF Goal
  <1>1. c \in CallIds /\ m \in Message /\ Caller[c] \in Addrs /\ Callee(c) \in Addrs
    BY PhoneAddrs DEF Requests, Message
  <1>2. Signal(m) = "INVITE" /\ m.src = Caller[c]
    BY <1>1, SignalRead DEF SentByPhone, CalleeSays, Requests
  <1>3. CASE InviteUnresolved(m) \/ InviteRefused(m)
    <2> DEFINE y == Answer(m, "failure")
    <2>1. y \in Sent /\ y.to = Caller[c] /\ y.call = c /\ Signal(y) = "failure" /\ out' = <<y>>
      BY <1>2, <1>3, Replies DEF InviteUnresolved, InviteRefused, Statuses
    <2>2. ForPhone(y.to, y)
      BY <2>1 DEF ForPhone, CallerHears
    <2> HIDE DEF y
    <2>3. Posts(c, {"failure"}, {})
      BY <1>1, <2>1, <2>2, PostsOne
    <2>4. SameSessions(c) /\ OthersSame(c)
      BY <1>1, <1>3, SessionsKept DEF InviteUnresolved, InviteRefused
    <2>5. Routes(c, {"failure"}, {}) => Served(c, m)
      BY <1>2, <2>4 DEF Served, CallerServed
    <2> QED
      BY <2>3, <2>4, <2>5 DEF Goal
  <1>4. CASE InviteAccepted(m, CalleeHost[c])
    <2>1. PICK s \in Slots :
            /\ ~sessions[s].inUse
            /\ Commit([sessions EXCEPT ![s] =
                         [inUse |-> TRUE, call |-> c, caller |-> Caller[c],
                          callee |-> Callee(c), state |-> "INVITE_SENT", age |-> 0]])
            /\ out' = <<Answer(m, "other"), Relayed(Callee(c), m)>>
      BY <1>2, <1>4 DEF InviteAccepted, FirstUnused, Callee
    <2> DEFINE n == [inUse |-> TRUE, call |-> c, caller |-> Caller[c],
                     callee |-> Callee(c), state |-> "INVITE_SENT", age |-> 0]
               x == Answer(m, "other")
               y == Relayed(Callee(c), m)
    <2>2. /\ n.inUse /\ n.call = c /\ n.caller = Caller[c] /\ n.callee = Callee(c)
          /\ n.state = "INVITE_SENT" /\ Commit([sessions EXCEPT ![s] = n])
      BY <2>1
    <2>3. /\ x \in Sent /\ x.to = Caller[c] /\ x.call = c /\ Signal(x) = "other"
          /\ y \in Sent /\ y.to = Callee(c) /\ y.call = c /\ Signal(y) = "INVITE"
          /\ out' = <<x, y>>
      BY <1>1, <1>2, <2>1, Replies, Relays DEF Statuses
    <2>4. ForPhone(x.to, x) /\ ForPhone(y.to, y)
      BY <2>3 DEF ForPhone, CallerHears, CalleeHears
    <2> HIDE DEF n, x, y
    <2>5. Opens(c) /\ OthersSame(c)
      BY <1>1, <2>1, <2>2, SessionOpened
    <2>6. Posts(c, {"other"}, {"INVITE"})
      BY <1>1, <2>3, <2>4, PostsTwo
    <2>7. Routes(c, {"other"}, {"INVITE"}) => Served(c, m)
      BY <1>2, <2>5 DEF Served, CallerServed
    <2> QED
      BY <2>5, <2>6, <2>7 DEF Goal
  <1> QED
    BY <1>3, <1>4

LEMMA ByeServed ==
    ASSUME PhonesInv, NEW m \in Requests, m.method = "BYE", SentByPhone(m),
           ByeInSession(m) \/ ByeUnknown(m)
    PROVE  /\ OthersSame(m.call)
           /\ \E told, heard :
                 /\ Posts(m.call, told, heard)
                 /\ Routes(m.call, told, heard) => Served(m.call, m)
  <1> DEFINE c == m.call
             Goal == /\ OthersSame(c)
                     /\ \E told, heard : Posts(c, told, heard) /\ (Routes(c, told, heard) => Served(c, m))
  <1> HIDE DEF Goal
  <1> SUFFICES Goal
    BY DEF Goal
  <1>1. c \in CallIds /\ m \in Message /\ Caller[c] \in Addrs /\ Callee(c) \in Addrs
        /\ Callee(c).port = SipPort
    BY PhoneAddrs DEF Requests, Message, Callee
  <1>2. Signal(m) = "BYE" /\ (m.src = Caller[c] \/ m.src = Callee(c))
    BY <1>1, SignalRead DEF SentByPhone, Requests
  <1>3. CASE ByeUnknown(m)
    <2> DEFINE y == Answer(m, "failure")
    <2>1. y \in Sent /\ y.to = m.src /\ y.call = c /\ Signal(y) = "byeFailed" /\ out' = <<y>>
      BY <1>3, Replies DEF ByeUnknown, Statuses
    <2>2. ForPhone(y.to, y)
      BY <1>2, <2>1 DEF ForPhone, CallerHears, CalleeHears
    <2> HIDE DEF y
    <2>3. SameSessions(c) /\ OthersSame(c) /\ Open[c] = {}
      BY <1>1, <1>3, SessionsKept, FoundSession DEF ByeUnknown
    <2>4. CASE m.src = Caller[c]
      <3>1. Posts(c, {"byeFailed"}, {})
        BY <1>1, <2>1, <2>2, <2>4, PostsOne
      <3>2. Routes(c, {"byeFailed"}, {}) => Served(c, m)
        BY <1>2, <2>3, <2>4 DEF Served, CallerServed
      <3> QED
        BY <2>3, <3>1, <3>2 DEF Goal
    <2>5. CASE m.src = Callee(c)
      <3>1. Posts(c, {}, {"byeFailed"})
        BY <1>1, <2>1, <2>2, <2>5, PostsOne
      <3>2. Routes(c, {}, {"byeFailed"}) => Served(c, m)
        BY <1>2, <2>3, <2>5 DEF Served, CalleeServed
      <3> QED
        BY <2>3, <3>1, <3>2 DEF Goal
    <2> QED
      BY <1>2, <2>4, <2>5
  <1>4. CASE ByeInSession(m)
    <2>1. PICK s \in Slots :
            /\ Found(s, c)
            /\ out' = <<Relayed(OtherParty(s, m), m), Answer(m, "ok")>>
            /\ Terminate(s)
      BY <1>4 DEF ByeInSession
    <2>2. s \in SessionsOf(c) /\ sessions[s].caller = Caller[c] /\ sessions[s].callee = Callee(c)
      BY <1>1, <2>1, FoundSession
    <2>3. Frees(c) /\ OthersSame(c)
      BY <1>1, <2>1, <2>2, SessionFreed
    <2> DEFINE to == OtherParty(s, m)
               x == Relayed(to, m)
               y == Answer(m, "ok")
    <2>4. /\ m.src = Caller[c] => to = Callee(c)
          /\ m.src = Callee(c) /\ Caller[c].port # SipPort => to = Caller[c]
          /\ m.src = Callee(c) /\ Caller[c].port = SipPort => to = Callee(c)
      BY <1>1, <2>2 DEF OtherParty, SentByCaller
    <2>5. to \in Addrs /\ to \in {Caller[c], Callee(c)}
      BY <1>1, <1>2, <2>4
    <2> HIDE DEF to
    <2>6. /\ x \in Sent /\ x.to = to /\ x.call = c /\ Signal(x) = "BYE"
          /\ y \in Sent /\ y.to = m.src /\ y.call = c /\ Signal(y) = "byeOk"
      BY <1>1, <1>2, <2>5, Replies, Relays DEF Statuses
    <2>7. ForPhone(x.to, x) /\ ForPhone(y.to, y)
      BY <1>2, <2>5, <2>6 DEF ForPhone, CallerHears, CalleeHears
    <2>8. out' = <<x, y>>
      BY <2>1 DEF to
    <2> HIDE DEF x, y
    <2>9. CASE m.src = Caller[c]
      <3>1. Posts(c, {"byeOk"}, {"BYE"})
        BY <1>1, <2>4, <2>6, <2>7, <2>8, <2>9, PostsTwo
      <3>2. Routes(c, {"byeOk"}, {"BYE"}) => Served(c, m)
        BY <1>2, <2>3, <2>9 DEF Served, CallerServed
      <3> QED
        BY <2>3, <3>1, <3>2 DEF Goal
    <2>10. CASE m.src = Callee(c) /\ Caller[c].port # SipPort
      <3>1. Posts(c, {"BYE"}, {"byeOk"})
        BY <1>1, <2>4, <2>6, <2>7, <2>8, <2>10, PostsTwo
      <3>2. Routes(c, {"BYE"}, {"byeOk"}) => Served(c, m)
        BY <1>2, <2>3, <2>10 DEF Served, CalleeServed
      <3> QED
        BY <2>3, <3>1, <3>2 DEF Goal
    <2>11. CASE m.src = Callee(c) /\ Caller[c].port = SipPort
      <3>1. Posts(c, {}, {"BYE", "byeOk"})
        BY <1>1, <2>4, <2>6, <2>7, <2>8, <2>11, PostsTwo
      <3>2. Routes(c, {}, {"BYE", "byeOk"}) => Served(c, m)
        BY <1>2, <2>3, <2>11 DEF Served, CalleeServed
      <3> QED
        BY <2>3, <3>1, <3>2 DEF Goal
    <2> QED
      BY <1>2, <2>9, <2>10, <2>11
  <1> QED
    BY <1>3, <1>4

LEMMA CancelServed ==
    ASSUME PhonesInv, NEW m \in Requests, m.method = "CANCEL", SentByPhone(m),
           CancelPending(m) \/ CancelRefused(m)
    PROVE  /\ OthersSame(m.call)
           /\ \E told, heard :
                 /\ Posts(m.call, told, heard)
                 /\ Routes(m.call, told, heard) => Served(m.call, m)
  <1> DEFINE c == m.call
             Goal == /\ OthersSame(c)
                     /\ \E told, heard : Posts(c, told, heard) /\ (Routes(c, told, heard) => Served(c, m))
  <1> HIDE DEF Goal
  <1> SUFFICES Goal
    BY DEF Goal
  <1>1. c \in CallIds /\ m \in Message /\ Caller[c] \in Addrs /\ Callee(c) \in Addrs
    BY PhoneAddrs DEF Requests, Message
  <1>2. Signal(m) = "CANCEL" /\ m.src = Caller[c]
    BY <1>1, SignalRead DEF SentByPhone, CalleeSays, Requests
  <1>3. CASE CancelRefused(m)
    <2> DEFINE y == Answer(m, "failure")
    <2>1. y \in Sent /\ y.to = Caller[c] /\ y.call = c /\ Signal(y) = "cancelFailed" /\ out' = <<y>>
      BY <1>2, <1>3, Replies DEF CancelRefused, Statuses
    <2>2. ForPhone(y.to, y)
      BY <2>1 DEF ForPhone, CallerHears
    <2> HIDE DEF y
    <2>3. Posts(c, {"cancelFailed"}, {})
      BY <1>1, <2>1, <2>2, PostsOne
    <2>4. SameSessions(c) /\ OthersSame(c)
      BY <1>1, <1>3, SessionsKept DEF CancelRefused
    <2>5. Routes(c, {"cancelFailed"}, {}) => Served(c, m)
      BY <1>2, <2>4 DEF Served, CallerServed
    <2> QED
      BY <2>3, <2>4, <2>5 DEF Goal
  <1>4. CASE CancelPending(m)
    <2>1. PICK s \in Slots :
            /\ Found(s, c) /\ Pending(s)
            /\ out' = <<Relayed(sessions[s].callee, m), Answer(m, "ok")>>
            /\ Terminate(s)
      BY <1>4 DEF CancelPending
    <2>2. s \in SessionsOf(c) /\ sessions[s].callee = Callee(c)
      BY <1>1, <2>1, FoundSession
    <2>3. Frees(c) /\ OthersSame(c)
      BY <1>1, <2>1, <2>2, SessionFreed
    <2> DEFINE x == Relayed(Callee(c), m)
               y == Answer(m, "ok")
    <2>4. /\ x \in Sent /\ x.to = Callee(c) /\ x.call = c /\ Signal(x) = "CANCEL"
          /\ y \in Sent /\ y.to = Caller[c] /\ y.call = c /\ Signal(y) = "cancelOk"
          /\ out' = <<x, y>>
      BY <1>1, <1>2, <2>1, <2>2, Replies, Relays DEF Statuses
    <2>5. ForPhone(x.to, x) /\ ForPhone(y.to, y)
      BY <2>4 DEF ForPhone, CallerHears, CalleeHears
    <2> HIDE DEF x, y
    <2>6. Posts(c, {"cancelOk"}, {"CANCEL"})
      BY <1>1, <2>4, <2>5, PostsTwo
    <2>8. Open[c] \cap {"INVITE_SENT", "RINGING"} # {}
      <3>1. sessions[s].state \in Open[c]
        BY <1>1, <2>2 DEF Open
      <3> QED
        BY <2>1, <3>1 DEF Pending
    <2>7. Routes(c, {"cancelOk"}, {"CANCEL"}) => Served(c, m)
      BY <1>2, <2>3, <2>8 DEF Served, CallerServed
    <2> QED
      BY <2>3, <2>6, <2>7 DEF Goal
  <1> QED
    BY <1>3, <1>4

LEMMA AckServed ==
    ASSUME PhonesInv, NEW m \in Requests, m.method = "ACK", SentByPhone(m),
           AckEstablished(m) \/ AckDropped(m)
    PROVE  /\ OthersSame(m.call)
           /\ \E told, heard :
                 /\ Posts(m.call, told, heard)
                 /\ Routes(m.call, told, heard) => Served(m.call, m)
  <1> DEFINE c == m.call
             Goal == /\ OthersSame(c)
                     /\ \E told, heard : Posts(c, told, heard) /\ (Routes(c, told, heard) => Served(c, m))
  <1> HIDE DEF Goal
  <1> SUFFICES Goal
    BY DEF Goal
  <1>1. c \in CallIds /\ m \in Message /\ Caller[c] \in Addrs /\ Callee(c) \in Addrs
    BY PhoneAddrs DEF Requests, Message
  <1>2. Signal(m) = "ACK" /\ m.src = Caller[c]
    BY <1>1, SignalRead DEF SentByPhone, CalleeSays, Requests
  <1>3. SameSessions(c) /\ OthersSame(c)
    BY <1>1, SessionsKept DEF AckEstablished, AckDropped
  <1>4. CASE AckDropped(m)
    <2>1. Posts(c, {}, {})
      BY <1>1, <1>4, PostsNone DEF AckDropped
    <2>2. Routes(c, {}, {}) => Served(c, m)
      BY <1>2, <1>3 DEF Served, CallerServed
    <2> QED
      BY <1>3, <2>1, <2>2 DEF Goal
  <1>5. CASE AckEstablished(m)
    <2>1. out' = <<Relayed(Callee(c), m)>>
      BY <1>1, <1>5, FoundSession DEF AckEstablished
    <2> DEFINE x == Relayed(Callee(c), m)
    <2>2. x \in Sent /\ x.to = Callee(c) /\ x.call = c /\ Signal(x) = "ACK" /\ out' = <<x>>
      BY <1>1, <1>2, <2>1, Relays
    <2>3. ForPhone(x.to, x)
      BY <2>2 DEF ForPhone, CalleeHears
    <2> HIDE DEF x
    <2>4. Posts(c, {}, {"ACK"})
      BY <1>1, <2>2, <2>3, PostsOne
    <2>5. Routes(c, {}, {"ACK"}) => Served(c, m)
      BY <1>2, <1>3 DEF Served, CallerServed
    <2> QED
      BY <1>3, <2>4, <2>5 DEF Goal
  <1> QED
    BY <1>4, <1>5

-----------------------------------------------------------------------------

\* The proxy takes a signal of the call off the queue and serves it.
ProxyTakes(c) ==
    \/ \E x \in CallerSays :
          /\ FromCaller[c] = FromCaller'[c] \cup {x} /\ FromCallee'[c] = FromCallee[c]
          /\ x = "INVITE" /\ ~InviteRepeats(c) => "INVITE" \notin FromCaller'[c]
          /\ CallerServed(c, x)
    \/ \E x \in CalleeSays :
          /\ FromCallee[c] = FromCallee'[c] \cup {x} /\ FromCaller'[c] = FromCaller[c]
          /\ x = "ok" /\ ~RingsLate(c) => "ringing" \notin FromCallee'[c]
          /\ CalleeServed(c, x)

ProxyOf(c) ==
    /\ caller'[c] = caller[c] /\ callee'[c] = callee[c] /\ faults' = faults
    /\ OrderKept(c, {})
    /\ ProxyTakes(c)

\* The step of SipCalls is one of SipProxy, so that the invariants of the proxy hold.
LEMMA ProxyIsNext ==
    ASSUME PhonesInv, Proxy
    PROVE  Next
  <1> DEFINE m == Head(inbox)
  <1>1. m \in Requests \cup Responses
    BY RangeTail DEF PhonesInv, CallsTypes, Proxy, Message
  <1>2. m.kind = "request" => m \in Requests
    BY <1>1 DEF Responses
  <1>3. m.kind = "response" => m \in Responses
    BY <1>1 DEF Requests
  <1>4. m.call \in CallIds
    BY <1>1 DEF Requests, Responses
  <1>5. CalleeHost[m.call] \in Ips
    BY <1>4, CallsAssumption
  <1>6. \/ m.kind = "request" /\ HandleRequest(m)
        \/ m.kind = "response" /\ HandleResponse(m)
    <2>1. \/ m.kind = "response" /\ HandleResponse(m)
          \/ /\ m.kind = "request" /\ m.method = "INVITE"
             /\ InviteUnresolved(m) \/ InviteRefused(m) \/ InviteAccepted(m, CalleeHost[m.call])
          \/ m.kind = "request" /\ m.method # "INVITE" /\ HandleRequest(m)
      BY DEF Proxy
    <2> HIDE DEF m
    <2>2. InviteAccepted(m, CalleeHost[m.call]) => HandleInvite(m)
      BY <1>5 DEF HandleInvite
    <2>3. m.method = "INVITE" /\ HandleInvite(m) => HandleRequest(m)
      BY DEF HandleRequest
    <2>4. InviteUnresolved(m) \/ InviteRefused(m) => HandleInvite(m)
      BY DEF HandleInvite
    <2> QED
      BY <2>1, <2>2, <2>3, <2>4
  <1> QED
    BY <1>2, <1>3, <1>6 DEF Next, Handle

\* Every step of the proxy serves one call and leaves the others untouched.
LEMMA ProxyStep ==
    ASSUME PhonesInv, Proxy
    PROVE  /\ PhonesInv'
           /\ \E c \in CallIds : ProxyOf(c) /\ \A d \in CallIds \ {c} : Untouched(d)
  <1> DEFINE m == Head(inbox)
             c == m.call
  <1>1. ProxyInv'
    BY ProxyIsNext, ProxyInvStep DEF PhonesInv
  <1>2. inbox # <<>> /\ inbox' = Tail(inbox) /\ caller' = caller /\ callee' = callee /\ faults' = faults
    BY DEF Proxy, phones
  <1>3. /\ m \in Message /\ c \in CallIds /\ SentByPhone(m)
        /\ OrderKept(c, {})
        /\ m.src = Caller[c] => /\ FromCaller[c] = FromCaller'[c] \cup {Signal(m)}
                                /\ FromCallee'[c] = FromCallee[c]
        /\ m.src = Callee(c) => /\ FromCallee[c] = FromCallee'[c] \cup {Signal(m)}
                                /\ FromCaller'[c] = FromCaller[c]
        /\ Signal(m) = "INVITE" /\ ~InviteRepeats(c) => "INVITE" \notin FromCaller'[c]
        /\ Signal(m) = "ok" /\ ~RingsLate(c) => "ringing" \notin FromCallee'[c]
    BY <1>2, HeadTaken
  <1>4. /\ OthersSame(c)
        /\ \E told, heard : Posts(c, told, heard) /\ (Routes(c, told, heard) => Served(c, m))
    <2>1. CASE m.kind = "response" /\ HandleResponse(m)
      <3>1. m \in Responses
        BY <1>3, <2>1 DEF Message, Requests
      <3> QED
        BY <1>3, <2>1, <3>1, ResponseServed
    <2>2. CASE m.kind = "request"
      <3>1. m \in Requests
        BY <1>3, <2>2 DEF Message, Responses
      <3>2. m.method \in {"INVITE", "BYE", "CANCEL", "ACK"}
        BY <1>3, <2>2, SignalRead DEF SentByPhone, CallerSays, CalleeSays, Signal
      <3>3. CASE m.method = "INVITE"
        <4>1. InviteUnresolved(m) \/ InviteRefused(m) \/ InviteAccepted(m, CalleeHost[c])
          BY <2>2, <3>3 DEF Proxy
        <4> QED
          BY <1>3, <3>1, <3>3, <4>1, InviteServed
      <3>4. CASE m.method = "BYE"
        <4>1. ByeInSession(m) \/ ByeUnknown(m)
          BY <2>2, <3>4 DEF Proxy, HandleRequest
        <4> QED
          BY <1>3, <3>1, <3>4, <4>1, ByeServed
      <3>5. CASE m.method = "CANCEL"
        <4>1. CancelPending(m) \/ CancelRefused(m)
          BY <2>2, <3>5 DEF Proxy, HandleRequest
        <4> QED
          BY <1>3, <3>1, <3>5, <4>1, CancelServed
      <3>6. CASE m.method = "ACK"
        <4>1. AckEstablished(m) \/ AckDropped(m)
          BY <2>2, <3>6 DEF Proxy, HandleRequest
        <4> QED
          BY <1>3, <3>1, <3>6, <4>1, AckServed
      <3> QED
        BY <3>2, <3>3, <3>4, <3>5, <3>6
    <2> QED
      BY <2>1, <2>2 DEF Proxy
  <1>5. PICK told, heard : Posts(c, told, heard) /\ (Routes(c, told, heard) => Served(c, m))
    BY <1>4
  <1>6. PhonesInv' /\ Routes(c, told, heard) /\ \A d \in CallIds \ {c} : Untouched(d)
    BY <1>1, <1>4, <1>5, ProxyDelivers
  <1>7. Served(c, m)
    BY <1>5, <1>6
  <1>8. ProxyTakes(c)
    <2>1. \/ m.src = Caller[c] /\ Signal(m) \in CallerSays
          \/ m.src = Callee(c) /\ Signal(m) \in CalleeSays
      BY <1>3 DEF SentByPhone
    <2>2. Caller[c] # Callee(c)
      BY <1>3, PhoneAddrs
    <2> HIDE DEF m
    <2>3. CASE m.src = Caller[c]
      BY <1>3, <1>7, <2>1, <2>2, <2>3 DEF ProxyTakes, Served
    <2>4. CASE m.src = Callee(c)
      BY <1>3, <1>7, <2>1, <2>2, <2>4 DEF ProxyTakes, Served
    <2> QED
      BY <2>1, <2>3, <2>4
  <1>9. ProxyOf(c)
    BY <1>2, <1>3, <1>8 DEF ProxyOf
  <1> QED
    BY <1>3, <1>6, <1>9

-----------------------------------------------------------------------------
(* The cleanup *)

\* The cleanup frees a session of the call and remembers it.
CleanupOf(c) ==
    /\ caller'[c] = caller[c] /\ callee'[c] = callee[c] /\ faults' = faults
    /\ SameSignals(c)
    /\ OrderKept(c, {}) /\ (OutRepeats(c)' => OutRepeats(c))
    /\ Frees(c)
    /\ c \in expired'

\* Neither the cleanup nor the clock touches the phones and the messages.
LEMMA MessagesStay ==
    ASSUME UNCHANGED <<phones, inbox, mail, faults>>, NEW c \in CallIds
    PROVE  /\ caller'[c] = caller[c] /\ callee'[c] = callee[c] /\ faults' = faults
           /\ SameSignals(c)
           /\ OrderKept(c, {}) /\ (OutRepeats(c)' => OutRepeats(c))
  <1>1. UNCHANGED <<inbox, mail, caller, callee, faults>>
    BY DEF phones
  <1>2. SameSignals(c)
    BY <1>1 DEF SameSignals, FromCaller, FromCallee, ToCaller, ToCallee, Callee
  <1>3. OrderKept(c, {}) /\ (OutRepeats(c)' => OutRepeats(c))
    BY <1>1 DEF OrderKept, InviteRepeats, RingsLate, OutRepeats, Callee
  <1> QED
    BY <1>1, <1>2, <1>3

LEMMA MessagesOwn ==
    ASSUME PhonesInv, ProxyInv', OwnSessions', UNCHANGED <<phones, inbox, mail, faults>>
    PROVE  PhonesInv'
  <1>1. UNCHANGED <<inbox, mail, caller, callee, faults>>
    BY DEF phones
  <1>2. CallsTypes'
    BY <1>1 DEF PhonesInv, CallsTypes
  <1>3. OwnMessages'
    BY <1>1 DEF PhonesInv, OwnMessages, SentByPhone, ForPhone, Callee
  <1> QED
    BY <1>2, <1>3 DEF PhonesInv

LEMMA ExpireStep ==
    ASSUME PhonesInv, NEW s \in Slots, Expire(s)
    PROVE  /\ PhonesInv'
           /\ \E c \in CallIds : CleanupOf(c) /\ \A d \in CallIds \ {c} : Untouched(d)
  <1>1. /\ sessions[s].inUse /\ Terminate(s) /\ Next
        /\ expired' = expired \cup {sessions[s].call}
        /\ UNCHANGED <<phones, inbox, mail, faults>>
    BY DEF Expire, CleanupStale, Stale, Next
  <1>2. PICK c \in CallIds : c = sessions[s].call
    BY <1>1 DEF PhonesInv, ProxyInv, TableAtRest, FreeSession
  <1>a. s \in SessionsOf(c) /\ c \in expired'
    BY <1>1, <1>2 DEF SessionsOf
  <1>3. Frees(c) /\ OthersSame(c)
    BY <1>1, <1>a, SessionFreed
  <1>4. PhonesInv'
    BY <1>1, <1>3, ProxyInvStep, MessagesOwn DEF OthersSame, PhonesInv
  <1>5. CleanupOf(c)
    BY <1>1, <1>3, <1>a, MessagesStay DEF CleanupOf
  <1>6. \A d \in CallIds \ {c} : Untouched(d)
    BY <1>1, <1>3, MessagesStay DEF OthersSame, Untouched, SameSignals
  <1> QED
    BY <1>4, <1>5, <1>6

\* Growing older is all that happens to a session when time passes.
LEMMA GrowOldStep ==
    ASSUME PhonesInv, GrowOld
    PROVE  PhonesInv' /\ \A c \in CallIds : Untouched(c)
  <1>1. /\ Next /\ UNCHANGED <<phones, inbox, mail, faults>>
        /\ sessions' = [s \in Slots |->
                           IF sessions[s].inUse /\ sessions[s].age <= MaxAge
                           THEN [sessions[s] EXCEPT !.age = @ + 1] ELSE sessions[s]]
    BY DEF GrowOld, Tick, Next
  <1>2. sessions \in [Slots -> Session] /\ OwnSessions
    BY DEF PhonesInv, ProxyInv, TypeOK
  <1>3. \A s \in Slots : /\ sessions'[s].inUse = sessions[s].inUse
                         /\ sessions'[s].call = sessions[s].call
                         /\ sessions'[s].caller = sessions[s].caller
                         /\ sessions'[s].callee = sessions[s].callee
                         /\ sessions'[s].state = sessions[s].state
    BY <1>1, <1>2 DEF Session
  <1>4. OwnSessions'
    BY <1>2, <1>3 DEF OwnSessions, Callee
  <1>5. PhonesInv'
    BY <1>1, <1>4, ProxyInvStep, MessagesOwn DEF PhonesInv
  <1>6. ASSUME NEW c \in CallIds
        PROVE  SameSessions(c)
    <2>1. SessionsOf(c)' = SessionsOf(c)
      BY <1>3 DEF SessionsOf
    <2>2. /\ Open[c] = {sessions[s].state : s \in SessionsOf(c)}
          /\ Open'[c] = {sessions'[s].state : s \in SessionsOf(c)}
      BY <2>1 DEF Open
    <2>3. \A s \in SessionsOf(c) : sessions'[s].state = sessions[s].state
      BY <1>3 DEF SessionsOf
    <2>4. Open'[c] = Open[c]
      BY <2>2, <2>3
    <2>5. Alone(c) => Alone(c)'
      BY <2>1 DEF Alone
    <2> QED
      BY <2>4, <2>5 DEF SameSessions
  <1> QED
    BY <1>1, <1>5, <1>6, MessagesStay DEF Untouched, SameSignals

-----------------------------------------------------------------------------
(* Every step, for every call *)

\* What a step of the system is for one call; what the cleanup ended stays ended.
CallStep(c) ==
    /\ PhoneOf(c) \/ ProxyOf(c) \/ NetworkOf(c) \/ CleanupOf(c) \/ Untouched(c)
    /\ c \in expired => c \in expired'

\* Only the cleanup adds to the calls it ended.
LEMMA ExpiredStays ==
    ASSUME [CallsNext]_callVars
    PROVE  \A c \in CallIds : c \in expired => c \in expired'
  <1>1. ASSUME NEW c \in CallIds, User(c) \/ Phone(c)
        PROVE  expired' = expired
    <2>1. \E msgs : Send(msgs)
      <3>1. CASE User(c)
        BY <3>1 DEF User, Place, GiveUpRinging, CallerHangsUp, CalleeHangsUp
      <3>2. CASE CallerReceives(c) \/ CalleeReceives(c)
        BY <3>2 DEF CallerReceives, CalleeReceives
      <3>3. CASE CallerTimesOut(c) \/ CalleeTimesOut(c) \/ AckTimesOut(c) \/ Answers(c) \/ Declines(c)
        BY <3>3 DEF CallerTimesOut, CalleeTimesOut, AckTimesOut, Answers, Declines
      <3> QED
        BY <1>1, <3>1, <3>2, <3>3 DEF Phone
    <2> QED
      BY <2>1 DEF Send
  <1>2. Proxy \/ Lose \/ Duplicate \/ Swap => expired' = expired
    BY DEF Proxy, Lose, Duplicate, Swap, Fault
  <1>3. \A s \in Slots : Expire(s) => expired \subseteq expired'
    BY DEF Expire
  <1>4. GrowOld \/ UNCHANGED callVars => expired' = expired
    BY DEF GrowOld, callVars
  <1> QED
    BY <1>1, <1>2, <1>3, <1>4 DEF CallsNext

LEMMA StillUntouched ==
    ASSUME UNCHANGED callVars, NEW c \in CallIds
    PROVE  Untouched(c)
  <1>1. UNCHANGED <<sessions, inbox, mail, caller, callee, faults>>
    BY DEF callVars, vars
  <1>2. SameSessions(c)
    BY <1>1 DEF SameSessions, Open, Alone, SessionsOf
  <1>3. /\ FromCaller'[c] = FromCaller[c] /\ FromCallee'[c] = FromCallee[c]
        /\ ToCaller'[c] = ToCaller[c] /\ ToCallee'[c] = ToCallee[c]
    BY <1>1 DEF FromCaller, FromCallee, ToCaller, ToCallee, Callee
  <1>4. OrderKept(c, {}) /\ (OutRepeats(c)' => OutRepeats(c))
    BY <1>1 DEF OrderKept, InviteRepeats, RingsLate, OutRepeats, Callee
  <1> QED
    BY <1>1, <1>2, <1>3, <1>4 DEF Untouched

LEMMA EveryStep ==
    ASSUME PhonesInv, [CallsNext]_callVars
    PROVE  PhonesInv' /\ \A c \in CallIds : CallStep(c)
  <1>a. \A c \in CallIds : c \in expired => c \in expired'
    BY ExpiredStays
  <1>1. CASE Proxy
    BY <1>1, <1>a, ProxyStep DEF CallStep
  <1>2. ASSUME NEW c \in CallIds, User(c) \/ Phone(c)
        PROVE  PhonesInv' /\ \A d \in CallIds : CallStep(d)
    <2>1. PhonesInv' /\ PhoneOf(c) /\ \A d \in CallIds \ {c} : Untouched(d)
      BY <1>2, PhoneStep
    <2> QED
      BY <1>a, <2>1 DEF CallStep
  <1>3. CASE Lose
    BY <1>3, <1>a, LoseStep DEF CallStep
  <1>4. CASE Duplicate
    BY <1>4, <1>a, DuplicateStep DEF CallStep
  <1>5. CASE Swap
    BY <1>5, <1>a, SwapStep DEF CallStep
  <1>6. CASE \E s \in Slots : Expire(s)
    BY <1>6, <1>a, ExpireStep DEF CallStep
  <1>7. CASE GrowOld
    BY <1>7, <1>a, GrowOldStep DEF CallStep
  <1>8. CASE UNCHANGED callVars
    <2>1. PhonesInv'
      BY <1>8 DEF callVars, vars, PhonesInv, ProxyInv, TypeOK, TableAtRest, ExportCurrent,
                  CallsTypes, OwnSessions, OwnMessages, SentByPhone, ForPhone, Callee
    <2> QED
      BY <1>8, <1>a, <2>1, StillUntouched DEF CallStep
  <1> QED
    BY <1>1, <1>2, <1>3, <1>4, <1>5, <1>6, <1>7, <1>8 DEF CallsNext

\* Before it is placed, a call has no message and no session.
LEMMA CallsBegin ==
    ASSUME CallsInit
    PROVE  /\ PhonesInv
           /\ \A c \in CallIds : /\ caller[c] = "idle" /\ callee[c] = "idle" /\ Silent(c)
                                 /\ Open[c] = {} /\ Alone(c)
                                 /\ ~InviteRepeats(c) /\ ~RingsLate(c) /\ ~OutRepeats(c)
  <1>1. /\ inbox = <<>> /\ mail = [a \in Addrs |-> <<>>] /\ Init
        /\ caller = [c \in CallIds |-> "idle"] /\ callee = [c \in CallIds |-> "idle"]
        /\ faults = [loss |-> 0, dup |-> 0, swap |-> 0]
    BY DEF CallsInit
  <1>2. ProxyInv
    BY <1>1, ProxyInit
  <1>3. Range(inbox) = {} /\ \A a \in Addrs : Range(mail[a]) = {}
    BY <1>1 DEF Range
  <1>4. CallsTypes
    BY <1>1, CallsAssumption DEF CallsTypes, CallerStates, CalleeStates
  <1>5. \A s \in Slots : ~sessions[s].inUse
    BY <1>1 DEF Init, FreeSession
  <1>6. OwnSessions /\ OwnMessages
    BY <1>3, <1>5 DEF OwnSessions, OwnMessages
  <1>7. \A c \in CallIds : SessionsOf(c) = {}
    BY <1>5 DEF SessionsOf
  <1>8. \A c \in CallIds : Open[c] = {} /\ Alone(c)
    BY <1>7 DEF Open, Alone
  <1>9. \A c \in CallIds : Silent(c)
    BY <1>3, PhoneAddrs DEF Silent, FromCaller, FromCallee, ToCaller, ToCallee, Said, Told
  <1>10. \A c \in CallIds : ~InviteRepeats(c) /\ ~RingsLate(c) /\ ~OutRepeats(c)
    BY <1>1, PhoneAddrs DEF InviteRepeats, RingsLate, OutRepeats, Follows
  <1> QED
    BY <1>1, <1>2, <1>4, <1>6, <1>8, <1>9, <1>10 DEF PhonesInv

-----------------------------------------------------------------------------
\* The types of what is seen of a call.
CallTypes(c) ==
    /\ caller[c] \in CallerStates /\ callee[c] \in CalleeStates
    /\ FromCaller[c] \subseteq CallerSays /\ FromCallee[c] \subseteq CalleeSays
    /\ ToCaller[c] \subseteq CallerHears /\ ToCallee[c] \subseteq CalleeHears

LEMMA CallTyped ==
    ASSUME PhonesInv, NEW c \in CallIds
    PROVE  CallTypes(c)
  BY InboxSignals, MailSignals DEF CallTypes, PhonesInv, CallsTypes

-----------------------------------------------------------------------------
(* Nothing is said without a reason: always *)

\* The phone has hung up or is out of the call.
Out == {"ending", "done"}

\* The caller has given the call up or has hung up.
Left(c) == caller[c] \in {"cancelling", "ending", "done"}

\* A call that was not placed has left no trace.
NotBegun(c) == caller[c] = "idle" => Silent(c) /\ callee[c] = "idle" /\ Open[c] = {}

\* A CANCEL and a BYE on their way, and the refusals they may be answered with.
CancelMeans(c) == "CANCEL" \in FromCaller[c] \cup ToCallee[c] => Left(c)

ByeMeans(c) ==
    /\ "BYE" \in FromCaller[c] => caller[c] \in Out
    /\ "BYE" \in FromCallee[c] \cup ToCaller[c] => callee[c] \in Out
    /\ "BYE" \in ToCallee[c] =>
          \/ caller[c] \in Out
          \/ Caller[c].port = SipPort /\ callee[c] \in Out

\* A refusal is sent by a callee that is out, or after the caller left.
RefusalMeans(c) ==
    {"failure", "cancelFailed", "byeFailed"} \cap (FromCaller[c] \cup FromCallee[c]) # {} =>
        callee[c] \in Out \/ Left(c)

\* The callee answers after it was called, and it is up after it answered.
AnswerMeans(c) ==
    /\ callee[c] = "idle" => FromCallee[c] \cap {"ringing", "ok", "failure"} = {}
    /\ callee[c] \in {"idle", "alerting"} =>
          "ok" \notin FromCallee[c] \cup ToCaller[c] /\ caller[c] \notin {"up", "ending"}

\* What always holds of a call, whatever the network does.
Meanings(c) ==
    NotBegun(c) /\ CancelMeans(c) /\ ByeMeans(c) /\ RefusalMeans(c) /\ AnswerMeans(c)

LEMMA CallerMeanings ==
    ASSUME NEW c \in CallIds, CallTypes(c), Meanings(c), CallerActs(c) \/ CallerHearsOne(c)
    PROVE  Meanings(c)'
  <1>1. PICK next \in CallerStates, says \in SUBSET CallerSays :
           /\ CallerSends(c, next, says)
           /\ \/ CallerTurns(c, next, says) /\ ToCaller'[c] = ToCaller[c]
              \/ \E x \in CallerHears : /\ ToCaller[c] = ToCaller'[c] \cup {x}
                                        /\ CallerAnswer(caller[c], x, next, says)
    BY DEF CallerActs, CallerHearsOne
  <1>2. /\ caller'[c] = next /\ callee'[c] = callee[c]
        /\ FromCaller'[c] = FromCaller[c] \cup says /\ FromCallee'[c] = FromCallee[c]
        /\ ToCaller'[c] \subseteq ToCaller[c] /\ ToCallee'[c] = ToCallee[c]
        /\ Open'[c] = Open[c]
    BY <1>1 DEF CallerSends, CallerAdds, SameSessions
  <1>3. next # "idle"
    BY <1>1 DEF CallerTurns, CallerAnswer, Meanings, NotBegun, Silent
  <1>4. NotBegun(c)'
    BY <1>2, <1>3 DEF NotBegun
  <1>5. CancelMeans(c)'
    BY <1>1, <1>2 DEF CallerTurns, CallerAnswer, Meanings, CancelMeans, Left
  <1>6. ByeMeans(c)'
    BY <1>1, <1>2 DEF CallerTurns, CallerAnswer, Meanings, ByeMeans, Out
  <1>7. RefusalMeans(c)'
    BY <1>1, <1>2 DEF CallerTurns, CallerAnswer, Meanings, RefusalMeans, ByeMeans, NotBegun, Silent, Left, CallTypes, CallerStates
  <1>8. AnswerMeans(c)'
    BY <1>1, <1>2 DEF CallerTurns, CallerAnswer, Meanings, AnswerMeans
  <1> QED
    BY <1>4, <1>5, <1>6, <1>7, <1>8 DEF Meanings

LEMMA CalleeMeanings ==
    ASSUME NEW c \in CallIds, CallTypes(c), Meanings(c), CalleeActs(c) \/ CalleeHearsOne(c)
    PROVE  Meanings(c)'
  <1>1. PICK next \in CalleeStates, says \in SUBSET CalleeSays :
           /\ CalleeSends(c, next, says)
           /\ \/ CalleeTurns(c, next, says) /\ ToCallee'[c] = ToCallee[c]
              \/ \E x \in CalleeHears : /\ ToCallee[c] = ToCallee'[c] \cup {x}
                                        /\ CalleeAnswer(callee[c], x, next, says)
    BY DEF CalleeActs, CalleeHearsOne
  <1>2. /\ callee'[c] = next /\ caller'[c] = caller[c]
        /\ FromCallee'[c] = FromCallee[c] \cup says /\ FromCaller'[c] = FromCaller[c]
        /\ ToCallee'[c] \subseteq ToCallee[c] /\ ToCaller'[c] = ToCaller[c]
        /\ Open'[c] = Open[c]
    BY <1>1 DEF CalleeSends, CalleeAdds, SameSessions
  <1>3. caller[c] # "idle"
    BY <1>1 DEF CalleeTurns, CalleeAnswer, Meanings, NotBegun, Silent
  <1>4. NotBegun(c)'
    BY <1>2, <1>3 DEF NotBegun
  <1>5. CancelMeans(c)'
    BY <1>1, <1>2 DEF CalleeTurns, CalleeAnswer, Meanings, CancelMeans, Left
  <1>6. ByeMeans(c)'
    BY <1>1, <1>2 DEF CalleeTurns, CalleeAnswer, Meanings, ByeMeans, Out
  <1>7. RefusalMeans(c)'
    BY <1>1, <1>2 DEF CalleeTurns, CalleeAnswer, Meanings, RefusalMeans, ByeMeans, CancelMeans, Left, Out
  <1>8. AnswerMeans(c)'
    BY <1>1, <1>2 DEF CalleeTurns, CalleeAnswer, Meanings, AnswerMeans
  <1> QED
    BY <1>4, <1>5, <1>6, <1>7, <1>8 DEF Meanings

LEMMA ProxyMeanings ==
    ASSUME NEW c \in CallIds, CallTypes(c), Meanings(c), ProxyOf(c)
    PROVE  Meanings(c)'
  <1>1. /\ caller'[c] = caller[c] /\ callee'[c] = callee[c]
        /\ FromCaller'[c] \subseteq FromCaller[c] /\ FromCallee'[c] \subseteq FromCallee[c]
        /\ \/ \E x \in FromCaller[c] : CallerServed(c, x)
           \/ \E x \in FromCallee[c] : CalleeServed(c, x)
    BY DEF ProxyOf, ProxyTakes
  <1>2. caller[c] # "idle"
    BY <1>1 DEF Meanings, NotBegun, Silent
  <1>3. NotBegun(c)'
    BY <1>1, <1>2 DEF NotBegun
  <1>4. CancelMeans(c)'
    BY <1>1 DEF CallerServed, CalleeServed, Routes, Meanings, CancelMeans, Left
  <1>5. ByeMeans(c)'
    BY <1>1 DEF CallerServed, CalleeServed, Routes, Meanings, ByeMeans, Out
  <1>6. RefusalMeans(c)'
    BY <1>1 DEF Meanings, RefusalMeans, Left
  <1>7. AnswerMeans(c)'
    BY <1>1 DEF CallerServed, CalleeServed, Routes, Meanings, AnswerMeans
  <1> QED
    BY <1>3, <1>4, <1>5, <1>6, <1>7 DEF Meanings

LEMMA NetworkMeanings ==
    ASSUME NEW c \in CallIds, CallTypes(c), Meanings(c), NetworkOf(c) \/ Untouched(c)
    PROVE  Meanings(c)'
  <1>1. /\ caller'[c] = caller[c] /\ callee'[c] = callee[c] /\ Open'[c] = Open[c]
        /\ FromCaller'[c] \subseteq FromCaller[c] /\ FromCallee'[c] \subseteq FromCallee[c]
        /\ ToCaller'[c] \subseteq ToCaller[c] /\ ToCallee'[c] \subseteq ToCallee[c]
    BY DEF NetworkOf, Untouched, Loses, Duplicates, Swaps, SameSignals, SameSessions
  <1>2. NotBegun(c)' /\ CancelMeans(c)' /\ ByeMeans(c)'
    BY <1>1 DEF Meanings, NotBegun, Silent, CancelMeans, Left, ByeMeans, Out
  <1>3. RefusalMeans(c)' /\ AnswerMeans(c)'
    BY <1>1 DEF Meanings, RefusalMeans, Left, AnswerMeans, Out
  <1> QED
    BY <1>2, <1>3 DEF Meanings

LEMMA CleanupMeanings ==
    ASSUME NEW c \in CallIds, Meanings(c), CleanupOf(c)
    PROVE  Meanings(c)'
  <1>1. /\ caller'[c] = caller[c] /\ callee'[c] = callee[c] /\ Open'[c] \subseteq Open[c]
        /\ FromCaller'[c] = FromCaller[c] /\ FromCallee'[c] = FromCallee[c]
        /\ ToCaller'[c] = ToCaller[c] /\ ToCallee'[c] = ToCallee[c]
    BY DEF CleanupOf, SameSignals, Frees
  <1>2. NotBegun(c)' /\ CancelMeans(c)' /\ ByeMeans(c)'
    BY <1>1 DEF Meanings, NotBegun, Silent, CancelMeans, Left, ByeMeans, Out
  <1>3. RefusalMeans(c)' /\ AnswerMeans(c)'
    BY <1>1 DEF Meanings, RefusalMeans, Left, AnswerMeans, Out
  <1> QED
    BY <1>2, <1>3 DEF Meanings

\* No step breaks it.
LEMMA MeaningsKept ==
    ASSUME NEW c \in CallIds, CallTypes(c), Meanings(c), CallStep(c)
    PROVE  Meanings(c)'
  BY CallerMeanings, CalleeMeanings, ProxyMeanings, NetworkMeanings, CleanupMeanings
     DEF CallStep, PhoneOf

-----------------------------------------------------------------------------
(* No message is overtaken: when none is swapped *)

\* The callee rings before it answers, so that the 180 does not undo the 200.
RingsFirst(c) ==
    /\ ~RingsLate(c)
    /\ "ok" \in ToCaller[c] \/ caller[c] \in {"up", "ending"} => "ringing" \notin FromCallee[c]

\* The answer that reached the caller, or will, has established the session.
Established(c) ==
    /\ caller[c] = "up" \/ (caller[c] = "calling" /\ "ok" \in ToCaller[c])
    /\ callee[c] \in {"answered", "up"}
    => "ESTABLISHED" \in Open[c]

InOrder(c) == RingsFirst(c) /\ (c \notin expired => Established(c))

\* Without swaps, no step breaks it.
LEMMA InOrderKept ==
    ASSUME MaxSwap = 0, NEW c \in CallIds, CallTypes(c), Meanings(c), InOrder(c), CallStep(c)
    PROVE  InOrder(c)'
  <1>0. c \in expired => c \in expired'
    BY DEF CallStep
  <1>1. CASE CallerActs(c) \/ CallerHearsOne(c)
    <2>1. PICK next \in CallerStates, says \in SUBSET CallerSays :
             /\ CallerSends(c, next, says)
             /\ \/ CallerTurns(c, next, says) /\ ToCaller'[c] = ToCaller[c]
                \/ \E x \in CallerHears : /\ ToCaller[c] = ToCaller'[c] \cup {x}
                                          /\ CallerAnswer(caller[c], x, next, says)
      BY <1>1 DEF CallerActs, CallerHearsOne
    <2>2. /\ caller'[c] = next /\ callee'[c] = callee[c]
          /\ FromCallee'[c] = FromCallee[c] /\ ToCaller'[c] \subseteq ToCaller[c]
          /\ Open'[c] = Open[c]
          /\ RingsLate(c)' => "ringing" \in says
      BY <2>1 DEF CallerSends, CallerAdds, SameSessions, OrderKept, InOrder, RingsFirst
    <2>3. "ringing" \notin says
      BY DEF CallerSays
    <2>4. next = "up" => caller[c] = "up" \/ (caller[c] = "calling" /\ "ok" \in ToCaller[c])
      BY <2>1 DEF CallerTurns, CallerAnswer
    <2>5. next \in {"up", "ending"} => "ok" \in ToCaller[c] \/ caller[c] \in {"up", "ending"}
      BY <2>1 DEF CallerTurns, CallerAnswer
    <2>6. next = "calling" /\ "ok" \in ToCaller[c] => caller[c] = "calling"
      BY <2>1 DEF CallerTurns, CallerAnswer, Meanings, NotBegun, Silent
    <2> QED
      BY <1>0, <2>2, <2>3, <2>4, <2>5, <2>6 DEF InOrder, RingsFirst, Established
  <1>2. CASE CalleeActs(c) \/ CalleeHearsOne(c)
    <2>1. PICK next \in CalleeStates, says \in SUBSET CalleeSays :
             /\ CalleeSends(c, next, says)
             /\ \/ CalleeTurns(c, next, says) /\ ToCallee'[c] = ToCallee[c]
                \/ \E x \in CalleeHears : /\ ToCallee[c] = ToCallee'[c] \cup {x}
                                          /\ CalleeAnswer(callee[c], x, next, says)
      BY <1>2 DEF CalleeActs, CalleeHearsOne
    <2>2. /\ callee'[c] = next /\ caller'[c] = caller[c]
          /\ FromCallee'[c] = FromCallee[c] \cup says /\ ToCaller'[c] = ToCaller[c]
          /\ Open'[c] = Open[c]
          /\ RingsLate(c)' => "ringing" \in says /\ "ok" \in FromCallee[c]
      BY <2>1 DEF CalleeSends, CalleeAdds, SameSessions, OrderKept, InOrder, RingsFirst
    <2>3. "ringing" \in says => callee[c] = "idle"
      BY <2>1 DEF CalleeTurns, CalleeAnswer
    <2>4. next \in {"answered", "up"} => callee[c] \in {"alerting", "answered", "up"}
      BY <2>1 DEF CalleeTurns, CalleeAnswer
    <2> QED
      BY <1>0, <2>2, <2>3, <2>4 DEF InOrder, RingsFirst, Established, Meanings, AnswerMeans
  <1>3. CASE ProxyOf(c)
    <2>1. /\ caller'[c] = caller[c] /\ callee'[c] = callee[c]
          /\ FromCallee'[c] \subseteq FromCallee[c] /\ ~RingsLate(c)'
          /\ \/ \E x \in FromCaller[c] : CallerServed(c, x)
             \/ \E x \in FromCallee[c] : /\ CalleeServed(c, x)
                                         /\ x = "ok" => "ringing" \notin FromCallee'[c]
      BY <1>3 DEF ProxyOf, ProxyTakes, OrderKept, InOrder, RingsFirst
    <2>2. CASE \E x \in FromCaller[c] : CallerServed(c, x)
      <3>1. "ok" \in ToCaller'[c] => "ok" \in ToCaller[c]
        BY <2>2 DEF CallerServed, Routes
      <3>2. \/ Open[c] \subseteq Open'[c]
            \/ FromCaller[c] \cap {"BYE", "CANCEL", "byeFailed"} # {}
        BY <2>2 DEF CallerServed, SameSessions, Opens
      <3>3. /\ caller[c] \in {"up", "calling"} /\ callee[c] \in {"answered", "up"}
            => FromCaller[c] \cap {"BYE", "CANCEL", "byeFailed"} = {}
        BY DEF Meanings, CancelMeans, ByeMeans, RefusalMeans, Left, Out
      <3> QED
        BY <1>0, <2>1, <3>1, <3>2, <3>3 DEF InOrder, RingsFirst, Established
    <2>3. CASE \E x \in FromCallee[c] : /\ CalleeServed(c, x)
                                        /\ x = "ok" => "ringing" \notin FromCallee'[c]
      <3>1. PICK x \in FromCallee[c] : /\ CalleeServed(c, x)
                                       /\ x = "ok" => "ringing" \notin FromCallee'[c]
        BY <2>3
      <3>2. "ok" \in ToCaller'[c] => "ok" \in ToCaller[c] \/ (x = "ok" /\ "ESTABLISHED" \in Open'[c])
        BY <3>1 DEF CalleeServed, Routes, Turns
      <3>3. \/ Open[c] \subseteq Open'[c]
            \/ x = "ok" /\ "ESTABLISHED" \in Open'[c]
            \/ x \in {"ringing", "BYE", "failure", "cancelFailed", "byeFailed"}
        BY <3>1 DEF CalleeServed, SameSessions, Turns
      <3>4. /\ caller[c] \in {"up", "calling"} /\ callee[c] \in {"answered", "up"}
            => x \notin {"BYE", "failure", "cancelFailed", "byeFailed"}
        BY DEF Meanings, ByeMeans, RefusalMeans, Left, Out
      <3>6. x = "ringing" => ~("ok" \in ToCaller[c] \/ caller[c] \in {"up", "ending"})
        BY <3>1 DEF InOrder, RingsFirst, Established
      <3> QED
        BY <1>0, <2>1, <3>1, <3>2, <3>3, <3>4, <3>6 DEF InOrder, RingsFirst, Established
    <2> QED
      BY <2>1, <2>2, <2>3
  <1>4. CASE NetworkOf(c) \/ Untouched(c)
    <2>1. /\ caller'[c] = caller[c] /\ callee'[c] = callee[c] /\ Open'[c] = Open[c]
          /\ FromCallee'[c] \subseteq FromCallee[c] /\ ToCaller'[c] \subseteq ToCaller[c]
          /\ ~RingsLate(c)'
      BY <1>4 DEF NetworkOf, Untouched, Loses, Duplicates, Swaps, SameSignals, SameSessions,
                  OrderKept, InOrder, RingsFirst
    <2> QED
      BY <1>0, <2>1 DEF InOrder, RingsFirst, Established
  <1>5. CASE CleanupOf(c)
    <2>1. /\ caller'[c] = caller[c] /\ c \in expired' /\ ~RingsLate(c)'
          /\ FromCallee'[c] = FromCallee[c] /\ ToCaller'[c] = ToCaller[c]
      BY <1>5 DEF CleanupOf, SameSignals, OrderKept, InOrder, RingsFirst
    <2> QED
      BY <2>1 DEF InOrder, RingsFirst
  <1> QED
    BY <1>1, <1>2, <1>3, <1>4, <1>5 DEF CallStep, PhoneOf

-----------------------------------------------------------------------------
(* One session for a call: when no message is duplicated *)

\* A signal that ends the call, or answers one that did, is on its way.
Ending(c) ==
    \/ {"BYE", "byeOk", "byeFailed"} \cap (ToCaller[c] \cup ToCallee[c]) # {}
    \/ "CANCEL" \in ToCallee[c]
    \/ {"byeOk", "byeFailed", "cancelOk", "cancelFailed"} \cap (FromCaller[c] \cup FromCallee[c]) # {}

\* The INVITE is on its way to the proxy, and so is nothing that follows from it.
InviteFirst(c) ==
    "INVITE" \in FromCaller[c] =>
        /\ caller[c] \in {"calling", "cancelling"} /\ callee[c] = "idle" /\ Open[c] = {}
        /\ "INVITE" \notin ToCallee[c] /\ "failure" \notin ToCaller[c]

\* By the time the end of the call is on its way from the proxy, the session is gone
\* and cannot come back.
EndingIsGone(c) == Ending(c) => Open[c] = {} /\ "INVITE" \notin FromCaller[c]

\* A session is there for somebody, or for somebody's last word.
SessionInUse(c) ==
    faults.loss = 0 /\ Open[c] # {} =>
        \/ "INVITE" \in ToCallee[c] \/ callee[c] \in {"alerting", "answered", "up"}
        \/ "failure" \in FromCallee[c] \/ "BYE" \in FromCaller[c] \cup FromCallee[c]

\* A call has one session, from its INVITE to its end, and the session an owner.
OneSession(c) ==
    /\ Alone(c) /\ ~InviteRepeats(c) /\ ~OutRepeats(c)
    /\ InviteFirst(c)
    /\ "INVITE" \in ToCallee[c] => callee[c] = "idle"
    /\ EndingIsGone(c)
    /\ SessionInUse(c)

LEMMA CallerOneSession ==
    ASSUME NEW c \in CallIds, CallTypes(c), Meanings(c), OneSession(c),
           CallerActs(c) \/ CallerHearsOne(c)
    PROVE  OneSession(c)'
  <1>1. PICK next \in CallerStates, says \in SUBSET CallerSays :
           /\ CallerSends(c, next, says)
           /\ \/ CallerTurns(c, next, says) /\ ToCaller'[c] = ToCaller[c]
              \/ \E x \in CallerHears : /\ ToCaller[c] = ToCaller'[c] \cup {x}
                                        /\ CallerAnswer(caller[c], x, next, says)
    BY DEF CallerActs, CallerHearsOne
  <1>2. /\ caller'[c] = next /\ callee'[c] = callee[c] /\ faults' = faults
        /\ FromCaller'[c] = FromCaller[c] \cup says /\ FromCallee'[c] = FromCallee[c]
        /\ ToCaller'[c] \subseteq ToCaller[c] /\ ToCallee'[c] = ToCallee[c]
        /\ Open'[c] = Open[c] /\ Alone(c)' /\ ~OutRepeats(c)'
        /\ InviteRepeats(c)' => "INVITE" \in says /\ "INVITE" \in FromCaller[c]
    BY <1>1 DEF CallerSends, CallerAdds, SameSessions, OrderKept, OneSession
  <1>3. "INVITE" \in says => next = "calling" /\ caller[c] = "idle"
    BY <1>1 DEF CallerTurns, CallerAnswer
  <1>4. caller[c] = "idle" => Silent(c) /\ callee[c] = "idle" /\ Open[c] = {}
    BY DEF Meanings, NotBegun
  <1>5. ~InviteRepeats(c)'
    BY <1>2, <1>3, <1>4 DEF Silent
  <1>6. InviteFirst(c)'
    <2>1. "INVITE" \in FromCaller[c] =>
             next \in {"calling", "cancelling"}
      BY <1>1 DEF CallerTurns, CallerAnswer, OneSession, InviteFirst, Meanings, AnswerMeans, Silent
    <2> QED
      BY <1>2, <1>3, <1>4, <2>1 DEF InviteFirst, OneSession, Silent
  <1>7. EndingIsGone(c)'
    <2>1. says \cap {"byeOk", "byeFailed", "cancelOk", "cancelFailed"} # {} => "BYE" \in ToCaller[c]
      BY <1>1 DEF CallerTurns, CallerAnswer
    <2>2. Ending(c)' => Ending(c)
      BY <1>2, <2>1 DEF Ending
    <2>3. "INVITE" \in says => ~Ending(c)
      BY <1>3, <1>4 DEF Silent, Ending
    <2> QED
      BY <1>2, <2>2, <2>3 DEF EndingIsGone, OneSession
  <1>8. SessionInUse(c)'
    BY <1>2 DEF SessionInUse, OneSession
  <1> QED
    BY <1>2, <1>5, <1>6, <1>7, <1>8 DEF OneSession

LEMMA CalleeOneSession ==
    ASSUME NEW c \in CallIds, CallTypes(c), Meanings(c), OneSession(c),
           CalleeActs(c) \/ CalleeHearsOne(c)
    PROVE  OneSession(c)'
  <1>1. PICK next \in CalleeStates, says \in SUBSET CalleeSays :
           /\ CalleeSends(c, next, says)
           /\ \/ CalleeTurns(c, next, says) /\ ToCallee'[c] = ToCallee[c]
              \/ \E x \in CalleeHears : /\ ToCallee[c] = ToCallee'[c] \cup {x}
                                        /\ x = "INVITE" => "INVITE" \notin ToCallee'[c]
                                        /\ CalleeAnswer(callee[c], x, next, says)
    BY DEF CalleeActs, CalleeHearsOne, OneSession
  <1>2. /\ callee'[c] = next /\ caller'[c] = caller[c] /\ faults' = faults
        /\ FromCallee'[c] = FromCallee[c] \cup says /\ FromCaller'[c] = FromCaller[c]
        /\ ToCallee'[c] \subseteq ToCallee[c] /\ ToCaller'[c] = ToCaller[c]
        /\ Open'[c] = Open[c] /\ Alone(c)' /\ ~OutRepeats(c)' /\ ~InviteRepeats(c)'
    BY <1>1 DEF CalleeSends, CalleeAdds, SameSessions, OrderKept, OneSession, CalleeSays
  <1>3. "INVITE" \notin ToCallee[c] /\ callee[c] = "idle" => next = "idle"
    BY <1>1 DEF CalleeTurns, CalleeAnswer
  <1>4. InviteFirst(c)'
    BY <1>2, <1>3 DEF InviteFirst, OneSession
  <1>5. "INVITE" \in ToCallee'[c] => next = "idle"
    BY <1>1, <1>2 DEF CalleeTurns, CalleeAnswer, OneSession
  <1>6. EndingIsGone(c)'
    <2>1. says \cap {"byeOk", "byeFailed", "cancelOk", "cancelFailed"} # {} =>
             ToCallee[c] \cap {"BYE", "CANCEL"} # {}
      BY <1>1 DEF CalleeTurns, CalleeAnswer
    <2>2. Ending(c)' => Ending(c)
      BY <1>2, <2>1 DEF Ending
    <2> QED
      BY <1>2, <2>2 DEF EndingIsGone, OneSession
  <1>7. SessionInUse(c)'
    <2>1. SUFFICES ASSUME faults.loss = 0, Open[c] # {}
                   PROVE  \/ "INVITE" \in ToCallee'[c] \/ next \in {"alerting", "answered", "up"}
                          \/ "failure" \in FromCallee'[c]
                          \/ "BYE" \in FromCaller'[c] \cup FromCallee'[c]
      BY <1>2 DEF SessionInUse
    <2>2. ToCallee[c] \cap {"BYE", "CANCEL", "byeOk", "byeFailed"} = {}
      BY <2>1 DEF OneSession, EndingIsGone, Ending
    <2>3. \/ "INVITE" \in ToCallee[c] /\ callee[c] = "idle"
          \/ callee[c] \in {"alerting", "answered", "up"}
          \/ "failure" \in FromCallee[c] \/ "BYE" \in FromCaller[c] \cup FromCallee[c]
      BY <2>1 DEF OneSession, SessionInUse
    <2>4. CASE "failure" \in FromCallee[c] \/ "BYE" \in FromCaller[c] \cup FromCallee[c]
      BY <1>2, <2>4
    <2>5. CASE "INVITE" \in ToCallee[c] /\ callee[c] = "idle"
      BY <1>1, <1>2, <2>2, <2>5 DEF CalleeTurns, CalleeAnswer
    <2>6. CASE callee[c] \in {"alerting", "answered", "up"}
      BY <1>1, <1>2, <2>2, <2>6 DEF CalleeTurns, CalleeAnswer
    <2> QED
      BY <2>3, <2>4, <2>5, <2>6
  <1> QED
    BY <1>2, <1>4, <1>5, <1>6, <1>7 DEF OneSession

LEMMA ProxyOneSession ==
    ASSUME NEW c \in CallIds, CallTypes(c), Meanings(c), OneSession(c), ProxyOf(c)
    PROVE  OneSession(c)'
  <1>1. /\ caller'[c] = caller[c] /\ callee'[c] = callee[c] /\ faults' = faults
        /\ FromCaller'[c] \subseteq FromCaller[c] /\ FromCallee'[c] \subseteq FromCallee[c]
        /\ ~InviteRepeats(c)'
    BY DEF ProxyOf, ProxyTakes, OrderKept, OneSession
  <1>a. "INVITE" \in FromCaller[c] =>
           callee[c] = "idle" /\ Open[c] = {} /\ "INVITE" \notin ToCallee[c]
    BY DEF OneSession, InviteFirst
  <1>2. CASE \E x \in CallerSays :
                /\ FromCaller[c] = FromCaller'[c] \cup {x} /\ FromCallee'[c] = FromCallee[c]
                /\ x = "INVITE" => "INVITE" \notin FromCaller'[c]
                /\ CallerServed(c, x)
    <2>1. PICK x \in FromCaller[c] :
                /\ FromCaller[c] = FromCaller'[c] \cup {x} /\ FromCallee'[c] = FromCallee[c]
                /\ x = "INVITE" => "INVITE" \notin FromCaller'[c]
                /\ CallerServed(c, x)
      BY <1>2
    <2>2. Alone(c)'
      BY <2>1, <1>a DEF CallerServed, SameSessions, Opens, Frees, OneSession
    <2>3. ~OutRepeats(c)'
      BY <2>1, <1>a DEF CallerServed, Routes, OneSession
    <2>4. "INVITE" \in ToCallee'[c] => callee[c] = "idle"
      BY <2>1, <1>a DEF CallerServed, Routes, OneSession
    <2>5. /\ x # "INVITE" => Open'[c] \subseteq Open[c] /\ ("INVITE" \in ToCallee'[c] => "INVITE" \in ToCallee[c])
          /\ x # "INVITE" => ("failure" \in ToCaller'[c] => "failure" \in ToCaller[c])
      BY <2>1 DEF CallerServed, Routes, SameSessions, Frees
    <2>6. InviteFirst(c)'
      BY <1>1, <2>1, <2>5 DEF InviteFirst, OneSession
    <2>7. EndingIsGone(c)'
      <3>1. CASE x = "INVITE"
        <4>1. ~Ending(c)
          BY <2>1, <3>1 DEF OneSession, EndingIsGone
        <4>2. ~Ending(c)'
          BY <1>1, <2>1, <3>1, <4>1 DEF Ending, CallerServed, Routes
        <4> QED
          BY <4>2 DEF EndingIsGone
      <3>2. CASE x = "BYE"
        <4>1. "INVITE" \notin FromCaller[c]
          BY <2>1, <3>2 DEF Meanings, ByeMeans, OneSession, InviteFirst, Out
        <4>2. Open'[c] = {}
          BY <2>1, <3>2 DEF CallerServed, SameSessions, Frees, OneSession
        <4> QED
          BY <1>1, <4>1, <4>2 DEF EndingIsGone
      <3>3. CASE x \in {"byeOk", "byeFailed"}
        <4>1. Open[c] = {} /\ "INVITE" \notin FromCaller[c]
          BY <2>1, <3>3 DEF OneSession, EndingIsGone, Ending
        <4> QED
          BY <1>1, <2>5, <3>3, <4>1 DEF EndingIsGone
      <3>4. CASE x = "CANCEL" /\ Frees(c)
        <4>1. Open'[c] = {} /\ "INVITE" \notin FromCaller[c]
          BY <1>a, <3>4 DEF Frees, OneSession
        <4> QED
          BY <1>1, <4>1 DEF EndingIsGone
      <3>5. CASE x \in {"CANCEL", "ACK"} /\ SameSessions(c)
        <4>1. Ending(c)' => Ending(c) \/ (x = "CANCEL" /\ Frees(c))
          BY <1>1, <2>1, <3>5 DEF Ending, CallerServed, Routes
        <4>2. Frees(c) => Open[c] # {} /\ Open'[c] = {}
          BY DEF Frees, OneSession
        <4> QED
          BY <1>1, <3>5, <4>1, <4>2 DEF EndingIsGone, OneSession, SameSessions
      <3>6. x \in {"INVITE", "BYE", "byeOk", "byeFailed", "CANCEL", "ACK"}
        BY <2>1 DEF CallerServed
      <3>7. x \in {"CANCEL", "ACK"} => (x = "CANCEL" /\ Frees(c)) \/ SameSessions(c)
        BY <2>1 DEF CallerServed
      <3> QED
        BY <3>1, <3>2, <3>3, <3>4, <3>5, <3>6, <3>7
    <2>8. SessionInUse(c)'
      <3>1. CASE x = "INVITE"
        BY <1>1, <1>a, <2>1, <3>1 DEF SessionInUse, CallerServed, Routes, SameSessions, Opens
      <3>2. CASE x = "BYE"
        BY <2>1, <3>2 DEF SessionInUse, CallerServed, Frees, SameSessions, OneSession
      <3>3. CASE x \notin {"INVITE", "BYE"}
        <4>1. ToCallee[c] \subseteq ToCallee'[c] /\ Open'[c] \subseteq Open[c]
          BY <2>1, <2>5, <3>3 DEF CallerServed, Routes
        <4> QED
          BY <1>1, <2>1, <3>3, <4>1 DEF SessionInUse, OneSession
      <3> QED
        BY <3>1, <3>2, <3>3
    <2> QED
      BY <1>1, <2>2, <2>3, <2>4, <2>6, <2>7, <2>8 DEF OneSession
  <1>3. CASE \E x \in CalleeSays :
                /\ FromCallee[c] = FromCallee'[c] \cup {x} /\ FromCaller'[c] = FromCaller[c]
                /\ CalleeServed(c, x)
    <2>1. PICK x \in FromCallee[c] :
                /\ FromCallee[c] = FromCallee'[c] \cup {x} /\ FromCaller'[c] = FromCaller[c]
                /\ CalleeServed(c, x)
      BY <1>3
    <2>2. Alone(c)' /\ (Open[c] = {} => Open'[c] = {})
      BY <2>1 DEF CalleeServed, SameSessions, Turns, Frees, OneSession
    <2>3. /\ ~OutRepeats(c)' /\ ("INVITE" \in ToCallee'[c] => "INVITE" \in ToCallee[c])
          /\ ToCallee[c] \subseteq ToCallee'[c]
          /\ "failure" \in ToCaller'[c] => "failure" \in ToCaller[c] \/ x = "failure"
      BY <2>1 DEF CalleeServed, Routes, OneSession
    <2>4. InviteFirst(c)'
      <3>1. x = "failure" => callee[c] # "idle"
        BY <2>1 DEF Meanings, AnswerMeans
      <3> QED
        BY <1>1, <2>1, <2>2, <2>3, <3>1 DEF InviteFirst, OneSession
    <2>5. EndingIsGone(c)'
      <3>1. CASE x = "BYE"
        <4>1. "INVITE" \notin FromCaller[c]
          BY <2>1, <1>a, <3>1 DEF Meanings, ByeMeans, Out
        <4>2. Open'[c] = {}
          BY <2>1, <3>1 DEF CalleeServed, SameSessions, Frees, OneSession
        <4> QED
          BY <1>1, <4>1, <4>2 DEF EndingIsGone
      <3>2. CASE x # "BYE"
        <4>1. Ending(c)' => Ending(c)
          BY <1>1, <2>1, <3>2 DEF Ending, CalleeServed, Routes
        <4> QED
          BY <1>1, <2>2, <4>1 DEF EndingIsGone, OneSession
      <3> QED
        BY <3>1, <3>2
    <2>6. SessionInUse(c)'
      <3>1. Open'[c] = {} \/ (Open[c] # {} /\ x \notin {"failure", "BYE"})
        BY <2>1, <2>2 DEF CalleeServed, Frees, SameSessions, OneSession
      <3> QED
        BY <1>1, <2>1, <2>3, <3>1 DEF SessionInUse, OneSession
    <2> QED
      BY <1>1, <2>2, <2>3, <2>4, <2>5, <2>6 DEF OneSession
  <1> QED
    BY <1>2, <1>3 DEF ProxyOf, ProxyTakes, OneSession

LEMMA NetworkOneSession ==
    ASSUME MaxDup = 0, NEW c \in CallIds, CallTypes(c), OneSession(c), NetworkOf(c) \/ Untouched(c)
    PROVE  OneSession(c)'
  <1>1. /\ caller'[c] = caller[c] /\ callee'[c] = callee[c] /\ Open'[c] = Open[c]
        /\ FromCaller'[c] \subseteq FromCaller[c] /\ FromCallee'[c] \subseteq FromCallee[c]
        /\ ToCaller'[c] \subseteq ToCaller[c] /\ ToCallee'[c] \subseteq ToCallee[c]
        /\ \/ faults'.loss # 0
           \/ faults'.loss = faults.loss /\ SameSignals(c)
    BY DEF NetworkOf, Untouched, Loses, Duplicates, Swaps, SameSignals, SameSessions
  <1>2. Alone(c)' /\ ~InviteRepeats(c)' /\ ~OutRepeats(c)'
    BY DEF NetworkOf, Untouched, Loses, Duplicates, Swaps, SameSessions, OrderKept, OneSession
  <1>3. InviteFirst(c)' /\ EndingIsGone(c)' /\ ("INVITE" \in ToCallee'[c] => callee[c] = "idle")
    BY <1>1 DEF OneSession, InviteFirst, EndingIsGone, Ending
  <1>4. SessionInUse(c)'
    BY <1>1 DEF OneSession, SessionInUse, SameSignals
  <1> QED
    BY <1>1, <1>2, <1>3, <1>4 DEF OneSession

LEMMA CleanupOneSession ==
    ASSUME NEW c \in CallIds, OneSession(c), CleanupOf(c)
    PROVE  OneSession(c)'
  <1>1. /\ caller'[c] = caller[c] /\ callee'[c] = callee[c]
        /\ SameSignals(c) /\ Open'[c] = {} /\ Alone(c)'
        /\ ~InviteRepeats(c)' /\ ~OutRepeats(c)'
    BY DEF CleanupOf, Frees, OrderKept, OneSession
  <1>2. InviteFirst(c)' /\ EndingIsGone(c)' /\ ("INVITE" \in ToCallee'[c] => callee[c] = "idle")
    BY <1>1 DEF OneSession, InviteFirst, EndingIsGone, Ending, SameSignals
  <1>3. SessionInUse(c)'
    BY <1>1 DEF SessionInUse
  <1> QED
    BY <1>1, <1>2, <1>3 DEF OneSession

\* Without duplicates, no step breaks it.
LEMMA OneSessionKept ==
    ASSUME MaxDup = 0, NEW c \in CallIds, CallTypes(c), Meanings(c), OneSession(c), CallStep(c)
    PROVE  OneSession(c)'
  BY CallerOneSession, CalleeOneSession, ProxyOneSession, NetworkOneSession, CleanupOneSession
     DEF CallStep, PhoneOf

-----------------------------------------------------------------------------
(* Nobody is forgotten: when no message is lost, duplicated or swapped, and the cleanup
   has not ended the call *)

\* The caller waits: its INVITE, or what became of it, is on its way.
Awaits(c) ==
    caller[c] = "calling" =>
        \/ "INVITE" \in FromCaller[c] \cup ToCallee[c] \/ callee[c] = "alerting"
        \/ "ok" \in FromCallee[c] \/ ("failure" \in FromCallee[c] /\ Open[c] # {})
        \/ ToCaller[c] \cap {"ok", "failure"} # {}

\* The callee does not get ahead of the caller.
CalleeBehind(c) ==
    /\ "BYE" \in FromCallee[c] \/ callee[c] \in {"up", "ending"} => caller[c] # "calling"
    /\ "INVITE" \in ToCallee[c] \/ callee[c] = "alerting" => caller[c] \in {"calling", "cancelling"}
    /\ "ACK" \in FromCaller[c] \cup ToCallee[c] \/ callee[c] = "up" =>
          caller[c] \notin {"idle", "calling", "cancelling"}
    /\ "ok" \in FromCallee[c] \cup ToCaller[c] /\ caller[c] = "calling" => callee[c] = "answered"

\* The session is there as long as it is needed, ESTABLISHED once the answer passed.
HasSession(c) ==
    /\ /\ caller[c] = "calling"
       /\ \/ "INVITE" \in ToCallee[c] \/ callee[c] = "alerting"
          \/ "ok" \in FromCallee[c] \cup ToCaller[c]
       => Open[c] # {}
    /\ /\ "ok" \in ToCaller[c] /\ caller[c] \in {"calling", "cancelling"}
       /\ callee[c] \in {"answered", "up"}
       => Open[c] # {}
    /\ caller[c] \in {"up", "ending"} \/ "ok" \in ToCaller[c] => Open[c] \subseteq {"ESTABLISHED"}

\* A refused call is refused for good.
Refused(c) ==
    /\ "failure" \in FromCallee[c] => callee[c] = "done"
    /\ "failure" \in ToCaller[c] =>
          callee[c] \in {"idle", "done"} /\ "INVITE" \notin FromCaller[c] \cup ToCallee[c]
    /\ "failure" \in FromCallee[c] \cup ToCaller[c] =>
          caller[c] \notin {"up", "ending"} /\ "ok" \notin FromCallee[c] \cup ToCaller[c]

\* The BYE of the one that hung up reaches the other.
HangsUp(c) ==
    /\ callee[c] \in {"answered", "up"} /\ caller[c] \in {"up", "ending", "done"} =>
          \/ caller[c] = "up" /\ Open[c] # {}
          \/ caller[c] = "ending" /\ Open[c] # {} /\ "BYE" \in FromCaller[c]
          \/ "BYE" \in ToCallee[c]
    /\ caller[c] = "up" /\ callee[c] \in {"ending", "done"} =>
          ("BYE" \in FromCallee[c] /\ Open[c] # {}) \/ "BYE" \in ToCaller[c]

\* Whoever waits has something, or somebody, to wait for.
Unlost(c) == Awaits(c) /\ CalleeBehind(c) /\ HasSession(c) /\ Refused(c) /\ HangsUp(c)

LEMMA CallerUnlost ==
    ASSUME NEW c \in CallIds, Caller[c].port # SipPort, CallTypes(c), Meanings(c), OneSession(c),
           Unlost(c), CallerActs(c) \/ CallerHearsOne(c)
    PROVE  Unlost(c)'
  <1>1. PICK next \in CallerStates, says \in SUBSET CallerSays :
           /\ CallerSends(c, next, says)
           /\ \/ CallerTurns(c, next, says) /\ ToCaller'[c] = ToCaller[c]
              \/ \E x \in CallerHears : /\ ToCaller[c] = ToCaller'[c] \cup {x}
                                        /\ CallerAnswer(caller[c], x, next, says)
    BY DEF CallerActs, CallerHearsOne
  <1>2. /\ caller'[c] = next /\ callee'[c] = callee[c]
        /\ FromCaller'[c] = FromCaller[c] \cup says /\ FromCallee'[c] = FromCallee[c]
        /\ ToCaller'[c] \subseteq ToCaller[c] /\ ToCallee'[c] = ToCallee[c]
        /\ Open'[c] = Open[c]
    BY <1>1 DEF CallerSends, CallerAdds, SameSessions
  <1>3. caller[c] = "idle" => Silent(c) /\ callee[c] = "idle" /\ Open[c] = {}
    BY DEF Meanings, NotBegun
  <1>4. Awaits(c)'
    <2>1. next = "calling" /\ caller[c] # "calling" => "INVITE" \in says
      BY <1>1 DEF CallerTurns, CallerAnswer
    <2>2. next = "calling" /\ caller[c] = "calling" =>
             ToCaller[c] \cap {"ok", "failure"} \subseteq ToCaller'[c]
      BY <1>1 DEF CallerTurns, CallerAnswer
    <2> QED
      BY <1>2, <2>1, <2>2 DEF Awaits, Unlost
  <1>5. CalleeBehind(c)'
    <2>1. next = "calling" => caller[c] \in {"idle", "calling"}
      BY <1>1 DEF CallerTurns, CallerAnswer
    <2>2. next \in {"idle", "calling", "cancelling"} =>
             caller[c] \in {"idle", "calling", "cancelling"} /\ "ACK" \notin says
      BY <1>1 DEF CallerTurns, CallerAnswer
    <2>3. caller[c] \in {"calling", "cancelling"} =>
             \/ next \in {"calling", "cancelling"}
             \/ "ok" \in ToCaller[c] \/ "failure" \in ToCaller[c]
             \/ Silent(c) /\ callee[c] # "alerting"
      BY <1>1 DEF CallerTurns, CallerAnswer
    <2>4. "INVITE" \in ToCallee[c] \/ callee[c] = "alerting" => next \in {"calling", "cancelling"}
      BY <2>3 DEF Unlost, CalleeBehind, Refused, OneSession, Meanings, AnswerMeans, Silent
    <2> QED
      BY <1>2, <1>3, <2>1, <2>2, <2>4 DEF CalleeBehind, Unlost, Silent
  <1>6. HasSession(c)'
    <2>1. next = "calling" => caller[c] \in {"idle", "calling"}
      BY <1>1 DEF CallerTurns, CallerAnswer
    <2>2. next \in {"calling", "cancelling"} => caller[c] \in {"idle", "calling", "cancelling"}
      BY <1>1 DEF CallerTurns, CallerAnswer
    <2>3. next \in {"up", "ending"} => caller[c] \in {"up", "ending"} \/ "ok" \in ToCaller[c]
      BY <1>1 DEF CallerTurns, CallerAnswer
    <2> QED
      BY <1>2, <1>3, <2>1, <2>2, <2>3 DEF HasSession, Unlost, Silent
  <1>7. Refused(c)'
    <2>1. "failure" \in FromCallee[c] \cup ToCaller[c] => next \notin {"up", "ending"}
      BY <1>1 DEF CallerTurns, CallerAnswer, Unlost, Refused
    <2>2. "INVITE" \in says => caller[c] = "idle"
      BY <1>1 DEF CallerTurns, CallerAnswer
    <2> QED
      BY <1>2, <1>3, <2>1, <2>2 DEF Refused, Unlost, Silent
  <1>8. HangsUp(c)'
    <2>1. callee[c] \in {"answered", "up"} /\ next \in {"up", "ending", "done"} =>
             \/ next = "up" /\ Open[c] # {}
             \/ next = "ending" /\ Open[c] # {} /\ "BYE" \in FromCaller'[c]
             \/ "BYE" \in ToCallee[c]
      <3> SUFFICES ASSUME callee[c] \in {"answered", "up"}, next \in {"up", "ending", "done"},
                          "BYE" \notin ToCallee[c]
                   PROVE  \/ next = "up" /\ Open[c] # {}
                          \/ next = "ending" /\ Open[c] # {} /\ "BYE" \in FromCaller'[c]
        OBVIOUS
      <3>1. caller[c] # "idle" /\ "failure" \notin ToCaller[c] /\ "BYE" \notin ToCaller[c]
        BY <1>3 DEF Unlost, Refused, Meanings, ByeMeans, Out
      <3>2. \/ caller[c] \in {"calling", "cancelling"}
            \/ caller[c] = "up" /\ Open[c] # {}
            \/ caller[c] = "ending" /\ Open[c] # {} /\ "BYE" \in FromCaller[c]
        BY <3>1 DEF Unlost, HangsUp, CallTypes, CallerStates
      <3>3. CASE caller[c] \in {"calling", "cancelling"}
        <4>1. callee[c] = "answered"
          BY <3>3 DEF Unlost, CalleeBehind
        <4>2. /\ "ok" \in ToCaller[c]
              /\ next = "up" \/ (next = "ending" /\ "BYE" \in says)
          BY <1>1, <3>1, <3>3, <4>1 DEF CallerTurns, CallerAnswer
        <4> QED
          BY <1>2, <3>3, <4>1, <4>2 DEF Unlost, HasSession
      <3>4. CASE caller[c] = "up" /\ Open[c] # {}
        BY <1>1, <1>2, <3>1, <3>4 DEF CallerTurns, CallerAnswer
      <3>5. CASE caller[c] = "ending" /\ Open[c] # {} /\ "BYE" \in FromCaller[c]
        <4>1. ToCaller[c] \cap {"byeOk", "byeFailed"} = {}
          BY <3>5 DEF OneSession, EndingIsGone, Ending
        <4> QED
          BY <1>1, <1>2, <3>1, <3>5, <4>1 DEF CallerTurns, CallerAnswer, Silent
      <3> QED
        BY <3>2, <3>3, <3>4, <3>5
    <2>2. next = "up" /\ callee[c] \in {"ending", "done"} =>
             ("BYE" \in FromCallee[c] /\ Open[c] # {}) \/ "BYE" \in ToCaller'[c]
      <3> SUFFICES ASSUME next = "up", callee[c] \in {"ending", "done"}
                   PROVE  ("BYE" \in FromCallee[c] /\ Open[c] # {}) \/ "BYE" \in ToCaller'[c]
        OBVIOUS
      <3>1. caller[c] # "calling" \/ "ok" \notin ToCaller[c]
        BY DEF Unlost, CalleeBehind
      <3>2. caller[c] = "up" /\ ("BYE" \in ToCaller[c] => "BYE" \in ToCaller'[c])
        BY <1>1, <3>1 DEF CallerTurns, CallerAnswer
      <3> QED
        BY <3>2 DEF Unlost, HangsUp
    <2> QED
      BY <1>2, <2>1, <2>2 DEF HangsUp
  <1> QED
    BY <1>4, <1>5, <1>6, <1>7, <1>8 DEF Unlost

LEMMA CalleeUnlost ==
    ASSUME NEW c \in CallIds, Caller[c].port # SipPort, CallTypes(c), Meanings(c), OneSession(c),
           Unlost(c), CalleeActs(c) \/ CalleeHearsOne(c)
    PROVE  Unlost(c)'
  <1>1. PICK next \in CalleeStates, says \in SUBSET CalleeSays :
           /\ CalleeSends(c, next, says)
           /\ \/ CalleeTurns(c, next, says) /\ ToCallee'[c] = ToCallee[c]
              \/ \E x \in CalleeHears : /\ ToCallee[c] = ToCallee'[c] \cup {x}
                                        /\ x = "INVITE" => "INVITE" \notin ToCallee'[c]
                                        /\ CalleeAnswer(callee[c], x, next, says)
    BY DEF CalleeActs, CalleeHearsOne, OneSession
  <1>2. /\ callee'[c] = next /\ caller'[c] = caller[c]
        /\ FromCallee'[c] = FromCallee[c] \cup says /\ FromCaller'[c] = FromCaller[c]
        /\ ToCallee'[c] \subseteq ToCallee[c] /\ ToCaller'[c] = ToCaller[c]
        /\ Open'[c] = Open[c]
    BY <1>1 DEF CalleeSends, CalleeAdds, SameSessions
  <1>3. "INVITE" \in ToCallee[c] => callee[c] = "idle"
    BY DEF OneSession
  <1>4. Awaits(c)'
    <2>1. SUFFICES ASSUME caller[c] = "calling"
                   PROVE  \/ "INVITE" \in FromCaller[c] \cup ToCallee'[c] \/ next = "alerting"
                          \/ "ok" \in FromCallee'[c] \/ ("failure" \in FromCallee'[c] /\ Open[c] # {})
                          \/ ToCaller[c] \cap {"ok", "failure"} # {}
      BY <1>2 DEF Awaits
    <2>2. CASE "INVITE" \in ToCallee[c]
      BY <1>1, <1>3, <2>2 DEF CalleeTurns, CalleeAnswer
    <2>3. CASE callee[c] = "alerting"
      <3>1. Open[c] # {} /\ "CANCEL" \notin ToCallee[c]
        BY <2>1, <2>3 DEF Unlost, HasSession, Meanings, CancelMeans, Left
      <3> QED
        BY <1>1, <1>2, <2>3, <3>1 DEF CalleeTurns, CalleeAnswer
    <2> QED
      BY <1>2, <2>1, <2>2, <2>3 DEF Unlost, Awaits
  <1>5. CalleeBehind(c)'
    <2>1. caller[c] = "calling" => next \notin {"up", "ending"} /\ "BYE" \notin FromCallee'[c]
      <3> SUFFICES ASSUME caller[c] = "calling"
                   PROVE  next \notin {"up", "ending"} /\ "BYE" \notin FromCallee'[c]
        OBVIOUS
      <3>1. /\ callee[c] \notin {"up", "ending"} /\ "BYE" \notin FromCallee[c]
            /\ "ACK" \notin ToCallee[c]
        BY DEF Unlost, CalleeBehind
      <3>2. Silent(c) => callee[c] # "answered"
        BY DEF Unlost, Awaits, Silent
      <3> QED
        BY <1>1, <1>2, <3>1, <3>2 DEF CalleeTurns, CalleeAnswer
    <2>2. next = "alerting" => "INVITE" \in ToCallee[c] \/ callee[c] = "alerting"
      BY <1>1 DEF CalleeTurns, CalleeAnswer
    <2>3. next = "up" => "ACK" \in ToCallee[c] \/ callee[c] = "up"
      BY <1>1 DEF CalleeTurns, CalleeAnswer
    <2>4. "ok" \in FromCallee'[c] \cup ToCaller[c] /\ caller[c] = "calling" => next = "answered"
      <3> SUFFICES ASSUME "ok" \in FromCallee'[c] \cup ToCaller[c], caller[c] = "calling"
                   PROVE  next = "answered"
        OBVIOUS
      <3>1. "ACK" \notin ToCallee[c] /\ "BYE" \notin ToCallee[c]
        BY DEF Unlost, CalleeBehind, Meanings, ByeMeans, Out
      <3>2. CASE "ok" \in FromCallee[c] \cup ToCaller[c]
        <4>1. callee[c] = "answered" /\ ~Silent(c)
          BY <3>2 DEF Unlost, CalleeBehind, Silent
        <4> QED
          BY <1>1, <3>1, <4>1 DEF CalleeTurns, CalleeAnswer
      <3>3. CASE "ok" \in says
        BY <1>1, <3>3 DEF CalleeTurns, CalleeAnswer
      <3> QED
        BY <1>2, <3>2, <3>3
    <2> QED
      BY <1>2, <2>1, <2>2, <2>3, <2>4 DEF CalleeBehind, Unlost
  <1>6. HasSession(c)'
    <2>1. /\ next = "alerting" => "INVITE" \in ToCallee[c] \/ callee[c] = "alerting"
          /\ "ok" \in says => callee[c] = "alerting"
          /\ next \in {"answered", "up"} => callee[c] \in {"alerting", "answered", "up"}
      BY <1>1 DEF CalleeTurns, CalleeAnswer
    <2>2. callee[c] = "alerting" => "ok" \notin ToCaller[c]
      BY DEF Meanings, AnswerMeans
    <2> QED
      BY <1>2, <2>1, <2>2 DEF HasSession, Unlost
  <1>7. Refused(c)'
    <2>1. /\ "failure" \in says => callee[c] = "alerting" /\ next = "done" /\ "ok" \notin says
          /\ "ok" \in says => callee[c] = "alerting" /\ next # "done"
          /\ callee[c] = "done" => next = "done" /\ "ok" \notin says
          /\ callee[c] = "idle" /\ "INVITE" \notin ToCallee[c] => next = "idle"
      BY <1>1 DEF CalleeTurns, CalleeAnswer
    <2>2. callee[c] = "alerting" =>
             /\ "ok" \notin FromCallee[c] \cup ToCaller[c] /\ caller[c] \notin {"up", "ending"}
             /\ "failure" \notin FromCallee[c] \cup ToCaller[c]
      BY DEF Meanings, AnswerMeans, Unlost, Refused
    <2> QED
      BY <1>2, <2>1, <2>2 DEF Refused, Unlost
  <1>8. HangsUp(c)'
    <2>1. next \in {"answered", "up"} /\ caller[c] \in {"up", "ending", "done"} =>
             \/ caller[c] = "up" /\ Open[c] # {}
             \/ caller[c] = "ending" /\ Open[c] # {} /\ "BYE" \in FromCaller[c]
             \/ "BYE" \in ToCallee'[c]
      <3> SUFFICES ASSUME next \in {"answered", "up"}, caller[c] \in {"up", "ending", "done"}
                   PROVE  \/ caller[c] = "up" /\ Open[c] # {}
                          \/ caller[c] = "ending" /\ Open[c] # {} /\ "BYE" \in FromCaller[c]
                          \/ "BYE" \in ToCallee'[c]
        OBVIOUS
      <3>1. callee[c] # "alerting"
        BY DEF Unlost, CalleeBehind
      <3>2. /\ callee[c] \in {"answered", "up"}
            /\ "BYE" \in ToCallee[c] => "BYE" \in ToCallee'[c]
        BY <1>1, <3>1 DEF CalleeTurns, CalleeAnswer
      <3> QED
        BY <3>2 DEF Unlost, HangsUp
    <2>2. caller[c] = "up" /\ next \in {"ending", "done"} =>
             ("BYE" \in FromCallee'[c] /\ Open[c] # {}) \/ "BYE" \in ToCaller[c]
      <3> SUFFICES ASSUME caller[c] = "up", next \in {"ending", "done"}
                   PROVE  ("BYE" \in FromCallee'[c] /\ Open[c] # {}) \/ "BYE" \in ToCaller[c]
        OBVIOUS
      <3>1. "BYE" \notin ToCallee[c] /\ callee[c] \notin {"idle", "alerting"}
        BY DEF Meanings, ByeMeans, AnswerMeans, Out
      <3>2. CASE callee[c] \in {"ending", "done"}
        BY <1>2, <3>2 DEF Unlost, HangsUp
      <3>3. CASE callee[c] \in {"answered", "up"}
        <4>1. Open[c] # {}
          BY <3>1, <3>3 DEF Unlost, HangsUp
        <4>2. "BYE" \in says
          BY <1>1, <3>1, <3>3 DEF CalleeTurns, CalleeAnswer
        <4> QED
          BY <1>2, <4>1, <4>2
      <3> QED
        BY <3>1, <3>2, <3>3 DEF CallTypes, CalleeStates
    <2> QED
      BY <1>2, <2>1, <2>2 DEF HangsUp
  <1> QED
    BY <1>4, <1>5, <1>6, <1>7, <1>8 DEF Unlost

\* What the proxy does with a signal of the caller, and with one of the callee, leaves
\* nobody waiting.
LEMMA CallerServedUnlost ==
    ASSUME NEW c \in CallIds, Caller[c].port # SipPort, CallTypes(c), Meanings(c),
           InOrder(c), OneSession(c), Unlost(c),
           caller'[c] = caller[c], callee'[c] = callee[c],
           NEW x \in FromCaller[c],
           FromCaller[c] = FromCaller'[c] \cup {x}, FromCallee'[c] = FromCallee[c],
           x = "INVITE" => "INVITE" \notin FromCaller'[c],
           CallerServed(c, x)
    PROVE  Unlost(c)'
  <1>1. x = "INVITE" => /\ caller[c] \in {"calling", "cancelling"} /\ callee[c] = "idle"
                        /\ Open[c] = {} /\ "INVITE" \notin ToCallee[c]
                        /\ "failure" \notin ToCaller[c] /\ FromCallee[c] \cap {"ok", "failure"} = {}
                        /\ "ok" \notin ToCaller[c]
    BY DEF OneSession, InviteFirst, Meanings, AnswerMeans
  <1>2. /\ x = "BYE" => caller[c] \in Out
        /\ x = "CANCEL" => Left(c)
        /\ x \in {"byeOk", "byeFailed"} => Open[c] = {}
        /\ x = "ACK" => caller[c] \notin {"idle", "calling", "cancelling"}
    BY DEF Meanings, ByeMeans, CancelMeans, OneSession, EndingIsGone, Ending, Unlost, CalleeBehind
  <1>3. /\ ToCaller[c] \subseteq ToCaller'[c] /\ ToCallee[c] \subseteq ToCallee'[c]
        /\ "ok" \in ToCaller'[c] => "ok" \in ToCaller[c]
        /\ "failure" \in ToCaller'[c] => "failure" \in ToCaller[c] \/ x = "INVITE"
        /\ "INVITE" \in ToCallee'[c] => \/ "INVITE" \in ToCallee[c]
                                        \/ x = "INVITE" /\ Open'[c] = {"INVITE_SENT"}
        /\ "ACK" \in ToCallee'[c] => "ACK" \in ToCallee[c] \/ x = "ACK"
        /\ x = "INVITE" => "failure" \in ToCaller'[c] \/ "INVITE" \in ToCallee'[c]
    BY <1>1 DEF CallerServed, Routes, Opens
  <1>4. \/ Open'[c] = Open[c]
        \/ x = "INVITE" /\ Open'[c] = {"INVITE_SENT"}
        \/ x = "BYE" /\ "BYE" \in ToCallee'[c] /\ Open'[c] = {}
        \/ x = "CANCEL" /\ Open[c] \cap {"INVITE_SENT", "RINGING"} # {} /\ Open'[c] = {}
    BY <1>1, <1>2 DEF CallerServed, Routes, SameSessions, Opens, Frees, OneSession
  <1>5. Awaits(c)'
    <2>1. caller[c] = "calling" => x \notin {"BYE", "CANCEL"}
      BY <1>2 DEF Left, Out
    <2> QED
      BY <1>3, <1>4, <2>1 DEF Awaits, Unlost
  <1>6. CalleeBehind(c)'
    BY <1>1, <1>2, <1>3 DEF CalleeBehind, Unlost
  <1>7. HasSession(c)'
    <2>1. caller[c] = "calling" => x \notin {"BYE", "CANCEL"}
      BY <1>2 DEF Left, Out
    <2>2. caller[c] \in {"calling", "cancelling"} => x # "BYE"
      BY <1>2 DEF Out
    <2>3. "ok" \in ToCaller[c] \/ caller[c] \in {"up", "ending"} =>
             /\ Open[c] \cap {"INVITE_SENT", "RINGING"} = {}
             /\ x # "INVITE"
      BY <1>1 DEF HasSession, Unlost
    <2>4. "ok" \in FromCallee[c] => x # "INVITE"
      BY <1>1
    <2> QED
      BY <1>1, <1>3, <1>4, <2>1, <2>2, <2>3, <2>4 DEF HasSession, Unlost
  <1>8. Refused(c)'
    <2>1. x = "INVITE" => "INVITE" \notin FromCaller'[c] /\ ~("failure" \in ToCaller'[c] /\ "INVITE" \in ToCallee'[c])
      BY <1>1 DEF CallerServed, Routes
    <2> QED
      BY <1>1, <1>3, <2>1 DEF Refused, Unlost
  <1>9. HangsUp(c)'
    <2>1. caller[c] \in {"up", "ending"} =>
             /\ Open[c] \cap {"INVITE_SENT", "RINGING"} = {} /\ x # "INVITE"
      BY <1>1 DEF HasSession, Unlost
    <2>2. caller[c] = "up" => x # "BYE"
      BY <1>2 DEF Out
    <2>3. caller[c] = "up" => Open'[c] = Open[c]
      BY <1>4, <2>1, <2>2
    <2>4. caller[c] = "ending" => Open'[c] = Open[c] \/ "BYE" \in ToCallee'[c]
      BY <1>4, <2>1
    <2>5. x = "BYE" /\ Open[c] # {} => "BYE" \in ToCallee'[c]
      BY DEF CallerServed, Routes
    <2> QED
      BY <1>3, <2>3, <2>4, <2>5 DEF HangsUp, Unlost
  <1> QED
    BY <1>5, <1>6, <1>7, <1>8, <1>9 DEF Unlost

LEMMA CalleeServedUnlost ==
    ASSUME NEW c \in CallIds, Caller[c].port # SipPort, CallTypes(c), Meanings(c),
           InOrder(c), OneSession(c), Unlost(c),
           caller'[c] = caller[c], callee'[c] = callee[c],
           NEW x \in FromCallee[c],
           FromCallee[c] = FromCallee'[c] \cup {x}, FromCaller'[c] = FromCaller[c],
           CalleeServed(c, x)
    PROVE  Unlost(c)'
  <1>1. /\ x = "BYE" => callee[c] \in Out /\ caller[c] # "calling"
        /\ x \in {"cancelOk", "cancelFailed", "byeOk", "byeFailed"} => Open[c] = {}
        /\ x = "failure" => /\ callee[c] = "done" /\ caller[c] \notin {"up", "ending"}
                            /\ "ok" \notin FromCallee[c] \cup ToCaller[c]
        /\ x = "ringing" => "ok" \notin ToCaller[c] /\ caller[c] \notin {"up", "ending"}
        /\ x = "ok" => "failure" \notin ToCaller[c] \cup FromCallee[c]
    BY DEF Meanings, ByeMeans, OneSession, EndingIsGone, Ending, Unlost, CalleeBehind, Refused, InOrder, RingsFirst
  <1>2. /\ ToCaller[c] \subseteq ToCaller'[c] /\ ToCallee[c] \subseteq ToCallee'[c]
        /\ "ok" \in ToCaller'[c] => "ok" \in ToCaller[c] \/ x = "ok"
        /\ "failure" \in ToCaller'[c] => "failure" \in ToCaller[c] \/ x = "failure"
        /\ "INVITE" \in ToCallee'[c] => "INVITE" \in ToCallee[c]
        /\ "ACK" \in ToCallee'[c] => "ACK" \in ToCallee[c]
        /\ x \in {"ok", "failure"} /\ Open[c] # {} => x \in ToCaller'[c]
    BY DEF CalleeServed, Routes
  <1>3. \/ Open'[c] = Open[c]
        \/ x = "ringing" /\ Open[c] # {} /\ Open'[c] = {"RINGING"}
        \/ x = "ok" /\ Open[c] # {} /\ Open'[c] = {"ESTABLISHED"}
        \/ x = "failure" /\ Open'[c] = {} /\ "failure" \in ToCaller'[c]
        \/ x = "BYE" /\ Open'[c] = {} /\ "BYE" \in ToCaller'[c]
    BY <1>1 DEF CalleeServed, Routes, SameSessions, Turns, Frees, OneSession
  <1>4. "ok" \in ToCaller'[c] => "ok" \in ToCaller[c] \/ (x = "ok" /\ Open'[c] = {"ESTABLISHED"})
    BY DEF CalleeServed, Routes, Turns, OneSession
  <1>5. Awaits(c)'
    <2>1. SUFFICES ASSUME caller[c] = "calling"
                   PROVE  \/ "INVITE" \in FromCaller[c] \cup ToCallee[c] \/ callee[c] = "alerting"
                          \/ "ok" \in FromCallee'[c] \/ ("failure" \in FromCallee'[c] /\ Open'[c] # {})
                          \/ ToCaller'[c] \cap {"ok", "failure"} # {}
      BY <1>2 DEF Awaits
    <2>2. x = "ok" => "ok" \in ToCaller'[c]
      BY <1>2, <2>1 DEF Unlost, HasSession
    <2>3. x = "failure" /\ Open[c] # {} => "failure" \in ToCaller'[c]
      BY <1>2
    <2>4. x # "BYE"
      BY <1>1, <2>1
    <2>5. CASE x = "ok"
      BY <2>2, <2>5
    <2>6. CASE x = "failure"
      BY <1>2, <2>1, <2>3, <2>6 DEF Unlost, Awaits
    <2>7. CASE x \notin {"ok", "failure"}
      BY <1>2, <1>3, <2>1, <2>4, <2>7 DEF Unlost, Awaits
    <2> QED
      BY <2>5, <2>6, <2>7
  <1>6. CalleeBehind(c)'
    BY <1>2 DEF CalleeBehind, Unlost
  <1>7. HasSession(c)'
    <2>1. caller[c] = "calling" /\ ("INVITE" \in ToCallee[c] \/ callee[c] = "alerting" \/ "ok" \in FromCallee[c] \cup ToCaller[c])
             => Open'[c] # {}
      BY <1>1, <1>3 DEF Unlost, HasSession, OneSession
    <2>2. ASSUME "ok" \in ToCaller[c], caller[c] \in {"calling", "cancelling"},
                 callee[c] \in {"answered", "up"}
          PROVE  Open'[c] # {}
      <3>1. Open[c] # {}
        BY <2>2 DEF Unlost, HasSession
      <3>2. x \notin {"failure", "BYE"}
        BY <2>2, <1>1 DEF Out
      <3> QED
        BY <1>3, <3>1, <3>2
    <2>3. caller[c] \in {"up", "ending"} \/ "ok" \in ToCaller[c] => Open'[c] \subseteq {"ESTABLISHED"}
      BY <1>1, <1>3 DEF Unlost, HasSession
    <2> QED
      BY <1>2, <1>4, <2>1, <2>2, <2>3 DEF HasSession
  <1>8. Refused(c)'
    <2>1. x = "failure" => "INVITE" \notin FromCaller[c] \cup ToCallee[c]
      BY <1>1 DEF OneSession, InviteFirst
    <2> QED
      BY <1>1, <1>2, <2>1 DEF Refused, Unlost
  <1>9. HangsUp(c)'
    <2>1. callee[c] \in {"answered", "up"} /\ caller[c] \in {"up", "ending"} => (Open[c] # {} => Open'[c] # {})
      BY <1>1, <1>3 DEF Out
    <2>2. caller[c] = "up" /\ Open[c] # {} => Open'[c] # {} \/ "BYE" \in ToCaller'[c]
      BY <1>1, <1>3
    <2>3. x = "BYE" /\ Open[c] # {} => "BYE" \in ToCaller'[c]
      BY DEF CalleeServed, Routes
    <2> QED
      BY <1>2, <2>1, <2>2, <2>3 DEF HangsUp, Unlost
  <1> QED
    BY <1>5, <1>6, <1>7, <1>8, <1>9 DEF Unlost

\* Without loss, duplicates, swaps and cleanup, no step breaks it.
LEMMA UnlostKept ==
    ASSUME MaxDup = 0, MaxSwap = 0, NEW c \in CallIds, Caller[c].port # SipPort,
           CallTypes(c), Meanings(c), InOrder(c), OneSession(c),
           faults.loss = 0 /\ c \notin expired => Unlost(c), CallStep(c)
    PROVE  faults'.loss = 0 /\ c \notin expired' => Unlost(c)'
  <1>1. CASE NetworkOf(c)
    BY <1>1 DEF NetworkOf, Loses, Duplicates, Swaps
  <1> SUFFICES ASSUME ~NetworkOf(c), faults'.loss = 0, c \notin expired'
               PROVE  Unlost(c)'
    BY <1>1
  <1>0. c \notin expired /\ ~CleanupOf(c)
    BY DEF CallStep, CleanupOf
  <1>2. faults' = faults
    BY <1>0 DEF CallStep, PhoneOf, CallerActs, CallerHearsOne, CallerSends, CalleeActs, CalleeHearsOne,
           CalleeSends, ProxyOf, Untouched
  <1>3. Unlost(c)
    BY <1>0, <1>2
  <1>4. CASE PhoneOf(c)
    BY <1>3, <1>4, CallerUnlost, CalleeUnlost DEF PhoneOf
  <1>5. CASE ProxyOf(c)
    <2>1. caller'[c] = caller[c] /\ callee'[c] = callee[c]
      BY <1>5 DEF ProxyOf
    <2>2. CASE \E x \in CallerSays :
                  /\ FromCaller[c] = FromCaller'[c] \cup {x} /\ FromCallee'[c] = FromCallee[c]
                  /\ x = "INVITE" => "INVITE" \notin FromCaller'[c]
                  /\ CallerServed(c, x)
      <3>1. PICK x \in FromCaller[c] :
                  /\ FromCaller[c] = FromCaller'[c] \cup {x} /\ FromCallee'[c] = FromCallee[c]
                  /\ x = "INVITE" => "INVITE" \notin FromCaller'[c]
                  /\ CallerServed(c, x)
        BY <2>2
      <3> QED
        BY <1>3, <2>1, <3>1, CallerServedUnlost
    <2>3. CASE \E x \in CalleeSays :
                  /\ FromCallee[c] = FromCallee'[c] \cup {x} /\ FromCaller'[c] = FromCaller[c]
                  /\ CalleeServed(c, x)
      <3>1. PICK x \in FromCallee[c] :
                  /\ FromCallee[c] = FromCallee'[c] \cup {x} /\ FromCaller'[c] = FromCaller[c]
                  /\ CalleeServed(c, x)
        BY <2>3
      <3> QED
        BY <1>3, <2>1, <3>1, CalleeServedUnlost
    <2> QED
      BY <1>5, <2>2, <2>3 DEF ProxyOf, ProxyTakes, OneSession
  <1>6. CASE Untouched(c)
    <2>1. /\ caller'[c] = caller[c] /\ callee'[c] = callee[c] /\ Open'[c] = Open[c]
          /\ FromCaller'[c] = FromCaller[c] /\ FromCallee'[c] = FromCallee[c]
          /\ ToCaller'[c] = ToCaller[c] /\ ToCallee'[c] = ToCallee[c]
      BY <1>6 DEF Untouched, SameSessions
    <2> QED
      BY <1>3, <2>1 DEF Unlost, Awaits, CalleeBehind, HasSession, Refused, HangsUp
  <1> QED
    BY <1>0, <1>4, <1>5, <1>6 DEF CallStep

-----------------------------------------------------------------------------
(* The invariant of the calls, and what follows from it *)

\* The inductive invariant: each part where the faults that would break it are
\* absent, and, where it says that a session is still there, of calls that the cleanup
\* has not ended.
CallsInv ==
    /\ PhonesInv
    /\ \A c \in CallIds :
          /\ Meanings(c)
          /\ MaxSwap = 0 => InOrder(c)
          /\ MaxDup = 0 => OneSession(c)
          /\ /\ MaxSwap = 0 /\ MaxDup = 0 /\ Caller[c].port # SipPort
             /\ faults.loss = 0 /\ c \notin expired
             => Unlost(c)

\* The invariant holds of every behaviour, for any number of faults of each kind.
THEOREM CallsInvariant == CallsSpec => []CallsInv
  <1>1. CallsInit => CallsInv
    <2> SUFFICES ASSUME CallsInit PROVE CallsInv
      OBVIOUS
    <2>1. PhonesInv
      BY CallsBegin
    <2>2. ASSUME NEW c \in CallIds
          PROVE  Meanings(c) /\ InOrder(c) /\ OneSession(c) /\ Unlost(c)
      <3>1. /\ caller[c] = "idle" /\ callee[c] = "idle" /\ Silent(c) /\ Open[c] = {} /\ Alone(c)
            /\ ~InviteRepeats(c) /\ ~RingsLate(c) /\ ~OutRepeats(c)
        BY CallsBegin
      <3>2. Meanings(c)
        BY <3>1 DEF Meanings, NotBegun, CancelMeans, ByeMeans, RefusalMeans, AnswerMeans, Silent
      <3>3. InOrder(c) /\ OneSession(c)
        BY <3>1 DEF InOrder, RingsFirst, Established, OneSession, InviteFirst, EndingIsGone, Ending, SessionInUse, Silent
      <3>4. Unlost(c)
        BY <3>1 DEF Unlost, Awaits, CalleeBehind, HasSession, Refused, HangsUp, Silent
      <3> QED
        BY <3>2, <3>3, <3>4
    <2> QED
      BY <2>1, <2>2 DEF CallsInv
  <1>2. CallsInv /\ [CallsNext]_callVars => CallsInv'
    <2> SUFFICES ASSUME CallsInv, [CallsNext]_callVars PROVE CallsInv'
      OBVIOUS
    <2>1. PhonesInv' /\ \A c \in CallIds : CallStep(c)
      BY EveryStep DEF CallsInv
    <2>2. ASSUME NEW c \in CallIds
          PROVE  /\ Meanings(c)'
                 /\ MaxSwap = 0 => InOrder(c)'
                 /\ MaxDup = 0 => OneSession(c)'
                 /\ /\ MaxSwap = 0 /\ MaxDup = 0 /\ Caller[c].port # SipPort
                    /\ faults'.loss = 0 /\ c \notin expired'
                    => Unlost(c)'
      <3>1. CallTypes(c) /\ CallStep(c)
        BY <2>1, CallTyped DEF CallsInv
      <3>2. /\ Meanings(c)
            /\ MaxSwap = 0 => InOrder(c)
            /\ MaxDup = 0 => OneSession(c)
            /\ /\ MaxSwap = 0 /\ MaxDup = 0 /\ Caller[c].port # SipPort
               /\ faults.loss = 0 /\ c \notin expired
               => Unlost(c)
        BY DEF CallsInv
      <3>3. Meanings(c)'
        BY <3>1, <3>2, MeaningsKept
      <3>4. MaxSwap = 0 => InOrder(c)'
        BY <3>1, <3>2, InOrderKept
      <3>5. MaxDup = 0 => OneSession(c)'
        BY <3>1, <3>2, OneSessionKept
      <3>6. /\ MaxSwap = 0 /\ MaxDup = 0 /\ Caller[c].port # SipPort
            /\ faults'.loss = 0 /\ c \notin expired'
            => Unlost(c)'
        BY <3>1, <3>2, UnlostKept
      <3> QED
        BY <3>3, <3>4, <3>5, <3>6
    <2> QED
      BY <2>1, <2>2 DEF CallsInv
  <1> QED
    BY <1>1, <1>2, PTL DEF CallsSpec

-----------------------------------------------------------------------------
\* A message of a call only goes to the two phones of that call, whatever the network
\* loses, repeats or reorders, and however full the table is.
THEOREM NeverCrossed == CallsSpec => []NoCrossTalk
  <1>1. CallsInv => NoCrossTalk
    <2> SUFFICES ASSUME CallsInv, NEW a \in Addrs, NEW i \in DOMAIN mail[a]
                 PROVE  a \in {Caller[mail[a][i].call], Callee(mail[a][i].call)}
      BY DEF NoCrossTalk
    <2>1. mail[a][i] \in Range(mail[a])
      BY DEF Range
    <2>2. ForPhone(a, mail[a][i])
      BY <2>1 DEF CallsInv, PhonesInv, OwnMessages
    <2> QED
      BY <2>2 DEF ForPhone
  <1> QED
    BY <1>1, CallsInvariant, PTL

\* Where no caller uses the port of the callees, a phone is sent a BYE only when the
\* other phone of its call has hung up.  With equal ports the proxy takes the callee
\* for the caller and returns its BYE to it: ByeProxiedToOther.
THEOREM ByesComeFromOther ==
    ASSUME \A c \in CallIds : Caller[c].port # SipPort
    PROVE  CallsSpec => []ByeComesFromOther
  <1>1. CallsInv => ByeComesFromOther
    <2> SUFFICES ASSUME CallsInv, NEW c \in CallIds, NEW a \in Addrs, NEW i \in DOMAIN mail[a],
                        mail[a][i].call = c, mail[a][i].kind = "request", mail[a][i].method = "BYE"
                 PROVE  \/ a = Caller[c] /\ callee[c] \in {"ending", "done"}
                        \/ a = Callee(c) /\ caller[c] \in {"ending", "done"}
      BY DEF ByeComesFromOther
    <2> DEFINE x == mail[a][i]
    <2>1. x \in Range(mail[a]) /\ x.call = c /\ Signal(x) = "BYE"
      BY DEF Range, Signal
    <2>2. a \in {Caller[c], Callee(c)}
      BY <2>1 DEF CallsInv, PhonesInv, OwnMessages, ForPhone
    <2> HIDE DEF x
    <2>3. /\ a = Caller[c] => "BYE" \in ToCaller[c]
          /\ a = Callee(c) => "BYE" \in ToCallee[c]
      BY <2>1 DEF ToCaller, ToCallee, Told
    <2>4. ByeMeans(c)
      BY DEF CallsInv, Meanings
    <2> QED
      BY <2>2, <2>3, <2>4 DEF ByeMeans, Out
  <1> QED
    BY <1>1, CallsInvariant, PTL

\* Where no two messages are swapped, two phones in a call that the cleanup has not
\* ended have an ESTABLISHED session, however many messages are lost or repeated.  With
\* a swap the 180 may undo the 200, and after 24 hours the cleanup ends the call.
THEOREM TalkingEstablished ==
    ASSUME MaxSwap = 0
    PROVE  CallsSpec => []TalkingIsEstablished
  <1>1. CallsInv => TalkingIsEstablished
    <2> SUFFICES ASSUME CallsInv, NEW c \in CallIds \ expired,
                        caller[c] = "up", callee[c] \in {"answered", "up"}
                 PROVE  \E s \in SessionsOf(c) : sessions[s].state = "ESTABLISHED"
      BY DEF TalkingIsEstablished
    <2>1. "ESTABLISHED" \in Open[c]
      BY DEF CallsInv, InOrder, Established
    <2> QED
      BY <2>1 DEF Open
  <1> QED
    BY <1>1, CallsInvariant, PTL

\* Where no message is repeated, a call that ended without a loss has given its slot
\* back, without the cleanup.  With a repeated INVITE a second session is opened that no message reaches.
THEOREM EndedCallsAreFree ==
    ASSUME MaxDup = 0
    PROVE  CallsSpec => []EndedCallsHoldNoSlot
  <1>1. CallsInv => EndedCallsHoldNoSlot
    <2> SUFFICES ASSUME CallsInv, faults.loss = 0, NEW c \in CallIds,
                        caller[c] = "done", callee[c] \in {"idle", "done"}, Quiet(c)
                 PROVE  SessionsOf(c) = {}
      BY DEF EndedCallsHoldNoSlot
    <2>1. Silent(c) /\ SessionInUse(c)
      BY QuietIsSilent DEF CallsInv, OneSession
    <2>2. Open[c] = {}
      BY <2>1 DEF Silent, SessionInUse
    <2>3. \A s \in SessionsOf(c) : sessions[s].state \in Open[c]
      BY DEF Open
    <2> QED
      BY <2>2, <2>3
  <1> QED
    BY <1>1, CallsInvariant, PTL

\* Where no message is repeated or swapped and the ports differ: unless a message was
\* lost or the cleanup ended the call, no caller that still calls waits for a callee
\* that is done and no phone stays in a call that the other has left, whether the table
\* was full, both hung up at once or a CANCEL met the answer.  A caller that has sent
\* CANCEL may wait in vain: CancelledCallerIsAnswered.
THEOREM NobodyIsLeftWaiting ==
    ASSUME MaxDup = 0, MaxSwap = 0, \A c \in CallIds : Caller[c].port # SipPort
    PROVE  CallsSpec => []NobodyIsLeft
  <1>1. CallsInv => NobodyIsLeft
    <2> SUFFICES ASSUME CallsInv, faults.loss = 0, NEW c \in CallIds \ expired, Quiet(c)
                 PROVE  /\ ~(caller[c] = "calling" /\ callee[c] \in {"idle", "done"})
                        /\ ~(callee[c] = "up" /\ caller[c] \in {"ending", "done"})
                        /\ ~(caller[c] = "up" /\ callee[c] \in {"ending", "done"})
      BY DEF NobodyIsLeft, CallerIsAnswered, HangUpEndsBoth
    <2>1. Silent(c) /\ Unlost(c)
      BY QuietIsSilent DEF CallsInv
    <2> QED
      BY <2>1 DEF Silent, Unlost, Awaits, HangsUp
  <1> QED
    BY <1>1, CallsInvariant, PTL
=============================================================================
