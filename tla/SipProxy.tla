------------------------------ MODULE SipProxy -------------------------------
(***************************************************************************)
(* The stateful SIP proxy: process_incoming_sip_message of sip_core.c and  *)
(* the session table of call_sessions.c, with the cleanup that the passive *)
(* safety thread runs on that table.                                       *)
(*                                                                         *)
(* One action is the whole handling of one UDP message by the main thread: *)
(* the session lookup, the state change, the messages sent and the export  *)
(* of the active calls.  The environment is open: any message may arrive   *)
(* from any address at any time.  SipCalls closes it with two phones per   *)
(* call and an unreliable network; ActiveCalls splits the accesses to the  *)
(* table that the passive safety thread can interleave with.               *)
(*                                                                         *)
(* A message is the data the handlers look at: method or status, method of *)
(* the CSeq header, Call-ID and UDP source address.  Headers that are only *)
(* copied, the SDP body and the wording of the answers are left out.       *)
(***************************************************************************)
EXTENDS Integers, Sequences, FiniteSets

CONSTANTS
    CallIds,      \* values of the Call-ID header
    Ips,          \* hosts of the mesh
    Ports,        \* UDP source ports of the phones
    SipPort,      \* SIP_PORT, where every callee is contacted
    MaxSessions,  \* MAX_CALL_SESSIONS
    MaxAge,       \* age above which cleanup frees a session (86400 s), in ticks
    Nobody        \* the zeroed address of a free session

Addrs == [ip : Ips, port : Ports]

ASSUME ProxyAssumption ==
    /\ SipPort \in Ports
    /\ MaxSessions \in Nat \ {0}
    /\ MaxAge \in Nat
    /\ Nobody \notin Addrs

Slots == 1..MaxSessions

States == {"FREE", "INVITE_SENT", "RINGING", "ESTABLISHED", "TERMINATING"}

Methods == {"INVITE", "ACK", "BYE", "CANCEL", "OPTIONS", "REGISTER", "OTHER"}

\* Status lines by what the response handler does with them: "ok" is 200 OK,
\* "ringing" 180 or 183, "failure" 4xx, 5xx or 6xx, "other" 100, 202 or 3xx.
Statuses == {"ok", "ringing", "failure", "other"}

Requests == [kind : {"request"}, method : Methods, call : CallIds, src : Addrs]
Responses == [kind : {"response"}, status : Statuses, method : Methods,
              call : CallIds, src : Addrs]

\* What the proxy puts on the wire: a message relayed as it came (an INVITE and
\* the responses to it with a Record-Route header), or an answer of its own.
Relayed(to, m) == [to |-> to, kind |-> m.kind, method |-> m.method, call |-> m.call,
                   status |-> IF m.kind = "response" THEN m.status ELSE "none"]
Answer(m, status) == [to |-> m.src, kind |-> "response", method |-> m.method,
                      call |-> m.call, status |-> status]

Sent == [to : Addrs, kind : {"request", "response"}, method : Methods, call : CallIds,
         status : Statuses \cup {"none"}]

VARIABLES
    sessions,    \* call_sessions[]
    exported,    \* what /tmp/active_calls.json lists, slot by slot
    out          \* messages the last step sent, in order

vars == <<sessions, exported, out>>

Session == [inUse : BOOLEAN, call : CallIds \cup {"none"}, caller : Addrs \cup {Nobody},
            callee : Addrs \cup {Nobody}, state : States, age : 0..(MaxAge + 1)]

FreeSession == [inUse |-> FALSE, call |-> "none", caller |-> Nobody,
                callee |-> Nobody, state |-> "FREE", age |-> 0]

-----------------------------------------------------------------------------
(* call_sessions.c *)

\* Mutant: any session in use will do.
FoundAny(s, call) ==
    /\ sessions[s].inUse
    /\ \A t \in 1..(s - 1) : ~sessions[t].inUse

\* find_call_session_by_callid: the first session in use with this Call-ID.
Found(s, call) ==
    /\ sessions[s].inUse
    /\ sessions[s].call = call
    /\ \A t \in 1..(s - 1) : sessions[t].inUse => sessions[t].call # call

NotFound(call) == ~\E s \in Slots : sessions[s].inUse /\ sessions[s].call = call

\* Mutant: the loop stops one slot late.
FirstUnusedOrNext(s) == \A t \in 1..(s - 1) : sessions[t].inUse

\* create_call_session: the first slot that is not in use.
FirstUnused(s) ==
    /\ ~sessions[s].inUse
    /\ \A t \in 1..(s - 1) : sessions[t].inUse

TableFull == \A s \in Slots : sessions[s].inUse

\* export_active_calls_json: one entry per session in use that is not FREE.
NotListed == [call |-> "none", state |-> "FREE"]
Entry == [call : CallIds \cup {"none"}, state : States]
Listing(table) ==
    [s \in Slots |-> IF table[s].inUse /\ table[s].state # "FREE"
                     THEN [call |-> table[s].call, state |-> table[s].state]
                     ELSE NotListed]

\* A handler that changes a session exports the table before it returns.
Commit(table) ==
    /\ sessions' = table
    /\ exported' = Listing(table)

SetState(s, st) == Commit([sessions EXCEPT ![s].state = st])

\* Mutant: the handler returns without the export.
TerminateUnexported(s) ==
    /\ sessions' = [sessions EXCEPT ![s] = FreeSession]
    /\ UNCHANGED exported

Terminate(s) == Commit([sessions EXCEPT ![s] = FreeSession])

Keep == UNCHANGED <<sessions, exported>>

-----------------------------------------------------------------------------
(* process_incoming_sip_message, one action per branch *)

\* Mutants: an error response leaves the session; an answer does not establish it.
RelayKeeping(m) ==
    \E s \in Slots :
        /\ Found(s, m.call)
        /\ out' = <<Relayed(sessions[s].caller, m)>>
        /\ \/ m.status = "ok" /\ m.method = "INVITE" /\ SetState(s, "ESTABLISHED")
           \/ m.status = "ringing" /\ SetState(s, "RINGING")
           \/ /\ m.status \in {"other", "failure"} \/ (m.status = "ok" /\ m.method # "INVITE")
              /\ Keep
RelayUnestablished(m) ==
    \E s \in Slots :
        /\ Found(s, m.call)
        /\ out' = <<Relayed(sessions[s].caller, m)>>
        /\ \/ m.status = "failure" /\ Terminate(s)
           \/ m.status = "ringing" /\ SetState(s, "RINGING")
           \/ m.status \in {"ok", "other"} /\ Keep

\* The session is looked up by Call-ID alone and the response goes to the
\* address its INVITE came from, whoever sent the response and to whatever.
RelayResponse(m) ==
    \E s \in Slots :
        /\ Found(s, m.call)
        /\ out' = <<Relayed(sessions[s].caller, m)>>
        /\ \/ m.status = "ok" /\ m.method = "INVITE" /\ SetState(s, "ESTABLISHED")
           \/ m.status = "failure" /\ Terminate(s)
           \/ m.status = "ringing" /\ SetState(s, "RINGING")
           \/ /\ m.status = "other" \/ (m.status = "ok" /\ m.method # "INVITE")
              /\ Keep

DropResponse(m) ==
    /\ NotFound(m.call)
    /\ out' = <<>>
    /\ Keep

\* DNS does not know the callee.
InviteUnresolved(m) ==
    /\ out' = <<Answer(m, "failure")>>
    /\ Keep

InviteRefused(m) ==
    /\ TableFull
    /\ out' = <<Answer(m, "failure")>>
    /\ Keep

\* A new session for every INVITE: the Call-ID is not looked up first.
InviteAccepted(m, calleeIp) ==
    \E s \in Slots :
        /\ FirstUnused(s)
        /\ LET callee == [ip |-> calleeIp, port |-> SipPort] IN
           /\ Commit([sessions EXCEPT ![s] =
                        [inUse |-> TRUE, call |-> m.call, caller |-> m.src,
                         callee |-> callee, state |-> "INVITE_SENT", age |-> 0]])
           /\ out' = <<Answer(m, "other"), Relayed(callee, m)>>

\* strcmp(sockaddr_to_ip_str(a), sockaddr_to_ip_str(b)) compares the one static
\* buffer of sockaddr_to_ip_str with itself: the hosts always look equal, and the
\* ports alone tell the caller from the callee.
SentByCaller(s, m) == sessions[s].caller.port = m.src.port

\* Mutant: the two branches are swapped.
SameParty(s, m) == IF SentByCaller(s, m) THEN sessions[s].caller ELSE sessions[s].callee

OtherParty(s, m) == IF SentByCaller(s, m) THEN sessions[s].callee ELSE sessions[s].caller

\* Mutants: the session is left TERMINATING; the BYE is answered and not relayed.
ByeLeftTerminating(m) ==
    \E s \in Slots :
        /\ Found(s, m.call)
        /\ out' = <<Relayed(OtherParty(s, m), m), Answer(m, "ok")>>
        /\ SetState(s, "TERMINATING")
ByeNotRelayed(m) ==
    \E s \in Slots :
        /\ Found(s, m.call)
        /\ out' = <<Answer(m, "ok")>>
        /\ Terminate(s)

\* The session is TERMINATING while the BYE is relayed and answered, and freed
\* before the handler exports.
ByeInSession(m) ==
    \E s \in Slots :
        /\ Found(s, m.call)
        /\ out' = <<Relayed(OtherParty(s, m), m), Answer(m, "ok")>>
        /\ Terminate(s)

ByeUnknown(m) ==
    /\ NotFound(m.call)
    /\ out' = <<Answer(m, "failure")>>
    /\ Keep

Pending(s) == sessions[s].state \in {"INVITE_SENT", "RINGING"}

CancelPending(m) ==
    \E s \in Slots :
        /\ Found(s, m.call)
        /\ Pending(s)
        /\ out' = <<Relayed(sessions[s].callee, m), Answer(m, "ok")>>
        /\ Terminate(s)

CancelRefused(m) ==
    /\ \A s \in Slots : Found(s, m.call) => ~Pending(s)
    /\ out' = <<Answer(m, "failure")>>
    /\ Keep

AckEstablished(m) ==
    \E s \in Slots :
        /\ Found(s, m.call)
        /\ sessions[s].state = "ESTABLISHED"
        /\ out' = <<Relayed(sessions[s].callee, m)>>
        /\ Keep

AckDropped(m) ==
    /\ \A s \in Slots : Found(s, m.call) => sessions[s].state # "ESTABLISHED"
    /\ out' = <<>>
    /\ Keep

\* OPTIONS and REGISTER are answered 200, any other method 501; none of them
\* touches the sessions (the user table is in UserTable).
AnswerDirectly(m) ==
    /\ out' = <<Answer(m, IF m.method = "OTHER" THEN "failure" ELSE "ok")>>
    /\ Keep

HandleResponse(m) == RelayResponse(m) \/ DropResponse(m)

HandleInvite(m) ==
    \/ InviteUnresolved(m)
    \/ InviteRefused(m)
    \/ \E ip \in Ips : InviteAccepted(m, ip)

HandleRequest(m) ==
    \/ m.method = "INVITE" /\ HandleInvite(m)
    \/ m.method = "BYE" /\ (ByeInSession(m) \/ ByeUnknown(m))
    \/ m.method = "CANCEL" /\ (CancelPending(m) \/ CancelRefused(m))
    \/ m.method = "ACK" /\ (AckEstablished(m) \/ AckDropped(m))
    \/ m.method \in {"OPTIONS", "REGISTER", "OTHER"} /\ AnswerDirectly(m)

-----------------------------------------------------------------------------
(* passive_cleanup_stale_call_sessions, and the clock it reads *)

\* Mutant: calls that are up are spared.
StaleSetup(s) ==
    sessions[s].inUse /\ sessions[s].state # "ESTABLISHED" /\ sessions[s].age > MaxAge

Stale(s) == sessions[s].inUse /\ sessions[s].age > MaxAge

\* The scan frees and exports one stale session at a time.
CleanupStale(s) ==
    /\ Stale(s)
    /\ Terminate(s)
    /\ out' = <<>>

\* The sessions in use grow older; their age is not told apart beyond MaxAge + 1.
Tick ==
    /\ \E s \in Slots : sessions[s].inUse /\ sessions[s].age <= MaxAge
    /\ sessions' = [s \in Slots |->
                       IF sessions[s].inUse /\ sessions[s].age <= MaxAge
                       THEN [sessions[s] EXCEPT !.age = @ + 1] ELSE sessions[s]]
    /\ out' = <<>>
    /\ UNCHANGED exported

-----------------------------------------------------------------------------

\* init_call_sessions, which exports the empty table.
Init ==
    /\ sessions = [s \in Slots |-> FreeSession]
    /\ exported = Listing(sessions)
    /\ out = <<>>

Handle ==
    \/ \E m \in Requests : HandleRequest(m)
    \/ \E m \in Responses : HandleResponse(m)

Next == Handle \/ (\E s \in Slots : CleanupStale(s)) \/ Tick

Spec == Init /\ [][Next]_vars

\* The clock advances, and the passive safety thread scans every slot of the table
\* every five minutes.  Nothing is assumed of the phones.
FairSpec == Spec /\ WF_vars(Tick) /\ \A s \in Slots : WF_vars(CleanupStale(s))

-----------------------------------------------------------------------------
(* Properties *)

\* Every variable has its type.
TypeOK ==
    /\ sessions \in [Slots -> Session]
    /\ exported \in [Slots -> Entry]
    /\ out \in Seq(Sent)

\* Between two messages a slot is either cleared, address and state included, or
\* holds a call that is being set up or is up, with both its addresses: no handler
\* returns with a slot in use that is FREE or TERMINATING, which no message and
\* no reader of the export would ever see again.
TableAtRest ==
    \A s \in Slots :
        \/ sessions[s] = FreeSession
        \/ /\ sessions[s].inUse
           /\ sessions[s].call \in CallIds
           /\ sessions[s].caller \in Addrs
           /\ sessions[s].callee \in Addrs
           /\ sessions[s].callee.port = SipPort
           /\ sessions[s].state \in {"INVITE_SENT", "RINGING", "ESTABLISHED"}

\* The file the dashboard reads lists the slots in use and no other, each with its
\* call and state, after every message and every cleanup.
ExportExact ==
    \A s \in Slots :
        /\ exported[s] # NotListed <=> sessions[s].inUse
        /\ sessions[s].inUse =>
              exported[s] = [call |-> sessions[s].call, state |-> sessions[s].state]

\* A call keeps its slot, its Call-ID and its two addresses until it leaves the
\* table; it leaves the table cleared, never straight into another call.
CallKeepsSlot ==
    [][ \A s \in Slots : sessions[s].inUse =>
          \/ ~sessions'[s].inUse
          \/ /\ sessions'[s].call = sessions[s].call
             /\ sessions'[s].caller = sessions[s].caller
             /\ sessions'[s].callee = sessions[s].callee
             /\ sessions'[s].age >= sessions[s].age ]_vars

\* Whatever the phones do or fail to do, every call leaves the dashboard: the
\* cleanup reclaims the slot of a call nobody ended.
EveryCallLeaves ==
    \A s \in Slots : exported[s] # NotListed ~> exported[s] = NotListed

\* What the readers of the dashboard are promised (CallBoard), kept by the export.
Board == INSTANCE CallBoard WITH board <- exported
BoardSpec == Board!Spec
=============================================================================
