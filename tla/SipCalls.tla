------------------------------ MODULE SipCalls -------------------------------
(***************************************************************************)
(* Calls through the proxy: SipProxy closed with the two phones of every   *)
(* call and the UDP network between them.                                  *)
(*                                                                         *)
(* The phones are not part of the repository.  They are what the proxy is  *)
(* written for, a SIP caller and a SIP callee that send and answer         *)
(* INVITE, ACK, CANCEL and BYE the way RFC 3261 asks, each over the one    *)
(* address the proxy knows of it.  A retransmission is a duplicate the     *)
(* network makes; a timer fires when nothing about its call is in flight,  *)
(* because it lasts 32 seconds.                                            *)
(*                                                                         *)
(* The network delivers in order, and may lose, duplicate and swap a       *)
(* bounded number of messages: MaxLoss, MaxDup, MaxSwap.                   *)
(*                                                                         *)
(* The cleanup of the passive safety thread runs beside the calls.  It     *)
(* frees every session above the age limit of 24 hours, whatever its       *)
(* phones are doing: two phones may still talk.  expired remembers the     *)
(* calls that lost a session that way, so that the properties can tell     *)
(* them from the others; no step depends on it.                            *)
(***************************************************************************)
EXTENDS SipProxy

CONSTANTS
    Caller,       \* the address each call is placed from
    CalleeHost,   \* the host DNS gives for the user each call is placed to
    MaxLoss, MaxDup, MaxSwap

Callee(c) == [ip |-> CalleeHost[c], port |-> SipPort]

ASSUME CallsAssumption ==
    /\ Caller \in [CallIds -> Addrs]
    /\ CalleeHost \in [CallIds -> Ips]
    /\ \A c \in CallIds : Caller[c] # Callee(c)
    /\ MaxLoss \in Nat /\ MaxDup \in Nat /\ MaxSwap \in Nat

VARIABLES
    caller,   \* state of the phone that places each call
    callee,   \* state of the phone each call is placed to
    inbox,    \* messages on their way to the proxy
    mail,     \* messages on their way to each address
    faults,   \* faults of the network so far
    expired   \* calls of which the cleanup has freed a session

phones == <<caller, callee>>
callVars == <<vars, caller, callee, inbox, mail, faults, expired>>

CallerStates == {"idle", "calling", "cancelling", "up", "ending", "done"}
CalleeStates == {"idle", "alerting", "answered", "up", "ending", "done"}

-----------------------------------------------------------------------------
(* The network *)

Req(c, a, method) == [kind |-> "request", method |-> method, call |-> c, src |-> a]
Resp(c, a, status, method) ==
    [kind |-> "response", status |-> status, method |-> method, call |-> c, src |-> a]

\* A phone takes the first message of its mail, if any, and sends msgs.
Send(msgs) ==
    /\ inbox' = inbox \o msgs
    /\ out' = <<>>
    /\ UNCHANGED <<sessions, exported, faults, expired>>

About(queue, c) == \E i \in DOMAIN queue : queue[i].call = c

\* Nothing about the call is in flight, so whoever waits will wait in vain.
Quiet(c) == ~About(inbox, c) /\ \A a \in Addrs : ~About(mail[a], c)

Twice(queue) == <<Head(queue)>> \o queue
Swapped(queue) == [queue EXCEPT ![1] = queue[2], ![2] = queue[1]]

\* One fault in the queue to the proxy or in the queue to a phone.
Fault(kind, bound, Damage(_), need) ==
    /\ faults[kind] < bound
    /\ faults' = [faults EXCEPT ![kind] = @ + 1]
    /\ \/ Len(inbox) >= need /\ inbox' = Damage(inbox) /\ UNCHANGED mail
       \/ \E a \in Addrs :
             /\ Len(mail[a]) >= need
             /\ mail' = [mail EXCEPT ![a] = Damage(@)]
             /\ UNCHANGED inbox
    /\ out' = <<>>
    /\ UNCHANGED <<sessions, exported, phones, expired>>

Lose == Fault("loss", MaxLoss, Tail, 1)
Duplicate == Fault("dup", MaxDup, Twice, 1)
Swap == Fault("swap", MaxSwap, Swapped, 2)

-----------------------------------------------------------------------------
(* The proxy handles the next message of its socket *)

\* A handler sends at most two messages: the i-th of them, if it is to address a.
Delivered(a, i) ==
    IF i \in DOMAIN out' /\ out'[i].to = a THEN <<out'[i]>> ELSE <<>>

Proxy ==
    /\ inbox # <<>>
    /\ LET m == Head(inbox) IN
       \/ m.kind = "response" /\ HandleResponse(m)
       \/ /\ m.kind = "request" /\ m.method = "INVITE"
          /\ InviteUnresolved(m) \/ InviteRefused(m) \/ InviteAccepted(m, CalleeHost[m.call])
       \/ m.kind = "request" /\ m.method # "INVITE" /\ HandleRequest(m)
    /\ inbox' = Tail(inbox)
    /\ mail' = [a \in Addrs |-> mail[a] \o (Delivered(a, 1) \o Delivered(a, 2))]
    /\ UNCHANGED <<phones, faults, expired>>

-----------------------------------------------------------------------------
(* The passive safety thread ends the sessions that are too old, up or not, and tells
   neither phone *)

Expire(s) ==
    /\ CleanupStale(s)
    /\ expired' = expired \cup {sessions[s].call}
    /\ UNCHANGED <<phones, inbox, mail, faults>>

GrowOld ==
    /\ Tick
    /\ UNCHANGED <<phones, inbox, mail, faults, expired>>

-----------------------------------------------------------------------------
(* The phone that places the call *)

Place(c) ==
    /\ caller[c] = "idle"
    /\ caller' = [caller EXCEPT ![c] = "calling"]
    /\ Send(<<Req(c, Caller[c], "INVITE")>>)
    /\ UNCHANGED <<callee, mail>>

GiveUpRinging(c) ==
    /\ caller[c] = "calling"
    /\ caller' = [caller EXCEPT ![c] = "cancelling"]
    /\ Send(<<Req(c, Caller[c], "CANCEL")>>)
    /\ UNCHANGED <<callee, mail>>

CallerHangsUp(c) ==
    /\ caller[c] = "up"
    /\ caller' = [caller EXCEPT ![c] = "ending"]
    /\ Send(<<Req(c, Caller[c], "BYE")>>)
    /\ UNCHANGED <<callee, mail>>

CallerTimesOut(c) ==
    /\ caller[c] \in {"calling", "cancelling", "ending"}
    /\ Quiet(c)
    /\ callee[c] \notin {"alerting", "answered"}
    /\ caller' = [caller EXCEPT ![c] = "done"]
    /\ Send(<<>>)
    /\ UNCHANGED <<callee, mail>>

\* The next state and the messages sent for a message received: <<state, msgs>>.
CallerReacts(c, x) ==
    LET st == caller[c]
        ack == Req(c, Caller[c], "ACK")
        bye == Req(c, Caller[c], "BYE")
        final == x.kind = "response" /\ x.status \in {"ok", "failure"}
        byeAnswer(status) == Resp(c, Caller[c], status, "BYE")
    IN CASE final /\ x.method = "INVITE" /\ x.status = "ok" /\ st = "calling" ->
              <<"up", <<ack>>>>
         [] final /\ x.method = "INVITE" /\ x.status = "ok" /\ st = "cancelling" ->
              <<"ending", <<ack, bye>>>>
         [] final /\ x.method = "INVITE" /\ x.status = "ok" /\ st \in {"up", "ending"} ->
              <<st, <<ack>>>>
         [] final /\ x.method = "INVITE" /\ x.status = "failure"
                  /\ st \in {"calling", "cancelling"} ->
              <<"done", <<ack>>>>
         [] final /\ x.method = "BYE" /\ st = "ending" -> <<"done", <<>>>>
         [] x.kind = "request" /\ x.method = "BYE" /\ st = "up" ->
              <<"done", <<byeAnswer("ok")>>>>
         [] x.kind = "request" /\ x.method = "BYE" /\ st = "ending" ->
              <<st, <<byeAnswer("ok")>>>>
         [] x.kind = "request" /\ x.method = "BYE" /\ st \notin {"up", "ending"} ->
              <<st, <<byeAnswer("failure")>>>>
         [] OTHER -> <<st, <<>>>>

CallerReceives(c) ==
    LET a == Caller[c] IN
    /\ mail[a] # <<>>
    /\ Head(mail[a]).call = c
    /\ LET r == CallerReacts(c, Head(mail[a])) IN
       /\ caller' = [caller EXCEPT ![c] = r[1]]
       /\ Send(r[2])
    /\ mail' = [mail EXCEPT ![a] = Tail(@)]
    /\ UNCHANGED callee

-----------------------------------------------------------------------------
(* The phone the call is placed to *)

Answers(c) ==
    /\ callee[c] = "alerting"
    /\ callee' = [callee EXCEPT ![c] = "answered"]
    /\ Send(<<Resp(c, Callee(c), "ok", "INVITE")>>)
    /\ UNCHANGED <<caller, mail>>

Declines(c) ==
    /\ callee[c] = "alerting"
    /\ callee' = [callee EXCEPT ![c] = "done"]
    /\ Send(<<Resp(c, Callee(c), "failure", "INVITE")>>)
    /\ UNCHANGED <<caller, mail>>

CalleeHangsUp(c) ==
    /\ callee[c] = "up"
    /\ callee' = [callee EXCEPT ![c] = "ending"]
    /\ Send(<<Req(c, Callee(c), "BYE")>>)
    /\ UNCHANGED <<caller, mail>>

\* No ACK came: the callee ends the call it thinks is up.
AckTimesOut(c) ==
    /\ callee[c] = "answered"
    /\ Quiet(c)
    /\ callee' = [callee EXCEPT ![c] = "ending"]
    /\ Send(<<Req(c, Callee(c), "BYE")>>)
    /\ UNCHANGED <<caller, mail>>

CalleeTimesOut(c) ==
    /\ callee[c] = "ending"
    /\ Quiet(c)
    /\ callee' = [callee EXCEPT ![c] = "done"]
    /\ Send(<<>>)
    /\ UNCHANGED <<caller, mail>>

CalleeReacts(c, x) ==
    LET st == callee[c]
        answer(status, method) == Resp(c, Callee(c), status, method)
        request(method) == x.kind = "request" /\ x.method = method
    IN CASE request("INVITE") /\ st = "idle" ->
              <<"alerting", <<answer("ringing", "INVITE")>>>>
         [] request("ACK") /\ st = "answered" -> <<"up", <<>>>>
         [] request("CANCEL") /\ st = "alerting" ->
              <<"done", <<answer("ok", "CANCEL"), answer("failure", "INVITE")>>>>
         [] request("CANCEL") /\ st # "alerting" ->
              <<st, <<answer(IF st = "answered" THEN "ok" ELSE "failure", "CANCEL")>>>>
         [] request("BYE") /\ st \in {"answered", "up"} -> <<"done", <<answer("ok", "BYE")>>>>
         [] request("BYE") /\ st = "ending" -> <<st, <<answer("ok", "BYE")>>>>
         [] request("BYE") /\ st \in {"idle", "alerting", "done"} ->
              <<st, <<answer("failure", "BYE")>>>>
         [] x.kind = "response" /\ x.method = "BYE" /\ st = "ending" -> <<"done", <<>>>>
         [] OTHER -> <<st, <<>>>>

CalleeReceives(c) ==
    LET a == Callee(c) IN
    /\ mail[a] # <<>>
    /\ Head(mail[a]).call = c
    /\ LET r == CalleeReacts(c, Head(mail[a])) IN
       /\ callee' = [callee EXCEPT ![c] = r[1]]
       /\ Send(r[2])
    /\ mail' = [mail EXCEPT ![a] = Tail(@)]
    /\ UNCHANGED caller

-----------------------------------------------------------------------------

CallsInit ==
    /\ Init
    /\ caller = [c \in CallIds |-> "idle"]
    /\ callee = [c \in CallIds |-> "idle"]
    /\ inbox = <<>>
    /\ mail = [a \in Addrs |-> <<>>]
    /\ faults = [loss |-> 0, dup |-> 0, swap |-> 0]
    /\ expired = {}

\* What users decide.
User(c) ==
    Place(c) \/ GiveUpRinging(c) \/ CallerHangsUp(c) \/ CalleeHangsUp(c)

\* What the phones do by themselves, an alerting phone stops sooner or later.
Phone(c) ==
    \/ CallerReceives(c) \/ CallerTimesOut(c)
    \/ CalleeReceives(c) \/ CalleeTimesOut(c) \/ AckTimesOut(c)
    \/ Answers(c) \/ Declines(c)

CallsNext ==
    \/ Proxy
    \/ \E c \in CallIds : User(c) \/ Phone(c)
    \/ Lose \/ Duplicate \/ Swap
    \/ \E s \in Slots : Expire(s)
    \/ GrowOld

CallsSpec == CallsInit /\ [][CallsNext]_callVars

-----------------------------------------------------------------------------
(* Properties *)

SessionsOf(c) == {s \in Slots : sessions[s].inUse /\ sessions[s].call = c}

\* While both phones are in the call the session is ESTABLISHED, so that the ACK
\* of the caller and the BYE of either find it.  Only the cleanup can take it from
\* them, after 24 hours.
TalkingIsEstablished ==
    \A c \in CallIds \ expired :
        caller[c] = "up" /\ callee[c] \in {"answered", "up"} =>
            \E s \in SessionsOf(c) : sessions[s].state = "ESTABLISHED"

\* A phone is sent a BYE only when the other phone of the call has hung up.
ByeComesFromOther ==
    \A c \in CallIds, a \in Addrs : \A i \in DOMAIN mail[a] :
        LET x == mail[a][i] IN
        x.call = c /\ x.kind = "request" /\ x.method = "BYE" =>
            \/ a = Caller[c] /\ callee[c] \in {"ending", "done"}
            \/ a = Callee(c) /\ caller[c] \in {"ending", "done"}

\* Unless a message was lost: when both phones are out of a call and nothing about
\* it is in flight, its slot is free again, with no need of the cleanup.
EndedCallsHoldNoSlot ==
    faults.loss = 0 =>
        \A c \in CallIds :
            caller[c] = "done" /\ callee[c] \in {"idle", "done"} /\ Quiet(c) =>
                SessionsOf(c) = {}

\* Two calls never share a slot or a message: a message of a call only goes to the
\* two addresses of that call.
NoCrossTalk ==
    \A a \in Addrs : \A i \in DOMAIN mail[a] :
        a \in {Caller[mail[a][i].call], Callee(mail[a][i].call)}

\* A caller who still calls, and has not sent CANCEL, does not wait for a callee that
\* is done, while nothing is in flight.
CallerIsAnswered ==
    \A c \in CallIds \ expired :
        caller[c] = "calling" /\ callee[c] \in {"idle", "done"} => ~Quiet(c)

\* No phone stays up in a call the other one has left, while nothing is in flight.
HangUpEndsBoth ==
    \A c \in CallIds \ expired :
        \/ callee[c] = "up" /\ caller[c] \in {"ending", "done"}
        \/ caller[c] = "up" /\ callee[c] \in {"ending", "done"}
        => ~Quiet(c)

\* Unless a message was lost or the cleanup ended the call: a caller who still calls
\* is told how its call ended, also by a full table, and a phone that hangs up ends
\* the call for both, when both hang up at once or a CANCEL meets the answer, too.
\* Nothing is said of a caller who has sent CANCEL: see CancelledCallerIsAnswered.
NobodyIsLeft == faults.loss = 0 => CallerIsAnswered /\ HangUpEndsBoth

-----------------------------------------------------------------------------
(* What the functional specification says, and the code does not do *)

\* "Handles both caller-initiated and callee-initiated BYE requests", "Proxies BYE
\* to other party": checked with phones that all use port 5060.
ByeProxiedToOther == ByeComesFromOther

\* "call_id: Unique call identifier": checked with one retransmitted message.  A
\* second session is shadowed by the first, reached by no message, and kept until
\* the cleanup finds it a day later.
CallIdUnique == \A c \in CallIds : Cardinality(SessionsOf(c)) <= 1

\* "Clean up sessions older than 24 hours (safety net for truly lost BYE)": checked
\* without faults.  A call that lasts a day is cleaned as well; the BYE that ends it
\* is then refused, and the other phone is left in the call.
OnlyLostByesAreCleaned ==
    faults.loss = 0 => \A c \in expired : caller[c] # "up" \/ callee[c] # "up"

\* "CALL_STATE_ESTABLISHED: 200 OK received for INVITE": checked with two messages
\* swapped, the 180 and the 200 of a callee that answers at once.
OkMeansEstablished == TalkingIsEstablished

\* "Routes responses back to original caller using stored call session data": the
\* response to the INVITE of a caller who has sent CANCEL, too.
CancelledCallerIsAnswered ==
    \A c \in CallIds :
        caller[c] = "cancelling" /\ callee[c] \in {"idle", "done"} => ~Quiet(c)
=============================================================================
