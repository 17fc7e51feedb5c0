------------------------------ MODULE Softphone ------------------------------
(***************************************************************************)
(* The test phone of the node.  It has one call, which two threads write   *)
(* without a lock: the bulk test places a call to each phone that did not  *)
(* answer its OPTIONS, looks at the state of the call for a second, counts *)
(* the phone as online or offline and ends the call; the main thread moves *)
(* the call as responses come in, and resets a call that lasts too long.   *)
(* The actions are split where the other thread can come between.          *)
(*                                                                         *)
(* The calls go through the proxy of the same process (see SipProxy), so   *)
(* the main thread also handles what the test phone sends, and the phones' *)
(* responses pass through it into the socket of the test phone, in order.  *)
(* A response is not compared with the call it is for, so its call is kept *)
(* here for the properties alone.  Time is in seconds; a step of the code  *)
(* takes none, only sleeps do.                                             *)
(***************************************************************************)
EXTENDS Integers, Sequences

CONSTANTS
    MaxCalls,         \* calls the bulk test places, each to another phone
    ResponseTimeout,  \* SOFTPHONE_RESPONSE_TIMEOUT
    RingingTimeout,   \* SOFTPHONE_RINGING_TIMEOUT
    CallTimeout,      \* SOFTPHONE_CALL_TIMEOUT
    WaitTime,         \* how long the bulk test waits for an idle phone
    PollTime,         \* how long it looks for an answer
    SettleTime        \* how long it lets a CANCEL or a BYE take effect

ASSUME SoftphoneAssumption ==
    /\ {MaxCalls, WaitTime, PollTime, SettleTime} \subseteq Nat \ {0}
    /\ ResponseTimeout \in Nat
    /\ RingingTimeout \in ResponseTimeout..CallTimeout
    /\ CallTimeout \in Nat

VARIABLES
    call,     \* g_softphone_ctx.call: state, id of the call, age of the state
    main,     \* main thread: what it does next, the age it has read
    tester,   \* bulk test: what it does next, its call, its sleep, what it saw
    requests, \* what the test phone has sent to the proxy
    replies,  \* datagrams in the socket of the test phone
    line,     \* each call at the proxy and at the phone
    verdict   \* what the bulk test counted for its call

vars == <<call, main, tester, requests, replies, line, verdict>>

Calls == 1..MaxCalls
NoCall == 0
Ancient == CallTimeout + 1  \* an age beyond every limit; that of time stamp 0

States == {"idle", "calling", "ringing", "established", "terminating"}
Lines == {"none", "refused", "trying", "ringing", "up", "over"}
Verdicts == {"none", "online", "offline", "failed"}
MainSteps == {"select", "softphone", "ring", "establish", "finish", "erase", "fail",
              "check", "elapsed", "expire", "wipe"}
TesterSteps == {"between", "wait", "dial", "invite", "calling", "stamp", "poll", "judge",
                "cancel", "hangup", "leave", "settle", "reset"}

NewState(s) == [call EXCEPT !.state = s, !.age = 0]
IdleCall == [state |-> "idle", id |-> NoCall, age |-> 0]

MainGoes(step) == main' = [pc |-> step, elapsed |-> 0]
TesterSleeps(step, time) == tester' = [tester EXCEPT !.pc = step, !.timer = time, !.saw = "idle"]
TesterGoes(step) == TesterSleeps(step, 0)

-----------------------------------------------------------------------------
(* The main thread as the proxy: one datagram of the SIP socket *)

Reply(c, code) == replies' = Append(replies, [call |-> c, code |-> code])

\* An INVITE is passed on, or refused with 404 or 503.
ProxyInvite(c) ==
    \/ /\ c # NoCall
       /\ line' = [line EXCEPT ![c] = "trying"]
       /\ UNCHANGED replies
    \/ /\ line' = IF c = NoCall THEN line ELSE [line EXCEPT ![c] = "refused"]
       /\ Reply(c, "error")

\* A CANCEL or a BYE ends a call the proxy has in one of the states; 481 otherwise.
ProxyEnd(c, among) ==
    IF c # NoCall /\ line[c] \in among
    THEN line' = [line EXCEPT ![c] = "over"] /\ Reply(c, "200")
    ELSE Reply(c, "error") /\ UNCHANGED line

ProxyHandles ==
    /\ main.pc = "select" /\ requests # <<>>
    /\ LET m == Head(requests) IN
          CASE m.method = "INVITE" -> ProxyInvite(m.call)
            [] m.method = "CANCEL" -> ProxyEnd(m.call, {"trying", "ringing"})
            [] m.method = "BYE" -> ProxyEnd(m.call, {"trying", "ringing", "up"})
    /\ requests' = Tail(requests)
    /\ MainGoes("softphone")
    /\ UNCHANGED <<call, tester, verdict>>

\* The proxy relays what a phone sends: it rings, with 180 or 183, or picks up, or declines.
\* A phone in a call may hang up: its BYE is relayed too, and the test phone ignores it.
PhoneSends(c) ==
    /\ main.pc = "select"
    /\ \/ /\ line[c] = "trying"
          /\ line' = [line EXCEPT ![c] = "ringing"]
          /\ \E code \in {"180", "183"} : Reply(c, code)
       \/ /\ line[c] \in {"trying", "ringing"}
          /\ \/ line' = [line EXCEPT ![c] = "up"] /\ Reply(c, "200")
             \/ line' = [line EXCEPT ![c] = "over"] /\ Reply(c, "error")
       \/ /\ line[c] = "up"
          /\ line' = [line EXCEPT ![c] = "over"]
          /\ UNCHANGED replies
    /\ MainGoes("softphone")
    /\ UNCHANGED <<call, tester, requests, verdict>>

\* Another message of another phone.
OtherMessage ==
    /\ main.pc = "select"
    /\ MainGoes("softphone")
    /\ UNCHANGED <<call, tester, requests, replies, line, verdict>>

-----------------------------------------------------------------------------
(* The main thread as the test phone: softphone_process_response *)

\* Mutant: the state is not looked at before a 200 is taken for the answer.
ReactionAnyState(code) ==
    CASE code = "180" -> "ring"
      [] code = "200" /\ call.state # "terminating" -> "establish"
      [] code = "200" /\ call.state = "terminating" -> "finish"
      [] OTHER -> "fail"

\* What a response leads to in the state it finds.  Any code but 100, 180 and 200 is taken
\* for an error, in every state; 183 is one of them.
Reaction(code) ==
    CASE code = "180" /\ call.state = "calling" -> "ring"
      [] code = "200" /\ call.state \in {"calling", "ringing"} -> "establish"
      [] code = "200" /\ call.state = "terminating" -> "finish"
      [] code \in {"183", "error"} -> "fail"
      [] OTHER -> "check"

Receive ==
    /\ main.pc \in {"select", "softphone"} /\ replies # <<>>
    /\ MainGoes(Reaction(Head(replies).code))
    /\ replies' = Tail(replies)
    /\ UNCHANGED <<call, tester, requests, line, verdict>>

MainSets(step, value, next) ==
    /\ main.pc = step
    /\ call' = value
    /\ MainGoes(next)
    /\ UNCHANGED <<tester, requests, replies, line, verdict>>

Ring == MainSets("ring", NewState("ringing"), "check")

\* The ACK may not be sent: the state stays.
Establish ==
    \/ MainSets("establish", NewState("established"), "check")
    \/ MainSets("establish", call, "check")

\* An error response ends the call, the fields stay.
Fail == MainSets("fail", NewState("idle"), "check")

\* The 200 to a BYE or a CANCEL ends the call; then the fields are erased.
Ended == MainSets("finish", NewState("idle"), "erase")
Erase == MainSets("erase", [IdleCall EXCEPT !.age = Ancient], "check")

-----------------------------------------------------------------------------
(* The main thread: softphone_check_timeout, at the end of each round that had a datagram *)

\* Mutant: a call that stands has no limit.
TooLongUnanswered(state, age) ==
    \/ state \in {"calling", "terminating"} /\ age > ResponseTimeout
    \/ state = "ringing" /\ age > RingingTimeout

TooLong(state, age) ==
    \/ state \in {"calling", "terminating"} /\ age > ResponseTimeout
    \/ state = "ringing" /\ age > RingingTimeout
    \/ state = "established" /\ age > CallTimeout

CheckTimeout ==
    /\ main.pc \in {"softphone", "check"}
    /\ MainGoes(IF call.state = "idle" THEN "select" ELSE "elapsed")
    /\ UNCHANGED <<call, tester, requests, replies, line, verdict>>

Elapsed ==
    /\ main.pc = "elapsed"
    /\ main' = [pc |-> "expire", elapsed |-> call.age]
    /\ UNCHANGED <<call, tester, requests, replies, line, verdict>>

Expire ==
    IF TooLong(call.state, main.elapsed)
    THEN MainSets("expire", [call EXCEPT !.state = "idle"], "wipe")
    ELSE MainSets("expire", call, "select")

Wipe == MainSets("wipe", IdleCall, "select")

Main ==
    \/ ProxyHandles \/ OtherMessage \/ \E c \in Calls : PhoneSends(c)
    \/ Receive \/ Ring \/ Establish \/ Fail \/ Ended \/ Erase
    \/ CheckTimeout \/ Elapsed \/ Expire \/ Wipe

-----------------------------------------------------------------------------
(* The bulk test: a call to one phone *)

TesterDoes(step, value, next) ==
    /\ tester.pc = step
    /\ call' = value
    /\ TesterGoes(next)
    /\ UNCHANGED <<main, requests, replies, line, verdict>>

Reset == IF call.state = "idle" THEN call ELSE IdleCall

Begin ==
    /\ tester.pc = "between" /\ tester.call < MaxCalls
    /\ tester' = [tester EXCEPT !.pc = "wait", !.call = @ + 1, !.timer = WaitTime]
    /\ verdict' = "none"
    /\ UNCHANGED <<call, main, requests, replies, line>>

\* The test phone is idle, or it has been waited for long enough and is reset.
Wait ==
    /\ call.state = "idle" \/ tester.timer = 0
    /\ TesterDoes("wait", Reset, "dial")

\* softphone_make_call: reset, the fields, the INVITE, the state, the time stamp.
Dial == TesterDoes("dial", [Reset EXCEPT !.id = tester.call], "invite")

Request(method) == requests' = Append(requests, [method |-> method, call |-> call.id])

Invite ==
    /\ tester.pc = "invite"
    /\ \/ /\ Request("INVITE")
          /\ TesterGoes("calling")
          /\ UNCHANGED <<call, verdict>>
       \/ /\ verdict' = "failed"
          /\ call' = IdleCall
          /\ TesterGoes("between")
          /\ UNCHANGED requests
    /\ UNCHANGED <<main, replies, line>>

SetCalling == TesterDoes("calling", [call EXCEPT !.state = "calling"], "stamp")

\* Mutant: the time stamp is left out.
SetStampNot ==
    /\ tester.pc = "stamp"
    /\ TesterSleeps("poll", PollTime)
    /\ UNCHANGED <<call, main, requests, replies, line, verdict>>

SetStamp ==
    /\ tester.pc = "stamp"
    /\ call' = [call EXCEPT !.age = 0]
    /\ TesterSleeps("poll", PollTime)
    /\ UNCHANGED <<main, requests, replies, line, verdict>>

\* The state is looked at every 50 ms until it is no longer CALLING or the time is over.
Poll ==
    /\ tester.pc = "poll"
    /\ call.state \in {"ringing", "established", "idle"} \/ tester.timer = 0
    /\ tester' = [tester EXCEPT !.pc = "judge", !.timer = 0, !.saw = call.state]
    /\ UNCHANGED <<call, main, requests, replies, line, verdict>>

\* Mutant: the state the poll saw is counted as it is.
CountedAsSeen == tester.saw

Counted ==
    CASE tester.saw = "calling" -> "offline"
      [] tester.saw \in {"ringing", "established", "idle"} -> "online"
      [] OTHER -> verdict

Judge ==
    /\ tester.pc = "judge"
    /\ verdict' = Counted
    /\ TesterGoes(CASE tester.saw = "ringing" -> "cancel"
                    [] tester.saw = "established" -> "hangup"
                    [] OTHER -> "reset")
    /\ UNCHANGED <<call, main, requests, replies, line>>

\* softphone_cancel_call and softphone_hang_up look at the state again.
Leave(step, method, among) ==
    /\ tester.pc = step
    /\ \/ call.state \in among /\ Request(method) /\ TesterGoes("leave")
       \/ UNCHANGED requests /\ TesterSleeps("settle", SettleTime)
    /\ UNCHANGED <<call, main, replies, line, verdict>>

Cancel == Leave("cancel", "CANCEL", {"calling", "ringing"})
HangUp == Leave("hangup", "BYE", {"established"})

SetTerminating ==
    /\ tester.pc = "leave"
    /\ call' = NewState("terminating")
    /\ TesterSleeps("settle", SettleTime)
    /\ UNCHANGED <<main, requests, replies, line, verdict>>

Settle == tester.timer = 0 /\ TesterDoes("settle", call, "reset")

ForceReset == TesterDoes("reset", Reset, "between")

Tester ==
    \/ Begin \/ Wait \/ Dial \/ Invite \/ SetCalling \/ SetStamp \/ Poll \/ Judge
    \/ Cancel \/ HangUp \/ SetTerminating \/ Settle \/ ForceReset

-----------------------------------------------------------------------------
(* The specification *)

\* A second passes while the bulk test sleeps: between calls, or with time left.
Asleep == tester.pc = "between" \/ tester.timer > 0

Tick ==
    /\ Asleep /\ (call.age < Ancient \/ tester.timer > 0)
    /\ call' = [call EXCEPT !.age = IF @ < Ancient THEN @ + 1 ELSE @]
    /\ tester' = [tester EXCEPT !.timer = IF @ > 0 THEN @ - 1 ELSE 0]
    /\ UNCHANGED <<main, requests, replies, line, verdict>>

\* The time stamp of an unused phone is 0.
Init ==
    /\ call = [IdleCall EXCEPT !.age = Ancient]
    /\ main = [pc |-> "select", elapsed |-> 0]
    /\ tester = [pc |-> "between", call |-> NoCall, timer |-> 0, saw |-> "idle"]
    /\ requests = <<>> /\ replies = <<>>
    /\ line = [c \in Calls |-> "none"]
    /\ verdict = "none"

Next == Main \/ Tester \/ Tick

Spec == Init /\ [][Next]_vars

\* Both threads run, messages keep coming to the proxy (phones register again and again), and
\* time passes.
Fairness == WF_vars(Main) /\ WF_vars(Tester) /\ WF_vars(Tick)

-----------------------------------------------------------------------------
(* Histories: how the threads have met, and whether a response to the call  *)
(* under test came while the bulk test looked for it.  "disturbed" means    *)
(* that a response to another call came in or an ACK could not be sent,     *)
(* "met" that both threads have been at work at the same time.              *)

VARIABLES course, heard

BothAtWork ==
    /\ main.pc \notin {"select", "softphone"}
    /\ tester.pc \notin {"between", "wait", "poll", "settle"}

Heard(c) == Receive /\ Head(replies).call = c

Disturbed ==
    \/ \E c \in Calls \cup {NoCall} : Heard(c) /\ c # tester.call
    \/ main.pc = "establish" /\ main'.pc = "check" /\ call' = call

HistoryInit == Init /\ course = "apart" /\ heard = FALSE

HistoryNext ==
    /\ Next
    /\ course' = IF course = "met" \/ BothAtWork' THEN "met"
                 ELSE IF Disturbed THEN "disturbed" ELSE course
    /\ heard' = /\ course' = "apart" /\ verdict' = verdict
                /\ heard \/ (tester.pc = "poll" /\ Heard(tester.call))

HistorySpec == HistoryInit /\ [][HistoryNext]_<<vars, course, heard>> /\ Fairness

-----------------------------------------------------------------------------
(* Properties *)

TypeOK ==
    /\ call \in [state : States, id : Calls \cup {NoCall}, age : 0..Ancient]
    /\ main \in [pc : MainSteps, elapsed : 0..Ancient]
    /\ tester \in [pc : TesterSteps, call : 0..MaxCalls, timer : Nat, saw : States]
    /\ requests \in Seq([method : {"INVITE", "CANCEL", "BYE"}, call : Calls \cup {NoCall}])
    /\ replies \in Seq([code : {"180", "183", "200", "error"}, call : Calls \cup {NoCall}])
    /\ line \in [Calls -> Lines]
    /\ verdict \in Verdicts

\* No call blocks the test phone for good, whatever the two threads do to each other: the bulk
\* test resets what it started, and the timeouts end what is left.
StuckCallEnds == call.state # "idle" ~> call.state = "idle"

\* A phone is counted online exactly if a response to its call came while the bulk test looked
\* for it, as long as the threads stay apart, no response of an earlier call is left and ACKs go out: the
\* timeouts of the main thread, the resets and what the last call left behind do not show as
\* answers (ping_bulk_test.c:405-453).
VerdictIsHeard ==
    [][course = "apart" /\ verdict' # verdict =>
          (verdict' = "online" => heard) /\ (verdict' = "offline" => ~heard)]_verdict

\* The state of the call moves along the lifecycle of softphone.h:15-22, as long as the threads
\* stay apart: no late or stray response revives a call that is idle or being ended.
Lifecycle ==
    {<<"idle", "calling">>, <<"calling", "ringing">>, <<"calling", "established">>,
     <<"ringing", "established">>, <<"ringing", "terminating">>,
     <<"established", "terminating">>}
    \cup {<<s, "idle">> : s \in States} \cup {<<s, s>> : s \in States}

LifecycleKept == [][course' = "met" \/ <<call.state, call'.state>> \in Lifecycle]_call

\* A call is reset only when its own time is over (softphone.h:113 "Check if softphone call has
\* timed out").  TLC finds it violated: make_call sets the state before the time stamp, and the
\* main thread can find the new call with the time of the last one.
OnlyOldTimeOut == [][main.pc = "expire" /\ main'.pc = "wipe" => TooLong(call.state, call.age)]_vars

=============================================================================
