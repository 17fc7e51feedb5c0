--------------------------- MODULE SoftphoneProofs ---------------------------
(***************************************************************************)
(* Proofs about Softphone, for any number of calls and any timeouts:       *)
(* types, the lifecycle of the call and what the verdict of the bulk test  *)
(* rests on.                                                               *)
(*                                                                         *)
(* Nothing keeps the two threads apart, so the last two are about what     *)
(* happens until they meet, and the invariant says what each of them may   *)
(* take for granted meanwhile: the state a thread has read is still the    *)
(* state of the call when it acts on it (StateIsKnown), and while the bulk *)
(* test looks for an answer the call has left CALLING exactly if one has   *)
(* been handled (AnswerShows).                                             *)
(***************************************************************************)
EXTENDS Softphone, SequenceTheorems, TLAPS

\* Where the main thread and the bulk test are between two pieces of work.
Resting == {"select", "softphone"}
Waiting == {"between", "wait", "poll", "settle"}

\* As long as the threads have not met one of them is between two pieces of work.
OneAtWork == main.pc \in Resting \/ tester.pc \in Waiting

\* What a thread has read of the state is still so when it writes it.
StateIsKnown ==
    /\ main.pc = "ring" => call.state = "calling"
    /\ main.pc = "establish" => call.state \in {"calling", "ringing"}
    /\ main.pc \in {"erase", "wipe"} => call.state = "idle"
    /\ main.pc = "expire" => main.elapsed <= call.age
    /\ tester.pc \in {"invite", "calling"} => call.state = "idle"
    /\ tester.pc = "stamp" => call.state = "calling"
    /\ tester.pc = "judge" => call.state = tester.saw
    /\ tester.pc = "cancel" => call.state = "ringing"
    /\ tester.pc = "hangup" => call.state = "established"
    /\ tester.pc = "leave" => call.state \in {"ringing", "established"}

\* The steps of the main thread that an answer has led to.
Answering == {"ring", "establish", "fail"}

\* While the bulk test looks at the call, it leaves CALLING for an answer only: the call is
\* younger than a timeout.
AnswerShows ==
    /\ call.state # "terminating" /\ main.pc \notin {"finish", "erase"}
    /\ heard => main.pc \in Answering \/ call.state # "calling"
    /\ main.pc \in Answering \/ call.state # "calling" => heard
    /\ call.state = "calling" => call.age + tester.timer <= PollTime

\* What has been heard is about the call under test, and it is what the bulk test sees.
HeardInv ==
    /\ tester.pc \notin {"poll", "judge"} => ~heard
    /\ tester.pc \in {"wait", "dial", "invite", "calling", "stamp", "poll", "judge"}
          => verdict = "none"
    /\ tester.pc = "poll" => AnswerShows
    /\ tester.pc = "judge" => /\ tester.saw # "terminating"
                              /\ heard => tester.saw # "calling"
                              /\ tester.saw # "calling" => heard

\* Both hold until the threads meet.
KnownInv == course = "met" \/ (OneAtWork /\ StateIsKnown)

\* What all steps preserve.
PhoneInv ==
    /\ TypeOK /\ course \in {"apart", "disturbed", "met"} /\ heard \in BOOLEAN
    /\ KnownInv
    /\ course = "apart" /\ PollTime <= ResponseTimeout => HeardInv

-----------------------------------------------------------------------------
(* Types *)

\* The constants, one by one.
LEMMA Constants ==
    /\ MaxCalls \in Nat /\ WaitTime \in Nat /\ PollTime \in Nat /\ SettleTime \in Nat
    /\ ResponseTimeout \in Nat /\ RingingTimeout \in Nat /\ CallTimeout \in Nat
    /\ Ancient \in Nat /\ ResponseTimeout < Ancient
  BY SoftphoneAssumption DEF Ancient

\* The fields of the call, and what passes between test phone and proxy.
CallRecord == [state : States, id : Calls \cup {NoCall}, age : 0..Ancient]
Datagram == [method : {"INVITE", "CANCEL", "BYE"}, call : Calls \cup {NoCall}]
Response == [code : {"180", "183", "200", "error"}, call : Calls \cup {NoCall}]

\* Whichever thread sets the call leaves a call.
LEMMA CallTypes ==
    ASSUME TypeOK
    PROVE  /\ call \in CallRecord
           /\ \A s \in States : NewState(s) \in CallRecord /\ [call EXCEPT !.state = s] \in CallRecord
           /\ \A a \in 0..Ancient : [call EXCEPT !.age = a] \in CallRecord
           /\ IdleCall \in CallRecord /\ Reset \in CallRecord
           /\ [IdleCall EXCEPT !.age = Ancient] \in CallRecord
           /\ \A c \in Calls \cup {NoCall} : [Reset EXCEPT !.id = c] \in CallRecord
           /\ tester.call \in Calls \cup {NoCall}
  <1>1. call \in CallRecord /\ 0 \in 0..Ancient /\ Ancient \in 0..Ancient /\ "idle" \in States
    BY Constants DEF TypeOK, CallRecord, States
  <1>2. IdleCall \in CallRecord
    BY <1>1 DEF IdleCall, CallRecord
  <1>3. Reset \in CallRecord
    BY <1>1, <1>2 DEF Reset
  <1>4. \A r \in CallRecord, c \in Calls \cup {NoCall} : [r EXCEPT !.id = c] \in CallRecord
    BY DEF CallRecord
  <1>5. \A r \in CallRecord, a \in 0..Ancient : [r EXCEPT !.age = a] \in CallRecord
    BY DEF CallRecord
  <1>6. \A r \in CallRecord, s \in States : [r EXCEPT !.state = s] \in CallRecord
    BY DEF CallRecord
  <1>7. \A r \in CallRecord, s \in States : [r EXCEPT !.state = s, !.age = 0] \in CallRecord
    BY <1>1 DEF CallRecord
  <1>8. tester.call \in Calls \cup {NoCall}
    BY Constants DEF TypeOK, Calls, NoCall
  <1>9. \A s \in States : NewState(s) \in CallRecord /\ [call EXCEPT !.state = s] \in CallRecord
    <2> TAKE s \in States
    <2>1. [call EXCEPT !.state = s] \in CallRecord
      BY <1>1, <1>6
    <2>2. NewState(s) \in CallRecord
      BY <1>1, <1>7 DEF NewState
    <2> QED
      BY <2>1, <2>2
  <1>10. \A a \in 0..Ancient : [call EXCEPT !.age = a] \in CallRecord
    BY <1>1, <1>5
  <1>11. [IdleCall EXCEPT !.age = Ancient] \in CallRecord
    BY <1>1, <1>2, <1>5
  <1>12. \A c \in Calls \cup {NoCall} : [Reset EXCEPT !.id = c] \in CallRecord
    BY <1>3, <1>4
  <1> QED
    BY <1>1, <1>2, <1>3, <1>8, <1>9, <1>10, <1>11, <1>12

\* The main thread keeps the types, as proxy and as test phone.
LEMMA MainTypes ==
    ASSUME TypeOK, Main
    PROVE  TypeOK'
  <1>1. ASSUME NEW step \in MainSteps
        PROVE  MainGoes(step) => main' \in [pc : MainSteps, elapsed : 0..Ancient]
    BY <1>1, Constants DEF MainGoes
  <1>2. ASSUME NEW c \in Calls \cup {NoCall}, NEW code \in {"180", "183", "200", "error"}, Reply(c, code)
        PROVE  replies' \in Seq(Response)
    BY <1>2 DEF Reply, TypeOK, Response
  <1>3. CASE ProxyHandles
    <2> DEFINE m == Head(requests)
    <2>1. requests \in Seq(Datagram) /\ requests # <<>>
      BY <1>3 DEF TypeOK, Datagram, ProxyHandles
    <2>2. m \in Datagram /\ requests' \in Seq(Datagram)
      BY <1>3, <2>1 DEF ProxyHandles
    <2>3. m.call \in Calls \cup {NoCall} /\ line \in [Calls -> Lines]
      BY <2>2 DEF Datagram, TypeOK
    <2>4. \/ ProxyInvite(m.call)
          \/ ProxyEnd(m.call, {"trying", "ringing"})
          \/ ProxyEnd(m.call, {"trying", "ringing", "up"})
      BY <1>3, <2>2 DEF ProxyHandles, Datagram
    <2> HIDE DEF m
    <2>5. line' \in [Calls -> Lines] /\ (replies' = replies \/ \E code \in {"200", "error"} : Reply(m.call, code))
      BY <2>3, <2>4 DEF ProxyInvite, ProxyEnd, Lines
    <2>6. replies' \in Seq(Response)
      BY <1>2, <2>3, <2>5 DEF TypeOK, Response
    <2>7. main' \in [pc : MainSteps, elapsed : 0..Ancient]
      BY <1>1, <1>3 DEF ProxyHandles, MainSteps
    <2> QED
      BY <1>3, <2>2, <2>5, <2>6, <2>7 DEF ProxyHandles, TypeOK, Datagram, Response
  <1>4. ASSUME NEW c \in Calls, PhoneSends(c)
        PROVE  TypeOK'
    <2>1. line' \in [Calls -> Lines]
      BY <1>4 DEF PhoneSends, TypeOK, Lines
    <2>2. replies' \in Seq(Response)
      <3>1. replies' = replies \/ \E code \in {"180", "183", "200", "error"} : Reply(c, code)
        BY <1>4 DEF PhoneSends
      <3> QED
        BY <1>2, <3>1 DEF TypeOK, Response
    <2>3. main' \in [pc : MainSteps, elapsed : 0..Ancient]
      BY <1>1, <1>4 DEF PhoneSends, MainSteps
    <2> QED
      BY <1>4, <2>1, <2>2, <2>3 DEF PhoneSends, TypeOK, Response
  <1>5. CASE OtherMessage \/ CheckTimeout \/ Elapsed
    BY <1>5, Constants DEF OtherMessage, CheckTimeout, Elapsed, MainGoes, MainSteps, TypeOK
  <1>6. CASE Receive
    <2>1. replies \in Seq(Response) /\ replies # <<>>
      BY <1>6 DEF TypeOK, Response, Receive
    <2>2. replies' \in Seq(Response)
      BY <1>6, <2>1 DEF Receive
    <2>3. main' \in [pc : MainSteps, elapsed : 0..Ancient]
      BY <1>1, <1>6 DEF Receive, Reaction, MainSteps
    <2> QED
      BY <1>6, <2>2, <2>3 DEF Receive, TypeOK, Response
  <1>7. CASE Ring \/ Establish \/ Fail \/ Ended \/ Erase \/ Expire \/ Wipe
    <2>1. call' \in CallRecord
      BY <1>7, CallTypes DEF Ring, Establish, Fail, Ended, Erase, Expire, Wipe, MainSets, States
    <2>2. main' \in [pc : MainSteps, elapsed : 0..Ancient]
      BY <1>1, <1>7 DEF Ring, Establish, Fail, Ended, Erase, Expire, Wipe, MainSets, MainSteps
    <2>3. UNCHANGED <<tester, requests, replies, line, verdict>>
      BY <1>7 DEF Ring, Establish, Fail, Ended, Erase, Expire, Wipe, MainSets
    <2> QED
      BY <2>1, <2>2, <2>3 DEF TypeOK, CallRecord
  <1> QED
    BY <1>3, <1>4, <1>5, <1>6, <1>7 DEF Main

\* So does the bulk test,
LEMMA TesterTypes ==
    ASSUME TypeOK, Tester
    PROVE  TypeOK'
  <1> DEFINE TesterRecord == [pc : TesterSteps, call : 0..MaxCalls, timer : Nat, saw : States]
  <1>1. ASSUME NEW step \in TesterSteps, NEW time \in Nat
        PROVE  TesterSleeps(step, time) => tester' \in TesterRecord
    BY <1>1 DEF TesterSleeps, TypeOK, States
  <1>2. ASSUME NEW step \in TesterSteps
        PROVE  TesterGoes(step) => tester' \in TesterRecord
    BY <1>1, <1>2 DEF TesterGoes
  <1>3. ASSUME NEW method \in {"INVITE", "CANCEL", "BYE"}, Request(method)
        PROVE  requests' \in Seq(Datagram)
    <2>1. [method |-> method, call |-> call.id] \in Datagram
      BY CallTypes DEF CallRecord, Datagram
    <2> QED
      BY <1>3, <2>1 DEF Request, TypeOK, Datagram
  <1>4. CASE Begin
    <2>1. tester.call + 1 \in 0..MaxCalls /\ WaitTime \in Nat /\ "wait" \in TesterSteps
      BY <1>4, Constants DEF Begin, TypeOK, TesterSteps
    <2>2. tester' \in TesterRecord
      BY <1>4, <2>1 DEF Begin, TypeOK
    <2> QED
      BY <1>4, <2>2 DEF Begin, TypeOK, Verdicts
  <1>5. CASE Wait \/ Dial \/ SetCalling \/ Settle \/ ForceReset
    <2>1. call' \in CallRecord
      BY <1>5, CallTypes DEF Wait, Dial, SetCalling, Settle, ForceReset, TesterDoes, States
    <2>2. tester' \in TesterRecord
      BY <1>2, <1>5 DEF Wait, Dial, SetCalling, Settle, ForceReset, TesterDoes, TesterSteps
    <2>3. UNCHANGED <<main, requests, replies, line, verdict>>
      BY <1>5 DEF Wait, Dial, SetCalling, Settle, ForceReset, TesterDoes
    <2> QED
      BY <2>1, <2>2, <2>3 DEF TypeOK, CallRecord
  <1>6. CASE Invite
    <2>1. tester' \in TesterRecord
      BY <1>2, <1>6 DEF Invite, TesterSteps
    <2>2. requests' \in Seq(Datagram)
      BY <1>3, <1>6 DEF Invite, TypeOK, Datagram
    <2>3. call' \in CallRecord /\ verdict' \in Verdicts
      BY <1>6, CallTypes DEF Invite, TypeOK, Verdicts
    <2> QED
      BY <1>6, <2>1, <2>2, <2>3 DEF Invite, TypeOK, Datagram, CallRecord
  <1>7. CASE SetStamp \/ SetTerminating
    <2>1. call' \in CallRecord
      BY <1>7, CallTypes, Constants DEF SetStamp, SetTerminating, States
    <2>2. tester' \in TesterRecord
      BY <1>1, <1>7, Constants DEF SetStamp, SetTerminating, TesterSteps
    <2> QED
      BY <1>7, <2>1, <2>2 DEF SetStamp, SetTerminating, TypeOK, CallRecord
  <1>8. CASE Poll
    BY <1>8 DEF Poll, TypeOK, TesterSteps
  <1>9. CASE Judge
    <2>1. tester' \in TesterRecord
      BY <1>2, <1>9 DEF Judge, TesterSteps
    <2>2. verdict' \in Verdicts
      BY <1>9 DEF Judge, Counted, TypeOK, Verdicts
    <2> QED
      BY <1>9, <2>1, <2>2 DEF Judge, TypeOK
  <1>10. CASE Cancel \/ HangUp
    <2>1. requests' \in Seq(Datagram)
      BY <1>3, <1>10 DEF Cancel, HangUp, Leave, TypeOK, Datagram
    <2>2. tester' \in TesterRecord
      BY <1>1, <1>2, <1>10, Constants DEF Cancel, HangUp, Leave, TesterSteps
    <2> QED
      BY <1>10, <2>1, <2>2 DEF Cancel, HangUp, Leave, TypeOK, Datagram
  <1> QED
    BY <1>4, <1>5, <1>6, <1>7, <1>8, <1>9, <1>10 DEF Tester

\* and so does time,
LEMMA TickTypes ==
    ASSUME TypeOK, Tick
    PROVE  TypeOK'
  <1>1. call.age \in 0..Ancient /\ (call.age < Ancient => call.age + 1 \in 0..Ancient)
    BY Constants DEF TypeOK
  <1>2. call' \in CallRecord
    BY <1>1, CallTypes DEF Tick
  <1>3. tester' \in [pc : TesterSteps, call : 0..MaxCalls, timer : Nat, saw : States]
    BY DEF Tick, TypeOK
  <1> QED
    BY <1>2, <1>3 DEF Tick, TypeOK, CallRecord

\* and with them all steps.
LEMMA TypesKept ==
    ASSUME TypeOK, Next
    PROVE  TypeOK'
  BY MainTypes, TesterTypes, TickTypes DEF Next

-----------------------------------------------------------------------------
(* What a step shows of itself *)

\* The steps of the main thread that set the call.
MainWrites == Ring \/ Establish \/ Fail \/ Ended \/ Erase \/ Expire \/ Wipe

\* A response takes the main thread to work.
LEMMA ReceiveMoves ==
    ASSUME TypeOK, Receive
    PROVE  /\ main.pc \in Resting /\ main'.pc = Reaction(Head(replies).code)
           /\ main'.pc \in {"ring", "establish", "finish", "fail", "check"}
           /\ Head(replies) \in Response
           /\ UNCHANGED <<call, tester, verdict>>
  <1>1. Head(replies) \in Response
    <2>1. replies \in Seq(Response) /\ replies # <<>>
      BY DEF TypeOK, Response, Receive
    <2> QED
      BY <2>1
  <1>2. main'.pc = Reaction(Head(replies).code)
    BY DEF Receive, MainGoes
  <1>3. Reaction(Head(replies).code) \in {"ring", "establish", "finish", "fail", "check"}
    BY DEF Reaction
  <1> QED
    BY <1>1, <1>2, <1>3 DEF Receive, Resting

\* The proxy and the checks of the main thread leave the call alone.
LEMMA MainReads ==
    ASSUME TypeOK,
           ProxyHandles \/ OtherMessage \/ (\E c \in Calls : PhoneSends(c)) \/ CheckTimeout \/ Elapsed
    PROVE  /\ main.pc \in Resting \cup {"check", "elapsed"}
           /\ main'.pc \in Resting \cup {"elapsed", "expire"}
           /\ main'.pc = "expire" => main'.elapsed = call.age
           /\ ~Receive
           /\ UNCHANGED <<call, tester, verdict>>
  <1>1. CASE ProxyHandles \/ OtherMessage \/ \E c \in Calls : PhoneSends(c)
    <2>1. main.pc = "select" /\ main'.pc = "softphone" /\ UNCHANGED <<call, tester, verdict>>
      <3>1. CASE ProxyHandles
        BY <3>1 DEF ProxyHandles, MainGoes
      <3>2. CASE OtherMessage
        BY <3>2 DEF OtherMessage, MainGoes
      <3>3. CASE \E c \in Calls : PhoneSends(c)
        BY <3>3 DEF PhoneSends, MainGoes
      <3> QED
        BY <1>1, <3>1, <3>2, <3>3
    <2> QED
      BY <2>1, ReceiveMoves DEF Resting
  <1>2. CASE CheckTimeout
    <2>1. /\ main.pc \in {"softphone", "check"} /\ main'.pc \in {"select", "elapsed"}
          /\ UNCHANGED <<call, tester, verdict>>
      BY <1>2 DEF CheckTimeout, MainGoes
    <2> QED
      BY <2>1, ReceiveMoves DEF Resting
  <1>3. CASE Elapsed
    <2>1. /\ main.pc = "elapsed" /\ main'.pc = "expire" /\ main'.elapsed = call.age
          /\ UNCHANGED <<call, tester, verdict>>
      BY <1>3 DEF Elapsed
    <2> QED
      BY <2>1, ReceiveMoves DEF Resting
  <1> QED
    BY <1>1, <1>2, <1>3

\* What the main thread writes.
LEMMA MainSetsCall ==
    ASSUME TypeOK, MainWrites
    PROVE  /\ main.pc \in {"ring", "establish", "fail", "finish", "erase", "expire", "wipe"}
           /\ main'.pc \in {"check", "erase", "select", "wipe"}
           /\ main'.pc \in {"erase", "wipe"} => call'.state = "idle"
           /\ main'.pc = "erase" => main.pc = "finish"
           /\ main.pc = "ring" => call'.state = "ringing"
           /\ main.pc = "establish" => \/ call'.state = "established"
                                       \/ call' = call /\ main'.pc = "check"
           /\ main.pc \in {"fail", "finish", "erase", "wipe"} => call'.state = "idle"
           /\ main.pc = "expire" => \/ TooLong(call.state, main.elapsed) /\ call'.state = "idle"
                                    \/ call' = call
           /\ ~Receive
           /\ UNCHANGED <<tester, verdict>>
  <1>1. \A s \in States : NewState(s).state = s /\ [call EXCEPT !.state = s].state = s
    BY CallTypes DEF NewState, CallRecord
  <1>2. IdleCall.state = "idle" /\ [IdleCall EXCEPT !.age = Ancient].state = "idle"
    BY DEF IdleCall
  <1>3. ~Receive
    BY ReceiveMoves DEF MainWrites, Ring, Establish, Fail, Ended, Erase, Expire, Wipe, MainSets, Resting
  <1>4. CASE Ring
    BY <1>1, <1>3, <1>4 DEF Ring, MainSets, MainGoes, States
  <1>5. CASE Establish
    BY <1>1, <1>3, <1>5 DEF Establish, MainSets, MainGoes, States
  <1>6. CASE Fail \/ Ended
    BY <1>1, <1>3, <1>6 DEF Fail, Ended, MainSets, MainGoes, States
  <1>7. CASE Erase \/ Wipe
    <2>1. CASE Erase
      BY <1>2, <1>3, <2>1 DEF Erase, MainSets, MainGoes
    <2>2. CASE Wipe
      BY <1>2, <1>3, <2>2 DEF Wipe, MainSets, MainGoes
    <2> QED
      BY <1>7, <2>1, <2>2
  <1>8. CASE Expire
    <2>1. /\ main.pc = "expire" /\ main'.pc \in {"select", "wipe"}
          /\ UNCHANGED <<tester, verdict>>
      BY <1>8 DEF Expire, MainSets, MainGoes
    <2>2. CASE TooLong(call.state, main.elapsed)
      <3>1. call' = [call EXCEPT !.state = "idle"]
        BY <1>8, <2>2 DEF Expire, MainSets
      <3> QED
        BY <1>1, <1>3, <2>1, <2>2, <3>1 DEF States
    <2>3. CASE ~TooLong(call.state, main.elapsed)
      <3>1. call' = call /\ main'.pc = "select"
        BY <1>8, <2>3 DEF Expire, MainSets, MainGoes
      <3> QED
        BY <1>3, <2>1, <3>1
    <2> QED
      BY <2>2, <2>3
  <1> QED
    BY <1>4, <1>5, <1>6, <1>7, <1>8 DEF MainWrites

\* The steps of the bulk test, by where they lead and what they do to the state.
LEMMA TesterMoves ==
    ASSUME TypeOK, Tester
    PROVE  /\ main' = main
           /\ \/ tester.pc = "between" /\ tester'.pc = "wait" /\ call' = call /\ verdict' = "none"
              \/ /\ tester.pc = "wait" /\ tester'.pc = "dial" /\ call'.state = "idle"
                 /\ verdict' = verdict
              \/ tester.pc = "dial" /\ tester'.pc = "invite" /\ call'.state = "idle" /\ verdict' = verdict
              \/ tester.pc = "invite" /\ tester'.pc = "calling" /\ call' = call /\ verdict' = verdict
              \/ /\ tester.pc = "invite" /\ tester'.pc = "between" /\ call'.state = "idle"
                 /\ verdict' = "failed"
              \/ tester.pc = "calling" /\ tester'.pc = "stamp" /\ call'.state = "calling" /\ verdict' = verdict
              \/ /\ tester.pc = "stamp" /\ tester'.pc = "poll" /\ tester'.timer = PollTime
                 /\ call'.state = call.state /\ call'.age = 0 /\ verdict' = verdict
              \/ /\ tester.pc = "poll" /\ tester'.pc = "judge" /\ tester'.saw = call.state
                 /\ call' = call /\ verdict' = verdict
              \/ Judge
              \/ /\ tester.pc \in {"cancel", "hangup"} /\ tester'.pc \in {"leave", "settle"}
                 /\ call' = call /\ verdict' = verdict
              \/ /\ tester.pc = "leave" /\ tester'.pc = "settle" /\ call'.state = "terminating"
                 /\ verdict' = verdict
              \/ tester.pc = "settle" /\ tester'.pc = "reset" /\ call' = call /\ verdict' = verdict
              \/ tester.pc = "reset" /\ tester'.pc = "between" /\ call'.state = "idle" /\ verdict' = verdict
  <1>1. /\ call \in CallRecord /\ Reset \in CallRecord /\ Reset.state = "idle"
        /\ [Reset EXCEPT !.id = tester.call].state = "idle"
    <2>1. Reset.state = "idle" /\ Reset \in CallRecord
      BY CallTypes DEF Reset, IdleCall
    <2> QED
      BY <2>1, CallTypes DEF CallRecord
  <1>2. /\ [call EXCEPT !.state = "calling"].state = "calling"
        /\ [call EXCEPT !.age = 0].state = call.state /\ [call EXCEPT !.age = 0].age = 0
        /\ NewState("terminating").state = "terminating"
    BY <1>1 DEF CallRecord, NewState
  <1>3. \A step, time : TesterSleeps(step, time) => tester'.pc = step /\ tester'.timer = time
    BY DEF TesterSleeps, TypeOK
  <1>4. \A step : TesterGoes(step) => tester'.pc = step
    BY <1>3 DEF TesterGoes
  <1>5. CASE Begin
    BY <1>5 DEF Begin, TypeOK
  <1>6. CASE Wait \/ Dial
    BY <1>1, <1>4, <1>6 DEF Wait, Dial, TesterDoes
  <1>7. CASE Invite
    BY <1>4, <1>7 DEF Invite, IdleCall
  <1>8. CASE SetCalling \/ SetStamp
    BY <1>2, <1>3, <1>4, <1>8 DEF SetCalling, SetStamp, TesterDoes
  <1>9. CASE Poll
    BY <1>9 DEF Poll, TypeOK
  <1>10. CASE Judge
    BY <1>10 DEF Judge
  <1>11. CASE Cancel \/ HangUp
    BY <1>3, <1>4, <1>11 DEF Cancel, HangUp, Leave
  <1>12. CASE SetTerminating
    BY <1>2, <1>3, <1>12 DEF SetTerminating
  <1>13. CASE Settle \/ ForceReset
    BY <1>1, <1>4, <1>13 DEF Settle, ForceReset, TesterDoes
  <1> QED
    BY <1>5, <1>6, <1>7, <1>8, <1>9, <1>10, <1>11, <1>12, <1>13 DEF Tester

\* What the verdict becomes and where the bulk test goes from there.
LEMMA JudgeMoves ==
    ASSUME TypeOK, Judge
    PROVE  /\ tester.pc = "judge" /\ verdict' = Counted /\ UNCHANGED <<call, main>>
           /\ tester'.pc = CASE tester.saw = "ringing" -> "cancel"
                             [] tester.saw = "established" -> "hangup"
                             [] OTHER -> "reset"
  <1> DEFINE next == CASE tester.saw = "ringing" -> "cancel"
                       [] tester.saw = "established" -> "hangup"
                       [] OTHER -> "reset"
  <1>1. TesterGoes(next) /\ tester.pc = "judge" /\ verdict' = Counted /\ UNCHANGED <<call, main>>
    BY DEF Judge
  <1> HIDE DEF next
  <1>2. tester'.pc = next
    BY <1>1 DEF TesterGoes, TesterSleeps, TypeOK
  <1> QED
    BY <1>1, <1>2 DEF next

\* A second that passes.
LEMMA TickMoves ==
    ASSUME TypeOK, Tick
    PROVE  /\ UNCHANGED <<main, verdict>>
           /\ call'.state = call.state /\ call'.age \in {call.age, call.age + 1}
           /\ tester'.pc = tester.pc /\ tester'.saw = tester.saw
           /\ tester.pc # "between" => tester.timer > 0 /\ tester'.timer = tester.timer - 1
  <1>1. call \in CallRecord /\ call' = [call EXCEPT !.age = IF @ < Ancient THEN @ + 1 ELSE @]
    BY CallTypes DEF Tick
  <1>2. call'.state = call.state /\ call'.age \in {call.age, call.age + 1}
    BY <1>1 DEF CallRecord
  <1>3. tester' = [tester EXCEPT !.timer = IF @ > 0 THEN @ - 1 ELSE 0]
    BY DEF Tick
  <1> QED
    BY <1>2, <1>3 DEF Tick, Asleep, TypeOK

-----------------------------------------------------------------------------
(* What the threads know, until they have met *)

\* The main thread reacts to the state it has looked at.
LEMMA KnownOfMain ==
    ASSUME TypeOK, OneAtWork, StateIsKnown, OneAtWork', Main
    PROVE  StateIsKnown'
  <1> USE DEF StateIsKnown, OneAtWork, Resting, Waiting
  <1>1. CASE ProxyHandles \/ OtherMessage \/ (\E c \in Calls : PhoneSends(c)) \/ CheckTimeout \/ Elapsed
    <2>1. call.age <= call.age
      BY Constants DEF TypeOK
    <2> QED
      BY <1>1, <2>1, MainReads
  <1>2. CASE Receive
    <2>1. UNCHANGED <<call, tester>> /\ main'.pc = Reaction(Head(replies).code)
      BY <1>2, ReceiveMoves
    <2>2. /\ main'.pc = "ring" => call.state = "calling"
          /\ main'.pc = "establish" => call.state \in {"calling", "ringing"}
          /\ main'.pc \notin {"erase", "wipe", "expire"}
      BY <2>1 DEF Reaction
    <2> QED
      BY <2>1, <2>2
  <1>3. CASE MainWrites
    BY <1>3, MainSetsCall
  <1> QED
    BY <1>1, <1>2, <1>3 DEF Main, MainWrites

\* The bulk test dials an idle phone, and cancels or hangs up what it has seen.
LEMMA KnownOfTester ==
    ASSUME TypeOK, OneAtWork, StateIsKnown, OneAtWork', Tester
    PROVE  StateIsKnown'
  <1> USE DEF StateIsKnown, OneAtWork, Resting, Waiting
  <1>1. CASE Judge
    BY <1>1, JudgeMoves
  <1>2. CASE ~Judge
    BY <1>2, TesterMoves
  <1> QED
    BY <1>1, <1>2

\* A step after which the threads have not met leaves each what it knows.
LEMMA KnownKept ==
    ASSUME TypeOK, KnownInv, HistoryNext
    PROVE  KnownInv'
  <1>1. CASE course' = "met"
    BY <1>1 DEF KnownInv
  <1>2. CASE course' # "met"
    <2>1. OneAtWork /\ StateIsKnown /\ OneAtWork'
      BY <1>2 DEF HistoryNext, KnownInv, OneAtWork, BothAtWork, Resting, Waiting
    <2>2. StateIsKnown'
      <3>1. CASE Main
        BY <2>1, <3>1, KnownOfMain
      <3>2. CASE Tester
        BY <2>1, <3>2, KnownOfTester
      <3>3. CASE Tick
        <4>1. main.elapsed <= call.age => main.elapsed <= call'.age
          <5>1. call.age \in Nat /\ main.elapsed \in Nat
            BY Constants DEF TypeOK
          <5> QED
            BY <3>3, <5>1, TickMoves
        <4> QED
          BY <2>1, <3>3, <4>1, TickMoves DEF StateIsKnown
      <3> QED
        BY <3>1, <3>2, <3>3 DEF HistoryNext, Next
    <2> QED
      BY <2>1, <2>2 DEF KnownInv
  <1> QED
    BY <1>1, <1>2

-----------------------------------------------------------------------------
(* What has been heard, while nothing disturbs *)

\* While nothing disturbs, a response is about the call under test and an ACK goes out.
LEMMA NothingDisturbs ==
    ASSUME TypeOK, heard \in BOOLEAN, HistoryNext, course' = "apart"
    PROVE  /\ course = "apart" /\ ~BothAtWork'
           /\ Receive => Heard(tester.call)
           /\ ~(main.pc = "establish" /\ main'.pc = "check" /\ call' = call)
           /\ heard' => verdict' = verdict /\ (heard \/ (tester.pc = "poll" /\ Receive))
           /\ verdict' = verdict /\ (heard \/ (tester.pc = "poll" /\ Receive)) => heard'
  <1>1. course # "met" /\ ~BothAtWork' /\ ~Disturbed /\ course = "apart"
    BY DEF HistoryNext
  <1>2. Receive => Heard(tester.call)
    <2> SUFFICES ASSUME Receive PROVE Heard(tester.call)
      OBVIOUS
    <2>1. Head(replies).call \in Calls \cup {NoCall} /\ Heard(Head(replies).call)
      BY ReceiveMoves DEF Response, Heard
    <2> QED
      BY <1>1, <2>1 DEF Disturbed
  <1>3. Heard(tester.call) => Receive
    BY DEF Heard
  <1>4. heard' = (/\ course' = "apart" /\ verdict' = verdict
                  /\ heard \/ (tester.pc = "poll" /\ Heard(tester.call)))
    BY DEF HistoryNext
  <1> QED
    BY <1>1, <1>2, <1>3, <1>4 DEF Disturbed

\* Only a response that has been heard takes the call out of CALLING: it is younger than a timeout.
LEMMA HeardOfMain ==
    ASSUME TypeOK, heard \in BOOLEAN, PollTime <= ResponseTimeout, OneAtWork', StateIsKnown, HeardInv,
           HistoryNext, course' = "apart", Main
    PROVE  HeardInv'
  <1>1. UNCHANGED <<tester, verdict>>
    BY ReceiveMoves, MainReads, MainSetsCall DEF Main, MainWrites
  <1>2. tester.pc # "poll" => (heard' <=> heard)
    BY <1>1, NothingDisturbs
  <1>3. ASSUME tester.pc = "poll"
        PROVE  AnswerShows'
    <2>1. AnswerShows
      BY <1>3 DEF HeardInv
    <2>2. CASE ProxyHandles \/ OtherMessage \/ (\E c \in Calls : PhoneSends(c)) \/ CheckTimeout \/ Elapsed
      <3>1. heard' <=> heard
        BY <1>1, <2>2, NothingDisturbs, MainReads
      <3>2. call.age \in Nat
        BY Constants DEF TypeOK
      <3> QED
        BY <1>1, <2>1, <2>2, <3>1, <3>2, MainReads DEF AnswerShows, Answering, Resting
    <2>3. CASE Receive
      <3>1. heard'
        BY <1>1, <1>3, <2>3, NothingDisturbs
      <3>2. /\ call' = call /\ main'.pc = Reaction(Head(replies).code) /\ Head(replies) \in Response
            /\ main'.pc \in {"ring", "establish", "finish", "fail", "check"}
        BY <2>3, ReceiveMoves
      <3>3. call.state # "terminating" => main'.pc # "finish"
        BY <3>2 DEF Reaction
      <3>4. call.state = "calling" => main'.pc \in Answering
        BY <3>2 DEF Reaction, Response, Answering
      <3>5. tester' = tester
        BY <1>1
      <3> QED
        BY <2>1, <3>1, <3>2, <3>3, <3>4, <3>5 DEF AnswerShows
    <2>4. CASE MainWrites
      <3>1. heard' <=> heard
        BY <1>1, <2>4, NothingDisturbs, MainSetsCall
      <3>2. CASE main.pc \in {"ring", "establish", "fail"}
        BY <2>1, <2>4, <3>1, <3>2, MainSetsCall, NothingDisturbs DEF AnswerShows, Answering
      <3>3. CASE main.pc = "wipe"
        BY <2>1, <2>4, <3>1, <3>3, MainSetsCall DEF AnswerShows, Answering, StateIsKnown
      <3>4. CASE main.pc = "expire"
        <4>1. call.state = "calling" => ~TooLong(call.state, main.elapsed)
          <5>1. /\ tester.timer \in Nat /\ call.age \in Nat /\ main.elapsed \in Nat
                /\ PollTime \in Nat /\ ResponseTimeout \in Nat
            BY Constants DEF TypeOK
          <5>2. call.state = "calling" => main.elapsed <= ResponseTimeout
            BY <2>1, <3>4, <5>1 DEF AnswerShows, StateIsKnown
          <5> QED
            BY <5>1, <5>2 DEF TooLong
        <4>2. CASE call.state = "calling"
          BY <1>1, <2>1, <2>4, <3>1, <3>4, <4>1, <4>2, MainSetsCall DEF AnswerShows, Answering
        <4>3. CASE call.state # "calling"
          BY <1>1, <2>1, <2>4, <3>1, <3>4, <4>3, MainSetsCall DEF AnswerShows, Answering
        <4> QED
          BY <4>2, <4>3
      <3> QED
        BY <2>1, <2>4, <3>2, <3>3, <3>4, MainSetsCall DEF AnswerShows
    <2> QED
      BY <2>2, <2>3, <2>4 DEF Main, MainWrites
  <1> QED
    BY <1>1, <1>2, <1>3 DEF HeardInv

\* The bulk test begins to listen with a call in CALLING, and forgets what it heard with the verdict.
LEMMA HeardOfTester ==
    ASSUME TypeOK, heard \in BOOLEAN, OneAtWork, OneAtWork', StateIsKnown, StateIsKnown', HeardInv,
           HistoryNext, course' = "apart", Tester
    PROVE  HeardInv'
  <1>1. ~Receive /\ main' = main
    BY TesterMoves, ReceiveMoves DEF Resting
  <1>2. heard' => heard /\ verdict' = verdict
    BY <1>1, NothingDisturbs
  <1>3. heard /\ verdict' = verdict => heard'
    BY <1>1, NothingDisturbs
  <1>4. CASE Judge
    <2>1. /\ tester.pc = "judge" /\ verdict = "none" /\ tester.saw # "terminating"
          /\ tester'.pc \in {"cancel", "hangup", "reset"}
      BY <1>4, JudgeMoves DEF HeardInv
    <2>2. tester.saw \in States
      BY DEF TypeOK
    <2>3. verdict' \in {"online", "offline"}
      BY <1>4, <2>1, <2>2, JudgeMoves DEF Counted, States
    <2> QED
      BY <1>2, <2>1, <2>3 DEF HeardInv
  <1>5. CASE tester.pc = "stamp" /\ tester'.pc = "poll"
    <2>1. ~heard'
      BY <1>2, <1>5 DEF HeardInv
    <2>2. main'.pc \in Resting
      BY <1>1, <1>5 DEF OneAtWork, Waiting
    <2>3. call'.state = "calling" /\ call'.age = 0 /\ tester'.timer = PollTime /\ verdict' = "none"
      BY <1>5, TesterMoves, JudgeMoves DEF StateIsKnown, HeardInv
    <2>4. AnswerShows'
      BY <2>1, <2>2, <2>3, Constants DEF AnswerShows, Answering, Resting
    <2> QED
      BY <1>5, <2>1, <2>3, <2>4 DEF HeardInv
  <1>6. CASE tester.pc = "poll"
    <2>1. /\ tester'.pc = "judge" /\ tester'.saw = call.state /\ call' = call
          /\ verdict' = verdict
      BY <1>6, TesterMoves, JudgeMoves
    <2>2. main.pc \in Resting /\ AnswerShows
      BY <1>1, <1>6, <2>1 DEF OneAtWork, Waiting, HeardInv
    <2>3. verdict' = "none"
      BY <1>6, <2>1 DEF HeardInv
    <2> QED
      BY <1>2, <1>3, <2>1, <2>2, <2>3 DEF HeardInv, AnswerShows, Answering, Resting
  <1>7. CASE ~Judge /\ tester.pc \notin {"stamp", "poll"}
    <2>1. tester.pc # "judge" /\ tester'.pc \notin {"poll", "judge"}
      BY <1>7, TesterMoves
    <2>2. ~heard'
      BY <1>2, <1>7, <2>1 DEF HeardInv
    <2>3. tester'.pc \in {"wait", "dial", "invite", "calling", "stamp"} => verdict' = "none"
      BY <1>7, TesterMoves DEF HeardInv
    <2> QED
      BY <2>1, <2>2, <2>3 DEF HeardInv
  <1> QED
    BY <1>4, <1>5, <1>6, <1>7, TesterMoves, JudgeMoves

\* The call grows older by what is left of the poll.
LEMMA HeardOfTick ==
    ASSUME TypeOK, heard \in BOOLEAN, HeardInv, HistoryNext, course' = "apart", Tick
    PROVE  HeardInv'
  <1>1. ~Receive
    BY TickMoves, ReceiveMoves DEF Resting
  <1>2. heard' <=> heard
    BY <1>1, TickMoves, NothingDisturbs
  <1>3. ASSUME tester.pc = "poll"
        PROVE  AnswerShows'
    <2>1. AnswerShows
      BY <1>3 DEF HeardInv
    <2>2. /\ call.age \in Nat /\ tester.timer \in Nat /\ main.elapsed \in Nat /\ PollTime \in Nat
      BY Constants DEF TypeOK
    <2>3. /\ call'.age \in {call.age, call.age + 1} /\ tester'.timer = tester.timer - 1
          /\ call'.state = call.state /\ main' = main
      BY <1>3, TickMoves
    <2>4. call.age + tester.timer <= PollTime => call'.age + tester'.timer <= PollTime
      BY <2>2, <2>3
    <2> QED
      BY <1>2, <2>1, <2>3, <2>4 DEF AnswerShows
  <1> QED
    BY <1>2, <1>3, TickMoves DEF HeardInv

-----------------------------------------------------------------------------
(* The invariant, and what follows from it *)

\* It holds when the process starts.
LEMMA PhoneInit ==
    ASSUME HistoryInit
    PROVE  PhoneInv
  <1>1. TypeOK
    <2>1. call \in CallRecord
      BY Constants DEF HistoryInit, Init, IdleCall, CallRecord, States
    <2>2. /\ main \in [pc : MainSteps, elapsed : 0..Ancient]
          /\ tester \in [pc : TesterSteps, call : 0..MaxCalls, timer : Nat, saw : States]
      BY Constants DEF HistoryInit, Init, MainSteps, TesterSteps, States, NoCall
    <2>3. line \in [Calls -> Lines] /\ verdict \in Verdicts
      BY DEF HistoryInit, Init, Lines, Verdicts
    <2>4. requests \in Seq(Datagram) /\ replies \in Seq(Response)
      BY DEF HistoryInit, Init
    <2> QED
      BY <2>1, <2>2, <2>3, <2>4 DEF TypeOK, CallRecord, Datagram, Response
  <1>2. main.pc = "select" /\ tester.pc = "between" /\ heard = FALSE /\ course = "apart"
    BY DEF HistoryInit, Init
  <1>3. KnownInv
    BY <1>2 DEF KnownInv, OneAtWork, StateIsKnown, Resting
  <1>4. HeardInv
    BY <1>2 DEF HeardInv
  <1> QED
    BY <1>1, <1>2, <1>3, <1>4 DEF PhoneInv

\* Every step preserves it.
LEMMA PhoneStep ==
    ASSUME PhoneInv, HistoryNext
    PROVE  PhoneInv'
  <1>1. TypeOK /\ heard \in BOOLEAN /\ KnownInv
    BY DEF PhoneInv
  <1>2. TypeOK' /\ KnownInv'
    BY <1>1, TypesKept, KnownKept DEF HistoryNext
  <1>3. course' \in {"apart", "disturbed", "met"} /\ heard' \in BOOLEAN
    BY DEF PhoneInv, HistoryNext
  <1>4. ASSUME course' = "apart", PollTime <= ResponseTimeout
        PROVE  HeardInv'
    <2>1. course = "apart"
      BY <1>1, <1>4, NothingDisturbs
    <2>2. HeardInv /\ OneAtWork /\ StateIsKnown /\ OneAtWork' /\ StateIsKnown'
      BY <1>1, <1>2, <1>4, <2>1 DEF PhoneInv, KnownInv
    <2>3. CASE Main
      BY <1>1, <1>4, <2>2, <2>3, HeardOfMain
    <2>4. CASE Tester
      BY <1>1, <1>4, <2>2, <2>4, HeardOfTester
    <2>5. CASE Tick
      BY <1>1, <1>4, <2>2, <2>5, HeardOfTick
    <2> QED
      BY <2>3, <2>4, <2>5 DEF HistoryNext, Next
  <1> QED
    BY <1>2, <1>3, <1>4 DEF PhoneInv

\* The invariant holds of every behaviour of the two threads.
THEOREM PhoneInvariant == HistorySpec => []PhoneInv
  <1>1. HistoryInit => PhoneInv
    BY PhoneInit
  <1>2. PhoneInv /\ [HistoryNext]_<<vars, course, heard>> => PhoneInv'
    <2>1. ASSUME PhoneInv, UNCHANGED <<vars, course, heard>>
          PROVE  PhoneInv'
      BY <2>1 DEF vars, PhoneInv, TypeOK, KnownInv, OneAtWork, StateIsKnown, HeardInv, AnswerShows
    <2> QED
      BY <2>1, PhoneStep
  <1> QED
    BY <1>1, <1>2, PTL DEF HistorySpec

\* The call, the two threads and what they exchange with the proxy have their types, however
\* the threads interleave and whatever the phones answer.
THEOREM PhoneTypeOK == HistorySpec => []TypeOK
  <1>1. PhoneInv => TypeOK
    BY DEF PhoneInv
  <1> QED
    BY <1>1, PhoneInvariant, PTL

\* Until the two threads have been at work at once, the state of the call moves along the lifecycle of
\* softphone.h:15-22: softphone_process_response and the timeout act on the state they have looked
\* at, and the bulk test cancels or hangs up what it has seen.
THEOREM LifecycleIsKept == HistorySpec => LifecycleKept
  <1>1. ASSUME PhoneInv, HistoryNext, course' # "met"
        PROVE  <<call.state, call'.state>> \in Lifecycle
    <2>1. TypeOK /\ StateIsKnown /\ call.state \in States
      BY <1>1 DEF PhoneInv, KnownInv, HistoryNext, TypeOK
    <2>2. CASE call'.state \in {"idle", call.state}
      BY <2>1, <2>2 DEF Lifecycle
    <2>3. CASE Main /\ call'.state \notin {"idle", call.state}
      <3>1. MainWrites /\ main.pc \in {"ring", "establish"}
        BY <2>1, <2>3, MainReads, ReceiveMoves, MainSetsCall DEF Main, MainWrites
      <3> QED
        BY <2>1, <2>3, <3>1, MainSetsCall DEF StateIsKnown, Lifecycle
    <2>4. CASE Tester /\ call'.state \notin {"idle", call.state}
      <3>1. \/ tester.pc = "calling" /\ call'.state = "calling"
            \/ tester.pc = "leave" /\ call'.state = "terminating"
        BY <2>1, <2>4, TesterMoves, JudgeMoves
      <3> QED
        BY <2>1, <3>1 DEF StateIsKnown, Lifecycle
    <2>5. CASE Tick
      BY <2>1, <2>2, <2>5, TickMoves
    <2> QED
      BY <1>1, <2>2, <2>3, <2>4, <2>5 DEF HistoryNext, Next
  <1>2. PhoneInv /\ [HistoryNext]_<<vars, course, heard>>
          => [course' = "met" \/ <<call.state, call'.state>> \in Lifecycle]_call
    BY <1>1 DEF vars
  <1> QED
    BY <1>2, PhoneInvariant, PTL DEF HistorySpec, LifecycleKept

\* The call that is reset is beyond its own limit.
OwnTimeOver ==
    [][course' = "met" \/ (main.pc = "expire" /\ main'.pc = "wipe" => TooLong(call.state, call.age))]_vars

\* Until the two threads have been at work at once, a call is reset by the timeout only when its own
\* time is over, as softphone.h:113 has it (OnlyOldTimeOut fails once they have).
THEOREM OldCallsTimeOut == HistorySpec => OwnTimeOver
  <1>1. ASSUME PhoneInv, HistoryNext, course' # "met", main.pc = "expire", main'.pc = "wipe"
        PROVE  TooLong(call.state, call.age)
    <2>1. TypeOK /\ main.elapsed <= call.age
      BY <1>1 DEF PhoneInv, KnownInv, StateIsKnown, HistoryNext
    <2>2. Expire
      <3>1. ~Tester /\ ~Tick /\ ~Receive
        BY <1>1, <2>1, TesterMoves, TickMoves, ReceiveMoves DEF Resting
      <3>2. ~(ProxyHandles \/ OtherMessage \/ (\E c \in Calls : PhoneSends(c)) \/ CheckTimeout \/ Elapsed)
        BY <1>1, <2>1, MainReads DEF Resting
      <3>3. ~(Ring \/ Establish \/ Fail \/ Ended \/ Erase \/ Wipe)
        BY <1>1 DEF Ring, Establish, Fail, Ended, Erase, Wipe, MainSets
      <3> QED
        BY <1>1, <3>1, <3>2, <3>3 DEF HistoryNext, Next, Main
    <2>3. TooLong(call.state, main.elapsed)
      BY <1>1, <2>2 DEF Expire, MainSets, MainGoes
    <2>4. /\ call.age \in Nat /\ main.elapsed \in Nat
          /\ ResponseTimeout \in Nat /\ RingingTimeout \in Nat /\ CallTimeout \in Nat
      BY <2>1, Constants DEF TypeOK
    <2> QED
      BY <2>1, <2>3, <2>4 DEF TooLong
  <1>2. PhoneInv /\ [HistoryNext]_<<vars, course, heard>>
          => [course' = "met" \/ (main.pc = "expire" /\ main'.pc = "wipe" => TooLong(call.state, call.age))]_vars
    BY <1>1 DEF vars
  <1> QED
    BY <1>2, PhoneInvariant, PTL DEF HistorySpec, OwnTimeOver

\* Where the bulk test looks for an answer for no longer than a response may take (1 s and 5 s in the
\* code), a phone is counted online exactly if a response to its call was handled meanwhile,
\* until the threads meet, a response of an earlier call comes in or an ACK cannot be sent.
THEOREM VerdictsAreHeard ==
    ASSUME PollTime <= ResponseTimeout
    PROVE  HistorySpec => VerdictIsHeard
  <1>1. ASSUME PhoneInv, HistoryNext, course = "apart", verdict' # verdict
        PROVE  (verdict' = "online" => heard) /\ (verdict' = "offline" => ~heard)
    <2>1. TypeOK /\ HeardInv /\ heard \in BOOLEAN
      BY <1>1 DEF PhoneInv
    <2>2. CASE verdict' \in {"none", "failed"}
      BY <2>2
    <2>3. CASE Judge
      <3>1. verdict' = Counted /\ tester.pc = "judge"
        BY <2>1, <2>3, JudgeMoves
      <3>2. /\ tester.saw # "terminating"
            /\ heard => tester.saw # "calling"
            /\ tester.saw # "calling" => heard
        BY <2>1, <3>1 DEF HeardInv
      <3>3. tester.saw = "calling" => Counted = "offline"
        BY DEF Counted
      <3>4. tester.saw \in States \ {"calling", "terminating"} => Counted = "online"
        BY DEF Counted, States
      <3>5. tester.saw \in States
        BY <2>1 DEF TypeOK
      <3> QED
        BY <3>1, <3>2, <3>3, <3>4, <3>5
    <2>4. Judge \/ verdict' \in {"none", "failed"}
      <3>1. Tester
        BY <1>1, <2>1, MainReads, ReceiveMoves, MainSetsCall, TickMoves DEF HistoryNext, Next, Main, MainWrites
      <3> QED
        BY <1>1, <2>1, <3>1, TesterMoves
    <2> QED
      BY <2>2, <2>3, <2>4
  <1>2. PhoneInv /\ [HistoryNext]_<<vars, course, heard>>
          => [course = "apart" /\ verdict' # verdict =>
                (verdict' = "online" => heard) /\ (verdict' = "offline" => ~heard)]_verdict
    BY <1>1 DEF vars
  <1> QED
    BY <1>2, PhoneInvariant, PTL DEF HistorySpec, VerdictIsHeard
=============================================================================
