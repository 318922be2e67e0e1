---------------------------- MODULE ZmqRpcProofs ----------------------------
(***************************************************************************)
(* Theorems about ZmqRpc, for every number of calls, clients and restarts, *)
(* every capacity of the pipes and every clock bound.                      *)
(***************************************************************************)
EXTENDS ZmqRpc, RpcMessagesProofs

\* What the server has in hand is in the variable its position says.
InHand == /\ server \in {"dispatch", "handler"} => current \in Request
          /\ server = "reply" => response \in Reply

TypeInv == TypeOK /\ InHand

USE DEF NoDeadline

\* Environment steps keep the types: the clock stays within its bound, pipes
\* stay sequences of messages.
LEMMA EnvironmentType ==
  ASSUME TypeInv, Environment, UNCHANGED <<clientVars, serverVars>>
  PROVE  TypeInv'
<1> USE RpcAssumption, WireAssumption
<1> USE DEF TypeInv, TypeOK, InHand, WireTypeOK, ClientTypeOK, ServerTypeOK,
            clientVars, serverVars
<1>1. CASE Tick
  BY <1>1 DEF Tick
<1>2. ASSUME NEW cl \in Clients, LoseConnection(cl)
      PROVE  TypeInv'
  BY <1>2 DEF LoseConnection
<1> QED BY <1>1, <1>2 DEF Environment

\* What the lemmas below say of an action: it keeps the types of the client's
\* half of the state, those of the wire, those of the server's half.
LEMMA FinishType ==
  ASSUME ClientTypeOK, NEW c \in Calls, NEW res \in Results, Finish(c, res)
  PROVE  ClientTypeOK'
<1> USE ClientAssumption, RpcAssumption, WireAssumption
<1> QED BY DEF ClientTypeOK, Finish, InLock

\* An empty pipe carries requests and replies alike.
LEMMA EmptyPipe == /\ <<>> \in Seq(Request)
                   /\ <<>> \in Seq(Reply)
<1> QED OBVIOUS

\* Every step of a client keeps the types.
LEMMA ClientType ==
  ASSUME TypeInv, ClientNext, UNCHANGED serverVars
  PROVE  TypeInv'
<1> USE RpcAssumption, WireAssumption, ClientAssumption
<1>a. ServerTypeOK' /\ InHand'
  BY DEF TypeInv, TypeOK, InHand, ServerTypeOK, serverVars
<1> SUFFICES ClientTypeOK' /\ WireTypeOK'
  BY <1>a DEF TypeInv, TypeOK
<1>b. ClientTypeOK /\ WireTypeOK
  BY DEF TypeInv, TypeOK
<1>c. ASSUME UNCHANGED wireVars
      PROVE  WireTypeOK'
  BY <1>b, <1>c DEF WireTypeOK, wireVars
<1>d. LocalErrors \subseteq Results
  BY DEF Results
<1>1. ASSUME NEW c \in Calls, Begin(c)
      PROVE  ClientTypeOK' /\ WireTypeOK'
  <2>1. WireTypeOK'
    BY <1>1, <1>c DEF Begin
  <2>2. PICK t \in Timeouts, s \in SentShapes :
          /\ t # NoDeadline => now + t <= MaxTime
          /\ deadline' = [deadline EXCEPT ![c] = IF t = NoDeadline THEN t ELSE now + t]
          /\ shape' = [shape EXCEPT ![c] = s]
    BY <1>1 DEF Begin
  <2>3. (IF t = NoDeadline THEN t ELSE now + t) \in -1 .. MaxTime
    BY <2>2, <1>b DEF WireTypeOK
  <2> QED BY <1>1, <1>b, <2>1, <2>2, <2>3 DEF Begin, Goto, ClientTypeOK
<1>2. ASSUME NEW c \in Calls, BeginFails(c)
      PROVE  ClientTypeOK' /\ WireTypeOK'
  BY <1>2, <1>b, <1>c, <1>d, FinishType DEF BeginFails, LocalErrors
<1>3. ASSUME NEW c \in Calls, Acquire(c)
      PROVE  ClientTypeOK' /\ WireTypeOK'
  BY <1>3, <1>b, <1>c DEF Acquire, Goto, ClientTypeOK, InLock
<1>4. ASSUME NEW c \in Calls, Send(c)
      PROVE  ClientTypeOK' /\ WireTypeOK'
  <2>1. [id |-> c, deadline |-> deadline[c], shape |-> shape[c]] \in Request
    BY <1>b DEF Request, ClientTypeOK
  <2>2. WireTypeOK'
    BY <1>4, <1>b, <2>1 DEF Send, WireTypeOK
  <2> QED BY <1>4, <1>b, <2>2 DEF Send, Goto, ClientTypeOK, InLock
<1>5. ASSUME NEW c \in Calls, SendFails(c)
      PROVE  ClientTypeOK' /\ WireTypeOK'
  BY <1>5, <1>b, <1>c, <1>d, FinishType DEF SendFails, LocalErrors
<1>6. ASSUME NEW c \in Calls, LoopHead(c)
      PROVE  ClientTypeOK' /\ WireTypeOK'
  <2>1. CASE Expired(deadline[c])
    BY <1>6, <1>b, <1>c, <1>d, <2>1, FinishType DEF LoopHead, LocalErrors
  <2>2. CASE ~Expired(deadline[c])
    BY <1>6, <1>b, <1>c, <2>2 DEF LoopHead, Goto, ClientTypeOK, InLock
  <2> QED BY <2>1, <2>2
<1>7. ASSUME NEW c \in Calls, Receive(c)
      PROVE  ClientTypeOK' /\ WireTypeOK'
  <2> DEFINE q == replies[ClientOf[c]]
  <2>1. q \in Seq(Reply) /\ q # <<>>
    BY <1>7, <1>b DEF Receive, WireTypeOK
  <2>2. Head(q) \in Reply /\ Tail(q) \in Seq(Reply)
    BY <2>1, HeadTailType
  <2>3. WireTypeOK'
    BY <1>7, <1>b, <2>2 DEF Receive, WireTypeOK
  <2>4. CASE IsResponseTo(c, Head(q))
    BY <1>7, <1>b, <2>2, <2>3, <2>4, OutcomeType, FinishType DEF Receive
  <2>5. CASE ~IsResponseTo(c, Head(q))
    BY <1>7, <1>b, <2>3, <2>5 DEF Receive, Goto, ClientTypeOK, InLock
  <2> QED BY <2>4, <2>5
<1>8. ASSUME NEW c \in Calls, PollExpires(c) \/ PollFails(c)
      PROVE  ClientTypeOK' /\ WireTypeOK'
  BY <1>8, <1>b, <1>c, <1>d, FinishType DEF PollExpires, PollFails, LocalErrors
<1>9. ASSUME NEW cl \in Clients, CloseSocket(cl)
      PROVE  ClientTypeOK' /\ WireTypeOK'
  <2>1. PICK kept \in {<<>>, requests[cl]} : requests' = [requests EXCEPT ![cl] = kept]
    BY <1>9 DEF CloseSocket
  <2>2. kept \in Seq(Request)
    <3>1. requests[cl] \in Seq(Request) /\ <<>> \in Seq(Request)
      BY <1>b DEF WireTypeOK
    <3> QED BY <2>1, <3>1
  <2>3. WireTypeOK'
    BY <1>9, <1>b, <2>1, <2>2 DEF CloseSocket, WireTypeOK
  <2> QED BY <1>9, <1>b, <2>3 DEF CloseSocket, ClientTypeOK
<1>10. ASSUME NEW cl \in Clients, CloseFlag(cl)
       PROVE  ClientTypeOK' /\ WireTypeOK'
  BY <1>10, <1>b, <1>c DEF CloseFlag, ClientTypeOK
<1> QED BY <1>1, <1>2, <1>3, <1>4, <1>5, <1>6, <1>7, <1>8, <1>9, <1>10
        DEF ClientNext, CallStep

\* Every step of the server keeps the types.
LEMMA ServerType ==
  ASSUME TypeInv, ServerNext, UNCHANGED clientVars
  PROVE  TypeInv'
<1> USE RpcAssumption, WireAssumption, ServerAssumption
<1>a. ClientTypeOK'
  BY DEF TypeInv, TypeOK, ClientTypeOK, clientVars
<1> SUFFICES ServerTypeOK' /\ InHand' /\ WireTypeOK'
  BY <1>a DEF TypeInv, TypeOK
<1>b. ServerTypeOK /\ InHand /\ WireTypeOK
  BY DEF TypeInv, TypeOK
<1>c. ASSUME UNCHANGED wireVars
      PROVE  WireTypeOK'
  BY <1>b, <1>c DEF WireTypeOK, wireVars
<1> USE <1>b
<1>1. ASSUME ServeForever \/ ClearStopping \/ LoopTest \/ EnterServeOnce
             \/ PollIdle \/ PollError \/ Stop \/ CloseSetsStopping
             \/ CloseServerFlag \/ HandlerBadAbort
      PROVE  ServerTypeOK' /\ InHand' /\ WireTypeOK'
  <2>1. WireTypeOK'
    BY <1>1, <1>c DEF ServeForever, ClearStopping, LoopTest, EnterServeOnce, PollIdle,
       PollError, Stop, CloseSetsStopping, CloseServerFlag, HandlerBadAbort
  <2> USE <1>b DEF ServerTypeOK, InHand, Stopped
  <2>2. CASE ServeForever \/ ClearStopping \/ LoopTest \/ EnterServeOnce
    BY <2>1, <2>2 DEF ServeForever, ClearStopping, LoopTest, EnterServeOnce
  <2>3. CASE PollIdle \/ PollError \/ HandlerBadAbort
    BY <2>1, <2>3 DEF PollIdle, PollError, HandlerBadAbort
  <2>4. CASE Stop \/ CloseSetsStopping \/ CloseServerFlag
    BY <2>1, <2>4 DEF Stop, CloseSetsStopping, CloseServerFlag
  <2> QED BY <1>1, <2>2, <2>3, <2>4
<1>2. ASSUME NEW cl \in Clients, Take(cl)
      PROVE  ServerTypeOK' /\ InHand' /\ WireTypeOK'
  <2> DEFINE q == requests[cl]
             m == Head(q)
  <2>1. q \in Seq(Request) /\ q # <<>>
    BY <1>2 DEF Take, WireTypeOK
  <2>2. m \in Request /\ Tail(q) \in Seq(Request)
    BY <2>1, HeadTailType
  <2>3. WireTypeOK'
    BY <1>2, <2>2 DEF Take, WireTypeOK
  <2>4. m.id \in Calls
    BY <2>2 DEF Request
  <2>5. Rejection(m) \in Reply \cup {NoReply}
    BY <2>4, RejectionType
  <2> QED BY <1>2, <2>2, <2>3, <2>4, <2>5 DEF Take, ServerTypeOK, InHand
<1>3. ASSUME Dispatch
      PROVE  ServerTypeOK' /\ InHand' /\ WireTypeOK'
  <2>1. current \in Request /\ current.id \in Calls
    BY <1>3 DEF Dispatch, InHand, Request
  <2>2. Failure(current, "invalid_argument") \in Reply
    BY <2>1, FailureType DEF Failures
  <2>3. WireTypeOK'
    BY <1>3, <1>c DEF Dispatch
  <2> QED BY <1>3, <2>1, <2>2, <2>3 DEF Dispatch, ServerTypeOK, InHand
<1>4. ASSUME NEW e \in HandlerEnds, HandlerEnd(e)
      PROVE  ServerTypeOK' /\ InHand' /\ WireTypeOK'
  <2>1. Report(current, e) \in Reply
    BY <1>4, ReportType DEF HandlerEnd, InHand, Request
  <2>2. WireTypeOK'
    BY <1>4, <1>c DEF HandlerEnd
  <2> QED BY <1>4, <2>1, <2>2 DEF HandlerEnd, ServerTypeOK, InHand
<1>5. ASSUME SendReply
      PROVE  ServerTypeOK' /\ InHand' /\ WireTypeOK'
  <2>1. response \in Reply /\ response.id \in Calls
    BY <1>5 DEF SendReply, InHand, Reply
  <2>s. /\ server' \in {"loop", "raised"} /\ response' = NoReply
        /\ UNCHANGED <<current, stopping, serverLife, restarts, taken, runs>>
    BY <1>5 DEF SendReply
  <2>a. answer' \in [Calls -> Reply \cup {NoReply}]
    <3>1. answer' = answer \/ answer' = [answer EXCEPT ![response.id] = response]
      BY <1>5 DEF SendReply
    <3>2. answer \in [Calls -> Reply \cup {NoReply}]
      BY DEF ServerTypeOK
    <3> QED BY ONLY <2>1, <3>1, <3>2
  <2>2. ServerTypeOK' /\ InHand'
    BY <2>s, <2>a DEF ServerTypeOK, InHand, Stopped
  <2>3. ASSUME NEW q \in Seq(Reply)
        PROVE  Append(q, response) \in Seq(Reply)
    BY <2>1
  <2>4. WireTypeOK'
    <3>1. \A cl \in Clients : Append(replies[cl], response) \in Seq(Reply)
      BY <2>3 DEF WireTypeOK
    <3> DEFINE cl == ClientOf[response.id]
    <3>2. CASE ServerSocketOpen
      <4>1. cl \in Clients
        BY <2>1
      <4>2. [replies EXCEPT ![cl] = Append(@, response)] \in [Clients -> Seq(Reply)]
        BY <4>1, <3>1 DEF WireTypeOK
      <4> QED BY <1>5, <3>2, <4>2 DEF SendReply, WireTypeOK
    <3>3. CASE ~ServerSocketOpen
      BY <1>5, <3>3 DEF SendReply, WireTypeOK
    <3> QED BY <3>2, <3>3
  <2> QED BY <2>2, <2>4
<1>6. ASSUME CloseServerSocket
      PROVE  ServerTypeOK' /\ InHand' /\ WireTypeOK'
  BY <1>6 DEF CloseServerSocket, ServerTypeOK, InHand, WireTypeOK
<1>7. ASSUME Restart
      PROVE  ServerTypeOK' /\ InHand' /\ WireTypeOK'
  <2>a. stopping' \in BOOLEAN
    BY <1>7 DEF Restart
  <2>b. server' \in Stopped /\ restarts' \in 0 .. MaxRestarts
    BY <1>7 DEF Restart, ServerTypeOK, Stopped
  <2>1. ServerTypeOK'
    BY <1>7, <2>a, <2>b DEF Restart, ServerTypeOK
  <2>0. InHand'
    BY <1>7 DEF Restart, InHand
  <2>2. WireTypeOK'
    BY <1>7, EmptyPipe DEF Restart, WireTypeOK
  <2> QED BY <2>0, <2>1, <2>2
<1> QED BY <1>1, <1>2, <1>3, <1>4, <1>5, <1>6, <1>7 DEF ServerNext, ServerStep

\* Types hold in the initial states.
LEMMA InitType == Init => TypeInv
<1> SUFFICES ASSUME Init
             PROVE  TypeInv
  OBVIOUS
<1> USE RpcAssumption, WireAssumption, ServerAssumption
<1>1. WireTypeOK
  BY EmptyPipe DEF Init, WireInit, WireTypeOK
<1>2. ClientTypeOK
  BY DEF Init, ClientInit, ClientTypeOK, Shapes
<1>3. ServerTypeOK
  <2>1. server \in Stopped
    BY DEF Init, ServerInit, Stopped
  <2>2. stopping \in BOOLEAN
    BY DEF Init, ServerInit
  <2>3. restarts \in 0 .. MaxRestarts
    BY DEF Init, ServerInit
  <2> QED BY <2>1, <2>2, <2>3 DEF Init, ServerInit, ServerTypeOK
<1>4. InHand
  BY DEF Init, ServerInit, InHand
<1> QED BY <1>1, <1>2, <1>3, <1>4 DEF TypeInv, TypeOK

\* Each step keeps the types.
LEMMA NextType == TypeInv /\ [Next]_vars => TypeInv'
<1> SUFFICES ASSUME TypeInv, [Next]_vars
             PROVE  TypeInv'
  OBVIOUS
<1>1. CASE UNCHANGED vars
  BY <1>1 DEF vars, wireVars, clientVars, serverVars, TypeInv, TypeOK, InHand,
              WireTypeOK, ClientTypeOK, ServerTypeOK
<1> QED BY <1>1, ClientType, ServerType, EnvironmentType DEF Next

\* Every variable of client, server and wire keeps its type, whatever the
\* threads, the network and the clock do.
THEOREM TypeCorrect == Spec => []TypeOK
<1>1. TypeInv => TypeOK
  BY DEF TypeInv
<1> QED BY <1>1, InitType, NextType, PTL DEF Spec

-----------------------------------------------------------------------------
(* The inductive invariant.                                                *)

Sent(c) == pc[c] \in {"loop", "poll", "done"}

LockInv == \A c \in Calls : pc[c] \in InLock <=> lock[ClientOf[c]] = c

ResultInv == \A c \in Calls : pc[c] = "done" <=> result[c] # "none"

\* A request in a pipe has not met the server yet, in any way.
Pending(cl, m) == /\ ClientOf[m.id] = cl
                  /\ Sent(m.id)
                  /\ m.id \notin taken
                  /\ answer[m.id] = NoReply
                  /\ server = "reply" => response.id # m.id
                  /\ m.deadline = deadline[m.id]
                  /\ result[m.id] = "timeout" => Expired(m.deadline)

RequestInv == \A cl \in Clients : \A i \in 1 .. Len(requests[cl]) :
                Pending(cl, requests[cl][i])

DistinctInv == \A cl \in Clients : \A i, j \in 1 .. Len(requests[cl]) :
                 requests[cl][i].id = requests[cl][j].id => i = j

Honest(m) == /\ m.status = "ok" => runs[m.id] = 1
             /\ m.status \in Refusals => runs[m.id] = 0

HandInv == /\ server \in {"dispatch", "handler"} =>
                 /\ Sent(current.id)
                 /\ current.id \in taken
                 /\ answer[current.id] = NoReply
                 /\ runs[current.id] = IF server = "dispatch" THEN 0 ELSE 1
           /\ server = "reply" =>
                 /\ Sent(response.id)
                 /\ answer[response.id] = NoReply
                 /\ Honest(response)

HistoryInv == \A c \in Calls :
                /\ runs[c] <= 1
                /\ c \notin taken => runs[c] = 0
                /\ c \in taken => Sent(c)
                /\ answer[c] # NoReply =>
                     answer[c].id = c /\ Sent(c) /\ Honest(answer[c])

ReplyInv == \A cl \in Clients : \A i \in 1 .. Len(replies[cl]) :
              LET m == replies[cl][i] IN ClientOf[m.id] = cl /\ answer[m.id] = m

IInv == /\ TypeInv /\ LockInv /\ ResultInv /\ RequestInv /\ DistinctInv
        /\ HandInv /\ HistoryInv /\ ReplyInv /\ Correlation

\* What the pipes hold.
LEMMA QueuedType ==
  ASSUME TypeOK, NEW cl \in Clients
  PROVE  /\ \A i \in 1 .. Len(requests[cl]) :
               requests[cl][i] \in Request /\ requests[cl][i].id \in Calls
         /\ \A i \in 1 .. Len(replies[cl]) :
               replies[cl][i] \in Reply /\ replies[cl][i].id \in Calls
<1>1. requests[cl] \in Seq(Request) /\ replies[cl] \in Seq(Reply)
  BY DEF TypeOK, WireTypeOK
<1>2. \A i \in 1 .. Len(requests[cl]) : requests[cl][i] \in Request
  BY <1>1
<1>3. \A i \in 1 .. Len(replies[cl]) : replies[cl][i] \in Reply
  BY <1>1
<1> QED BY <1>2, <1>3 DEF Request, Reply

\* The invariant holds before anything is sent.
LEMMA InitInv == Init => IInv
<1> SUFFICES ASSUME Init
             PROVE  IInv
  OBVIOUS
<1> USE DEF Init, WireInit, ClientInit, ServerInit
<1>1. TypeInv
  BY InitType
<1>2. LockInv
  BY RpcAssumption, WireAssumption DEF LockInv, InLock
<1>3. ResultInv /\ Correlation /\ HandInv /\ HistoryInv
  BY DEF ResultInv, Correlation, HandInv, HistoryInv, Failures
<1>4. RequestInv /\ DistinctInv /\ ReplyInv
  BY DEF RequestInv, DistinctInv, ReplyInv
<1> QED BY <1>1, <1>2, <1>3, <1>4 DEF IInv

\* A call that ends keeps the invariant, as long as it ends with a local error
\* or with the outcome of its answer, and by its deadline only when that
\* passed or nothing was sent.
LEMMA FinishInv ==
  ASSUME IInv, TypeInv', NEW c \in Calls, pc[c] # "done",
         NEW res \in Results, Finish(c, res),
         UNCHANGED <<now, requests, serverVars>>,
         res = "timeout" => ~Sent(c) \/ Expired(deadline[c]),
         res \in {"ok"} \cup Failures =>
           answer[c] # NoReply /\ res = Outcome(answer[c])
  PROVE  /\ LockInv' /\ ResultInv' /\ RequestInv' /\ DistinctInv'
         /\ HandInv' /\ HistoryInv' /\ Correlation'
<1> USE RpcAssumption, WireAssumption
<1>t. TypeOK /\ TypeOK'
  BY DEF IInv, TypeInv
<1>s. \A d \in Calls : Sent(d) => Sent(d)'
  BY <1>t DEF Sent, Finish, TypeOK, ClientTypeOK
<1>1. LockInv'
  BY <1>t DEF IInv, LockInv, InLock, Finish, TypeOK, ClientTypeOK
<1>2. ResultInv'
  BY <1>t DEF IInv, ResultInv, Finish, TypeOK, ClientTypeOK, Results, Failures, LocalErrors
<1>3. RequestInv'
  <2> SUFFICES ASSUME NEW cl \in Clients, NEW i \in 1 .. Len(requests[cl])
               PROVE  Pending(cl, requests[cl][i])'
    BY DEF RequestInv
  <2> DEFINE m == requests[cl][i]
  <2>1. Pending(cl, m)
    BY DEF IInv, RequestInv
  <2>2. m.id \in Calls
    BY <1>t, QueuedType
  <2>3. result'[m.id] = "timeout" => Expired(m.deadline)
    BY <1>t, <2>1, <2>2 DEF Finish, Pending, TypeOK, ClientTypeOK
  <2> QED BY <1>s, <2>1, <2>2, <2>3 DEF Finish, Pending, serverVars, Expired
<1>4. DistinctInv'
  BY DEF IInv, DistinctInv
<1>5. HandInv'
  BY <1>s, <1>t DEF IInv, HandInv, Honest, InHand, TypeInv, TypeOK, ServerTypeOK,
                    serverVars, Request, Reply
<1>6. HistoryInv'
  BY <1>s DEF IInv, HistoryInv, Honest, serverVars
<1>7. Correlation'
  BY <1>t DEF IInv, Correlation, Finish, serverVars, TypeOK, ClientTypeOK
<1> QED BY <1>1, <1>2, <1>3, <1>4, <1>5, <1>6, <1>7

\* The same for the other steps of a call: the lock is taken, the request sent,
\* the loop entered.  Here only the pipes are left to each step.
LEMMA CallStepInv ==
  ASSUME IInv, TypeInv', NEW c \in Calls, NEW label \in {"ready"} \cup InLock,
         pc[c] \in {"idle", "ready"} \cup InLock, Goto(c, label),
         Sent(c) => label \in {"loop", "poll"},
         UNCHANGED <<now, requests, result, serverVars>>,
         \A d \in Calls : d # c => deadline'[d] = deadline[d],
         Sent(c) => deadline'[c] = deadline[c],
         \/ lock' = lock /\ (pc[c] \in InLock <=> label \in InLock)
         \/ /\ lock[ClientOf[c]] = NoCall
            /\ lock' = [lock EXCEPT ![ClientOf[c]] = c]
            /\ label \in InLock
  PROVE  /\ LockInv' /\ ResultInv' /\ RequestInv' /\ DistinctInv'
         /\ HandInv' /\ HistoryInv' /\ Correlation'
<1> USE RpcAssumption, WireAssumption
<1>t. TypeOK /\ TypeOK'
  BY DEF IInv, TypeInv
<1>s. \A d \in Calls : Sent(d) => Sent(d)'
  BY <1>t DEF Sent, Goto, TypeOK, ClientTypeOK
<1>1. LockInv'
  <2> SUFFICES ASSUME NEW d \in Calls
               PROVE  pc'[d] \in InLock <=> lock'[ClientOf[d]] = d
    BY DEF LockInv
  <2>1. pc[d] \in InLock <=> lock[ClientOf[d]] = d
    BY DEF IInv, LockInv
  <2> QED BY <1>t, <2>1 DEF Goto, TypeOK, ClientTypeOK, InLock
<1>2. ResultInv'
  BY <1>t DEF IInv, ResultInv, Goto, TypeOK, ClientTypeOK, InLock
<1>3. RequestInv'
  <2> SUFFICES ASSUME NEW cl \in Clients, NEW i \in 1 .. Len(requests[cl])
               PROVE  Pending(cl, requests[cl][i])'
    BY DEF RequestInv
  <2> DEFINE m == requests[cl][i]
  <2>1. Pending(cl, m)
    BY DEF IInv, RequestInv
  <2>2. m.id \in Calls
    BY <1>t, QueuedType
  <2> QED BY <1>s, <2>1, <2>2 DEF Pending, serverVars, Expired
<1>4. DistinctInv'
  BY DEF IInv, DistinctInv
<1>5. HandInv'
  BY <1>s, <1>t DEF IInv, HandInv, Honest, InHand, TypeInv, TypeOK, ServerTypeOK,
                    serverVars, Request, Reply
<1>6. HistoryInv'
  BY <1>s DEF IInv, HistoryInv, Honest, serverVars
<1>7. Correlation'
  BY DEF IInv, Correlation, serverVars
<1> QED BY <1>1, <1>2, <1>3, <1>4, <1>5, <1>6, <1>7

\* What a pipe loses does not matter.
LEMMA SmallerPipes ==
  ASSUME IInv, UNCHANGED <<now, pc, deadline, result, taken, answer>>,
         server' = "reply" => server = "reply" /\ response' = response,
         \A k \in Clients : /\ requests'[k] \in {<<>>, requests[k]}
                            /\ replies'[k] \in {<<>>, replies[k]}
  PROVE  RequestInv' /\ DistinctInv' /\ ReplyInv'
<1>1. \A k \in Clients : \A i \in 1 .. Len(requests'[k]) :
        i \in 1 .. Len(requests[k]) /\ requests'[k] = requests[k]
  OBVIOUS
<1>2. \A k \in Clients : \A i \in 1 .. Len(replies'[k]) :
        i \in 1 .. Len(replies[k]) /\ replies'[k] = replies[k]
  OBVIOUS
<1>3. RequestInv'
  BY <1>1 DEF IInv, RequestInv, Pending, Sent, Expired
<1>4. DistinctInv'
  BY <1>1 DEF IInv, DistinctInv
<1>5. ReplyInv'
  BY <1>2 DEF IInv, ReplyInv
<1> QED BY <1>3, <1>4, <1>5

\* The steps of the clients keep the invariant.
LEMMA ClientInv ==
  ASSUME IInv, ClientNext, UNCHANGED serverVars
  PROVE  IInv'
<1> USE RpcAssumption, WireAssumption
<1>t. TypeInv /\ TypeInv' /\ TypeOK /\ TypeOK'
  <2>1. TypeInv /\ TypeInv'
    BY ClientType DEF IInv
  <2> QED BY <2>1 DEF TypeInv
<1>f. LocalErrors \subseteq Results /\ LocalErrors \cap ({"ok"} \cup Failures) = {}
  BY DEF LocalErrors, Results, Failures
<1>r. ASSUME UNCHANGED replies
      PROVE  ReplyInv'
  BY <1>r DEF IInv, ReplyInv, serverVars
<1>1. ASSUME NEW c \in Calls, Begin(c)
      PROVE  IInv'
  <2>1. UNCHANGED <<now, requests, replies, result, lock>> /\ Goto(c, "ready") /\ pc[c] = "idle"
    BY <1>1 DEF Begin, wireVars
  <2>2. ~Sent(c) /\ "ready" \notin InLock /\ "idle" \notin InLock
    BY <2>1 DEF Sent, InLock
  <2>3. \A d \in Calls : d # c => deadline'[d] = deadline[d]
    BY <1>1, <1>t DEF Begin, TypeOK, ClientTypeOK
  <2> QED BY <1>t, <1>r, <2>1, <2>2, <2>3, CallStepInv DEF IInv
<1>2. ASSUME NEW c \in Calls, BeginFails(c)
      PROVE  IInv'
  <2>1. PICK res \in {"transport_error", "protocol_error"} : Finish(c, res)
    BY <1>2 DEF BeginFails
  <2>2. res \in LocalErrors /\ res # "timeout"
    BY <2>1 DEF LocalErrors
  <2>3. pc[c] # "done" /\ UNCHANGED <<now, requests, replies>>
    BY <1>2 DEF BeginFails, wireVars
  <2> QED BY <1>t, <1>f, <1>r, <2>1, <2>2, <2>3, FinishInv DEF IInv
<1>3. ASSUME NEW c \in Calls, Acquire(c)
      PROVE  IInv'
  <2>1. /\ UNCHANGED <<now, requests, replies, result, deadline>> /\ Goto(c, "locked")
        /\ pc[c] = "ready" /\ lock[ClientOf[c]] = NoCall
        /\ lock' = [lock EXCEPT ![ClientOf[c]] = c]
    BY <1>3 DEF Acquire, wireVars
  <2>2. ~Sent(c) /\ "locked" \in InLock
    BY <2>1 DEF Sent, InLock
  <2> QED BY <1>t, <1>r, <2>1, <2>2, CallStepInv DEF IInv
<1>5. ASSUME NEW c \in Calls, SendFails(c)
      PROVE  IInv'
  <2>1. PICK res \in {"transport_error", "timeout"} : Finish(c, res)
    BY <1>5 DEF SendFails
  <2>2. res \in LocalErrors
    BY <2>1 DEF LocalErrors
  <2>3. pc[c] # "done" /\ ~Sent(c) /\ UNCHANGED <<now, requests, replies>>
    BY <1>5 DEF SendFails, wireVars, Sent
  <2> QED BY <1>t, <1>f, <1>r, <2>1, <2>2, <2>3, FinishInv DEF IInv
<1>6. ASSUME NEW c \in Calls, LoopHead(c)
      PROVE  IInv'
  <2>1. UNCHANGED <<now, requests, replies>> /\ pc[c] = "loop"
    BY <1>6 DEF LoopHead, wireVars
  <2>2. CASE Expired(deadline[c])
    <3>1. Finish(c, "timeout") /\ "timeout" \in LocalErrors
      BY <1>6, <2>2 DEF LoopHead, LocalErrors
    <3> QED BY <1>t, <1>f, <1>r, <2>1, <2>2, <3>1, FinishInv DEF IInv
  <2>3. CASE ~Expired(deadline[c])
    <3>1. Goto(c, "poll") /\ UNCHANGED <<deadline, result, lock>>
      BY <1>6, <2>3 DEF LoopHead
    <3>2. "poll" \in InLock /\ "loop" \in InLock
      BY DEF InLock
    <3> QED BY <1>t, <1>r, <2>1, <3>1, <3>2, CallStepInv DEF IInv
  <2> QED BY <2>2, <2>3
<1>7. ASSUME NEW c \in Calls, Receive(c)
      PROVE  IInv'
  <2> DEFINE cl == ClientOf[c]
             q == replies[cl]
             m == Head(q)
  <2>1. /\ UNCHANGED <<now, requests>> /\ pc[c] = "poll" /\ q # <<>>
        /\ replies' = [replies EXCEPT ![cl] = Tail(q)]
    BY <1>7 DEF Receive
  <2>2. cl \in Clients /\ q \in Seq(Reply)
    BY <1>t DEF TypeOK, WireTypeOK
  <2>3. /\ m \in Reply /\ m = q[1] /\ Len(q) > 0 /\ Len(Tail(q)) = Len(q) - 1
        /\ \A i \in 1 .. Len(Tail(q)) : Tail(q)[i] = q[i + 1]
    BY <2>1, <2>2, HeadTailType
  <2>4. ReplyInv'
    <3> SUFFICES ASSUME NEW k \in Clients, NEW i \in 1 .. Len(replies'[k])
                 PROVE  \E j \in 1 .. Len(replies[k]) : replies'[k][i] = replies[k][j]
      BY DEF IInv, ReplyInv, serverVars
    <3>1. CASE k = cl
      <4>1. replies'[k] = Tail(q)
        BY <1>t, <2>1, <2>2, <3>1 DEF TypeOK, WireTypeOK
      <4>2. i + 1 \in 1 .. Len(q) /\ replies'[k][i] = q[i + 1]
        BY <2>2, <2>3, <4>1
      <4> QED BY <3>1, <4>2
    <3>2. CASE k # cl
      BY <1>t, <2>1, <2>2, <3>2 DEF TypeOK, WireTypeOK
    <3> QED BY <3>1, <3>2
  <2>5. answer[m.id] = m
    BY <2>2, <2>3 DEF IInv, ReplyInv
  <2>6. CASE IsResponseTo(c, m)
    <3>1. Finish(c, Outcome(m)) /\ m.id = c
      BY <1>7, <2>6 DEF Receive, IsResponseTo
    <3>2. Outcome(m) \in Results /\ Outcome(m) # "timeout"
      BY <2>3, OutcomeType DEF Outcome, Reply, Failures
    <3>3. answer[c] # NoReply
      BY <2>3, <2>5, <3>1, NoReplyIsNoReply
    <3> QED BY <1>t, <2>1, <2>4, <2>5, <3>1, <3>2, <3>3, FinishInv DEF IInv
  <2>7. CASE ~IsResponseTo(c, m)
    <3>1. Goto(c, "loop") /\ UNCHANGED <<deadline, result, lock>>
      BY <1>7, <2>7 DEF Receive
    <3>2. "poll" \in InLock /\ "loop" \in InLock
      BY DEF InLock
    <3> QED BY <1>t, <2>1, <2>4, <3>1, <3>2, CallStepInv DEF IInv
  <2> QED BY <2>6, <2>7
<1>8. ASSUME NEW c \in Calls, PollExpires(c)
      PROVE  IInv'
  <2>1. /\ UNCHANGED <<now, requests, replies>> /\ pc[c] # "done"
        /\ Finish(c, "timeout") /\ Expired(deadline[c])
    BY <1>8 DEF PollExpires, wireVars
  <2>2. "timeout" \in LocalErrors
    BY DEF LocalErrors
  <2> QED BY <1>t, <1>f, <1>r, <2>1, <2>2, FinishInv DEF IInv
<1>9. ASSUME NEW c \in Calls, PollFails(c)
      PROVE  IInv'
  <2>1. /\ UNCHANGED <<now, requests, replies>> /\ pc[c] # "done"
        /\ Finish(c, "transport_error")
    BY <1>9 DEF PollFails, wireVars
  <2>2. "transport_error" \in LocalErrors
    BY DEF LocalErrors
  <2> QED BY <1>t, <1>f, <1>r, <2>1, <2>2, FinishInv DEF IInv
<1>4. ASSUME NEW c \in Calls, Send(c)
      PROVE  IInv'
  <2> DEFINE cl == ClientOf[c]
             q == requests[cl]
             m == [id |-> c, deadline |-> deadline[c], shape |-> shape[c]]
  <2>1. /\ pc[c] = "locked" /\ Goto(c, "loop")
        /\ requests' = [requests EXCEPT ![cl] = Append(q, m)]
        /\ UNCHANGED <<now, deadline, result, lock, replies>>
    BY <1>4 DEF Send
  <2>2. cl \in Clients /\ q \in Seq(Request) /\ m \in Request
    BY <1>t DEF TypeOK, WireTypeOK, ClientTypeOK, Request
  <2>3. /\ Len(Append(q, m)) = Len(q) + 1 /\ Len(q) \in Nat
        /\ \A i \in 1 .. Len(q) : Append(q, m)[i] = q[i]
        /\ Append(q, m)[Len(q) + 1] = m
    BY <2>2, AppendFacts
  <2>4. /\ requests'[cl] = Append(q, m)
        /\ \A k \in Clients : k # cl => requests'[k] = requests[k]
    BY <1>t, <2>1, <2>2 DEF TypeOK, WireTypeOK
  <2>5. \A d \in Calls : /\ Sent(d) => Sent(d)'
                         /\ pc'[d] = IF d = c THEN "loop" ELSE pc[d]
    BY <1>t, <2>1 DEF Sent, Goto, TypeOK, ClientTypeOK
  <2>6. ~Sent(c) /\ result[c] = "none" /\ answer[c] = NoReply
        /\ (server = "reply" => response.id # c)
        /\ (server \in {"dispatch", "handler"} => current.id # c)
    BY <1>t, <2>1 DEF IInv, ResultInv, HistoryInv, HandInv, Sent, TypeOK, ServerTypeOK
  <2>7. LockInv' /\ ResultInv'
    BY <2>1, <2>5 DEF IInv, LockInv, ResultInv, InLock
  <2>8. Correlation' /\ ReplyInv'
    BY <1>r, <2>1 DEF IInv, Correlation, serverVars
  <2>9. HandInv' /\ HistoryInv'
    <3>1. HandInv'
      BY <1>t, <2>5 DEF IInv, HandInv, Honest, InHand, TypeInv, serverVars, Request, Reply
    <3>2. HistoryInv'
      BY <2>5 DEF IInv, HistoryInv, Honest, serverVars
    <3> QED BY <3>1, <3>2
  <2>10. \A k \in Clients : \A i \in 1 .. Len(requests[k]) :
           Pending(k, requests[k][i])' /\ requests[k][i].id # c
    <3> SUFFICES ASSUME NEW k \in Clients, NEW i \in 1 .. Len(requests[k])
                 PROVE  Pending(k, requests[k][i])' /\ requests[k][i].id # c
      OBVIOUS
    <3>1. Pending(k, requests[k][i]) /\ requests[k][i].id \in Calls
      BY <1>t, QueuedType DEF IInv, RequestInv
    <3>2. requests[k][i].id # c
      BY <2>6, <3>1 DEF Pending
    <3> HIDE DEF m
    <3>3. Pending(k, requests[k][i])'
      BY <2>1, <2>5, <3>1 DEF Pending, serverVars, Expired
    <3> QED BY <3>2, <3>3
  <2>11. c \notin taken
    BY <2>6 DEF IInv, HistoryInv
  <2>12. RequestInv'
    <3> SUFFICES ASSUME NEW k \in Clients, NEW i \in 1 .. Len(requests'[k])
                 PROVE  Pending(k, requests[k][i])'
      BY DEF RequestInv
    <3>1. CASE k # cl \/ i \in 1 .. Len(q)
      <4>1. i \in 1 .. Len(requests[k])
        BY <2>4, <3>1
      <4> QED BY <2>10, <4>1
    <3>2. CASE k = cl /\ i = Len(q) + 1
      <4>1. requests'[k][i] = m
        BY <2>3, <2>4, <3>2
      <4>2. m.id = c /\ m.deadline = deadline[c]
        OBVIOUS
      <4> HIDE DEF m
      <4>3. Sent(c)'
        BY <2>5 DEF Sent
      <4> QED BY <2>1, <2>6, <2>11, <3>2, <4>1, <4>2, <4>3 DEF Pending, Sent, serverVars
    <3> QED BY <2>3, <2>4, <3>1, <3>2
  <2>13. DistinctInv'
    <3> SUFFICES ASSUME NEW k \in Clients, NEW i \in 1 .. Len(requests'[k]),
                        NEW j \in 1 .. Len(requests'[k]),
                        requests'[k][i].id = requests'[k][j].id
                 PROVE  i = j
      BY DEF DistinctInv
    <3>1. CASE k # cl
      BY <2>4, <3>1 DEF IInv, DistinctInv
    <3>2. CASE k = cl
      <4>1. Append(q, m)[Len(q) + 1].id = c
        BY <2>3
      <4>2. \A n \in 1 .. Len(q) : Append(q, m)[n].id # c
        BY <2>2, <2>3, <2>10
      <4>3. \A n1, n2 \in 1 .. Len(q) :
              Append(q, m)[n1].id = Append(q, m)[n2].id => n1 = n2
        BY <2>2, <2>3 DEF IInv, DistinctInv
      <4>4. /\ i \in 1 .. Len(q) + 1 /\ j \in 1 .. Len(q) + 1
            /\ Append(q, m)[i].id = Append(q, m)[j].id
        BY <2>3, <2>4, <3>2
      <4> HIDE DEF m, q
      <4>5. Len(q) \in Nat
        BY <2>3
      <4> QED BY <4>1, <4>2, <4>3, <4>4, <4>5
    <3> QED BY <3>1, <3>2
  <2> QED BY <1>t, <2>7, <2>8, <2>9, <2>12, <2>13 DEF IInv
<1>10. ASSUME NEW cl \in Clients, CloseSocket(cl) \/ CloseFlag(cl)
       PROVE  IInv'
  <2>1. UNCHANGED <<now, pc, deadline, result, lock>>
    BY <1>10 DEF CloseSocket, CloseFlag, wireVars
  <2>2. \A k \in Clients : requests'[k] \in {<<>>, requests[k]} /\ replies'[k] \in {<<>>, replies[k]}
    BY <1>10, <1>t DEF CloseSocket, CloseFlag, wireVars, TypeOK, WireTypeOK
  <2>3. RequestInv' /\ DistinctInv' /\ ReplyInv'
    BY <2>1, <2>2, SmallerPipes DEF serverVars
  <2>4. LockInv' /\ ResultInv' /\ HandInv' /\ HistoryInv' /\ Correlation'
    BY <2>1 DEF IInv, LockInv, ResultInv, HandInv, HistoryInv, Correlation, Sent, Honest,
                serverVars
  <2> QED BY <1>t, <2>3, <2>4 DEF IInv
<1> QED BY <1>1, <1>2, <1>3, <1>4, <1>5, <1>6, <1>7, <1>8, <1>9, <1>10
        DEF ClientNext, CallStep

\* A step of the server that starts, ends and sends nothing, whatever the pipes
\* lose in it.
LEMMA QuietServerInv ==
  ASSUME IInv, TypeInv', UNCHANGED clientVars, UNCHANGED <<now, taken, runs, answer>>,
         \/ server' \notin {"dispatch", "handler", "reply"}
         \/ server' = server /\ current' = current /\ response' = response,
         \A k \in Clients : /\ requests'[k] \in {<<>>, requests[k]}
                            /\ replies'[k] \in {<<>>, replies[k]}
  PROVE  IInv'
<1>1. RequestInv' /\ DistinctInv' /\ ReplyInv'
  BY SmallerPipes DEF clientVars
<1>2. LockInv' /\ ResultInv' /\ Correlation'
  BY DEF IInv, LockInv, ResultInv, Correlation, clientVars
<1>3. HandInv'
  BY DEF IInv, HandInv, Sent, Honest, clientVars
<1>4. HistoryInv'
  BY DEF IInv, HistoryInv, Sent, Honest, clientVars
<1> QED BY <1>1, <1>2, <1>3, <1>4 DEF IInv

\* Taking a request: it is in no pipe afterwards.
LEMMA TakeInv ==
  ASSUME IInv, TypeInv', NEW cl \in Clients, Take(cl), UNCHANGED clientVars
  PROVE  IInv'
<1> DEFINE q == requests[cl]
           m == Head(q)
<1>t. TypeOK /\ TypeOK'
  BY DEF IInv, TypeInv
<1>1. /\ UNCHANGED <<now, replies, runs, answer>>
      /\ q # <<>> /\ server = "poll"
      /\ requests' = [requests EXCEPT ![cl] = Tail(q)]
  BY DEF Take
<1>2. q \in Seq(Request)
  BY <1>t DEF TypeOK, WireTypeOK
<1>3. /\ m \in Request /\ m = q[1] /\ Len(q) > 0 /\ Len(Tail(q)) = Len(q) - 1
      /\ \A i \in 1 .. Len(Tail(q)) : Tail(q)[i] = q[i + 1]
  BY <1>1, <1>2, HeadTailType
<1>4. /\ requests'[cl] = Tail(q)
      /\ \A k \in Clients : k # cl => requests'[k] = requests[k]
  BY <1>t, <1>1 DEF TypeOK, WireTypeOK
<1>5. Pending(cl, m) /\ m.id \in Calls
  BY <1>2, <1>3 DEF IInv, RequestInv, Request
<1>6. runs[m.id] = 0
  BY <1>5 DEF IInv, HistoryInv, Pending
<1>7. Rejection(m) # NoReply =>
        /\ Rejection(m).id = m.id
        /\ Rejection(m).status # "ok"
  BY DEF Rejection, Failure
<1>a. \/ server' = "loop" /\ UNCHANGED <<current, response, taken>>
      \/ /\ server' = "reply" /\ response'.id = m.id /\ response'.status # "ok"
         /\ UNCHANGED <<current, taken>>
      \/ /\ server' = "dispatch" /\ current' = m /\ taken' = taken \cup {m.id}
         /\ UNCHANGED response
  BY <1>7 DEF Take
<1>8. \A k \in Clients : \A i \in 1 .. Len(requests'[k]) :
        \E j \in 1 .. Len(requests[k]) :
           /\ requests'[k][i] = requests[k][j]
           /\ k = cl => j = i + 1
           /\ k # cl => j = i
  <2> SUFFICES ASSUME NEW k \in Clients, NEW i \in 1 .. Len(requests'[k])
               PROVE  \E j \in 1 .. Len(requests[k]) :
                         /\ requests'[k][i] = requests[k][j]
                         /\ k = cl => j = i + 1
                         /\ k # cl => j = i
    OBVIOUS
  <2>1. CASE k = cl
    <3>0. Len(q) \in Nat
      BY <1>2
    <3>1. i \in 1 .. Len(Tail(q)) /\ requests'[k][i] = Tail(q)[i]
      <4> HIDE DEF q
      <4> QED BY <1>4, <2>1
    <3>2. i + 1 \in 1 .. Len(q)
      BY <1>3, <3>0, <3>1
    <3>3. requests'[k][i] = q[i + 1]
      BY <1>3, <3>1
    <3> QED BY <2>1, <3>2, <3>3
  <2>2. CASE k # cl
    BY <1>4, <2>2
  <2> QED BY <2>1, <2>2
<1>9. \A k \in Clients : \A i \in 1 .. Len(requests'[k]) :
        requests'[k][i].id # m.id
  <2> SUFFICES ASSUME NEW k \in Clients, NEW i \in 1 .. Len(requests'[k])
               PROVE  requests'[k][i].id # m.id
    OBVIOUS
  <2>1. PICK j \in 1 .. Len(requests[k]) : /\ requests'[k][i] = requests[k][j]
                                           /\ k = cl => j = i + 1
    BY <1>8
  <2>2. CASE k = cl
    BY <1>2, <1>3, <2>1, <2>2 DEF IInv, DistinctInv
  <2>3. CASE k # cl
    BY <1>5, <2>1, <2>3 DEF IInv, RequestInv, Pending
  <2> QED BY <2>2, <2>3
<1> HIDE DEF m, q
<1>10. RequestInv'
  <2> SUFFICES ASSUME NEW k \in Clients, NEW i \in 1 .. Len(requests'[k])
               PROVE  Pending(k, requests[k][i])'
    BY DEF RequestInv
  <2>1. PICK j \in 1 .. Len(requests[k]) : requests'[k][i] = requests[k][j]
    BY <1>8
  <2>2. Pending(k, requests[k][j])
    BY DEF IInv, RequestInv
  <2>3. requests'[k][i].id # m.id
    BY <1>9
  <2> QED BY <1>1, <1>a, <2>1, <2>2, <2>3 DEF Pending, Sent, Expired, clientVars
<1>11. DistinctInv'
  <2> SUFFICES ASSUME NEW k \in Clients, NEW i1 \in 1 .. Len(requests'[k]),
                      NEW i2 \in 1 .. Len(requests'[k]),
                      requests'[k][i1].id = requests'[k][i2].id
               PROVE  i1 = i2
    BY DEF DistinctInv
  <2>1. PICK j1 \in 1 .. Len(requests[k]) : /\ requests'[k][i1] = requests[k][j1]
                                            /\ k = cl => j1 = i1 + 1
                                            /\ k # cl => j1 = i1
    BY <1>8
  <2>2. PICK j2 \in 1 .. Len(requests[k]) : /\ requests'[k][i2] = requests[k][j2]
                                            /\ k = cl => j2 = i2 + 1
                                            /\ k # cl => j2 = i2
    BY <1>8
  <2>3. j1 = j2
    BY <2>1, <2>2 DEF IInv, DistinctInv
  <2> QED BY <2>1, <2>2, <2>3
<1>12. HandInv'
  BY <1>1, <1>5, <1>6, <1>a DEF HandInv, Pending, Sent, Honest, clientVars
<1>13. HistoryInv'
  BY <1>1, <1>5, <1>a DEF IInv, HistoryInv, Pending, Sent, Honest, clientVars
<1>14. LockInv' /\ ResultInv' /\ Correlation' /\ ReplyInv'
  BY <1>1 DEF IInv, LockInv, ResultInv, Correlation, ReplyInv, clientVars
<1> QED BY <1>10, <1>11, <1>12, <1>13, <1>14 DEF IInv

\* Looking up and starting a handler keeps the invariant.
LEMMA DispatchInv ==
  ASSUME IInv, TypeInv', Dispatch, UNCHANGED clientVars
  PROVE  IInv'
<1>t. TypeOK /\ TypeOK' /\ current \in Request /\ current.id \in Calls
  BY DEF IInv, TypeInv, InHand, Dispatch, Request
<1>1. UNCHANGED <<wireVars, taken, answer>> /\ server = "dispatch"
  BY DEF Dispatch
<1>2. /\ Sent(current.id) /\ current.id \in taken
      /\ answer[current.id] = NoReply /\ runs[current.id] = 0
  BY <1>1 DEF IInv, HandInv
<1>3. \A k \in Clients : \A i \in 1 .. Len(requests[k]) :
        requests[k][i].id # current.id
  BY <1>2 DEF IInv, RequestInv, Pending
<1>4. LockInv' /\ ResultInv' /\ Correlation' /\ ReplyInv' /\ DistinctInv'
  BY <1>1 DEF IInv, LockInv, ResultInv, Correlation, ReplyInv, DistinctInv, clientVars,
              wireVars
<1>5. CASE current.shape = "undecodable"
  <2>1. /\ server' = "reply" /\ runs' = runs
        /\ response'.id = current.id /\ response'.status = "invalid_argument"
    BY <1>5 DEF Dispatch, Failure
  <2>2. RequestInv'
    BY <1>1, <1>3, <2>1 DEF IInv, RequestInv, Pending, Sent, Expired, clientVars, wireVars
  <2>3. HandInv'
    BY <1>1, <1>2, <2>1 DEF HandInv, Sent, Honest, clientVars
  <2>4. HistoryInv'
    BY <1>1, <2>1 DEF IInv, HistoryInv, Sent, Honest, clientVars
  <2> QED BY <1>4, <2>2, <2>3, <2>4 DEF IInv
<1>6. CASE current.shape # "undecodable"
  <2>1. /\ server' = "handler" /\ current' = current
        /\ runs' = [runs EXCEPT ![current.id] = @ + 1]
    BY <1>6 DEF Dispatch
  <2>2. \A c \in Calls : runs'[c] = IF c = current.id THEN 1 ELSE runs[c]
    BY <1>t, <1>2, <2>1 DEF TypeOK, ServerTypeOK
  <2>3. RequestInv'
    BY <1>1, <2>1 DEF IInv, RequestInv, Pending, Sent, Expired, clientVars, wireVars
  <2>4. HandInv'
    BY <1>t, <1>1, <1>2, <2>1, <2>2 DEF HandInv, Sent, clientVars
  <2>5. HistoryInv'
    BY <1>1, <1>2, <2>2 DEF IInv, HistoryInv, Sent, Honest, clientVars
  <2> QED BY <1>4, <2>3, <2>4, <2>5 DEF IInv
<1> QED BY <1>5, <1>6

\* The end of a handler keeps the invariant.
LEMMA HandlerEndInv ==
  ASSUME IInv, TypeInv', NEW e \in HandlerEnds, HandlerEnd(e), UNCHANGED clientVars
  PROVE  IInv'
<1>t. TypeOK /\ TypeOK' /\ current \in Request /\ current.id \in Calls
  BY DEF IInv, TypeInv, InHand, HandlerEnd, Request
<1>1. UNCHANGED <<wireVars, taken, runs, answer>> /\ server = "handler" /\ server' = "reply"
  BY DEF HandlerEnd
<1>2. /\ Sent(current.id) /\ current.id \in taken
      /\ answer[current.id] = NoReply /\ runs[current.id] = 1
  BY <1>1 DEF IInv, HandInv
<1>3. \A k \in Clients : \A i \in 1 .. Len(requests[k]) :
        requests[k][i].id # current.id
  BY <1>2 DEF IInv, RequestInv, Pending
<1>4. LockInv' /\ ResultInv' /\ Correlation' /\ ReplyInv' /\ DistinctInv' /\ HistoryInv'
  BY <1>1 DEF IInv, LockInv, ResultInv, Correlation, ReplyInv, DistinctInv, HistoryInv,
              Sent, Honest, clientVars, wireVars
<1>5. response'.id = current.id /\ response'.status \notin Refusals
  <2>1. e \in {"fit", "unfit", "oversize", "abort", "exception"}
    BY ServerAssumption DEF AllHandlerEnds, HandlerEnd, Encodable
  <2>2. response' = Report(current, e)
    BY DEF HandlerEnd
  <2>3. CASE e \in Bodies
    BY <2>2, <2>3 DEF Report, Refusals
  <2>4. CASE e \notin Bodies
    BY <2>1, <2>2, <2>4 DEF Report, Failure, HandlerFailure, Bodies, Refusals
  <2> QED BY <2>3, <2>4
<1>6. RequestInv'
  BY <1>1, <1>3, <1>5 DEF IInv, RequestInv, Pending, Sent, Expired, clientVars, wireVars
<1>7. HandInv'
  BY <1>1, <1>2, <1>5 DEF HandInv, Sent, Honest, clientVars
<1> QED BY <1>4, <1>6, <1>7 DEF IInv

\* Sending a reply keeps the invariant.
LEMMA SendReplyInv ==
  ASSUME IInv, TypeInv', SendReply, UNCHANGED clientVars
  PROVE  IInv'
<1> DEFINE id == response.id
           cl == ClientOf[id]
<1>t. TypeOK /\ TypeOK' /\ response \in Reply /\ id \in Calls /\ cl \in Clients
  BY RpcAssumption, WireAssumption DEF IInv, TypeInv, InHand, SendReply, Reply
<1>1. CASE ~ServerSocketOpen
  <2>1. server' = "raised" /\ UNCHANGED <<wireVars, taken, runs, answer>>
    BY <1>1 DEF SendReply, wireVars
  <2> QED BY <2>1, QuietServerInv DEF wireVars
<1>2. CASE ServerSocketOpen
  <2>1. /\ server = "reply" /\ server' = "loop"
        /\ UNCHANGED <<now, requests, taken, runs>>
        /\ answer' = [answer EXCEPT ![id] = response]
        /\ \/ replies' = replies
           \/ replies' = [replies EXCEPT ![cl] = Append(@, response)]
    BY <1>2 DEF SendReply
  <2>2. Sent(id) /\ answer[id] = NoReply /\ Honest(response)
    BY <2>1 DEF IInv, HandInv
  <2>3. \A c \in Calls : answer'[c] = IF c = id THEN response ELSE answer[c]
    BY <1>t, <2>1 DEF TypeOK, ServerTypeOK
  <2>4. LockInv' /\ ResultInv' /\ DistinctInv' /\ HandInv'
    BY <2>1 DEF IInv, LockInv, ResultInv, DistinctInv, HandInv, clientVars
  <2>5. RequestInv'
    <3> SUFFICES ASSUME NEW k \in Clients, NEW i \in 1 .. Len(requests[k])
                 PROVE  Pending(k, requests[k][i])'
      BY <2>1 DEF RequestInv
    <3>1. Pending(k, requests[k][i]) /\ requests[k][i].id \in Calls
      BY <1>t, QueuedType DEF IInv, RequestInv
    <3> QED BY <2>1, <2>3, <3>1 DEF Pending, Sent, Expired, clientVars
  <2>6. HistoryInv'
    BY <2>1, <2>2, <2>3 DEF IInv, HistoryInv, Sent, Honest, clientVars
  <2>7. Correlation'
    BY <2>2, <2>3 DEF IInv, Correlation, clientVars
  <2>8. ReplyInv'
    <3> SUFFICES ASSUME NEW k \in Clients, NEW i \in 1 .. Len(replies'[k])
                 PROVE  LET m == replies'[k][i] IN ClientOf[m.id] = k /\ answer'[m.id] = m
      BY DEF ReplyInv
    <3>1. ASSUME i \in 1 .. Len(replies[k]), replies'[k][i] = replies[k][i]
          PROVE  LET m == replies'[k][i] IN ClientOf[m.id] = k /\ answer'[m.id] = m
      <4>1. replies[k][i] \in Reply /\ replies[k][i].id \in Calls
        BY <1>t, <3>1, QueuedType
      <4>2. LET m == replies[k][i] IN ClientOf[m.id] = k /\ answer[m.id] = m
        BY <3>1 DEF IInv, ReplyInv
      <4>3. replies[k][i].id # id
        BY <2>2, <4>1, <4>2, NoReplyIsNoReply
      <4> QED BY <2>3, <3>1, <4>1, <4>2, <4>3
    <3>2. CASE replies'[k] = replies[k]
      BY <3>1, <3>2
    <3>3. CASE k = cl /\ replies' = [replies EXCEPT ![cl] = Append(@, response)]
      <4>1. replies[cl] \in Seq(Reply) /\ replies'[cl] = Append(replies[cl], response)
        BY <1>t, <3>3 DEF TypeOK, WireTypeOK
      <4>2. /\ Len(replies'[cl]) = Len(replies[cl]) + 1 /\ Len(replies[cl]) \in Nat
            /\ \A n \in 1 .. Len(replies[cl]) : replies'[cl][n] = replies[cl][n]
            /\ replies'[cl][Len(replies[cl]) + 1] = response
        BY <1>t, <4>1, AppendFacts
      <4>3. CASE i \in 1 .. Len(replies[cl])
        BY <3>1, <3>3, <4>2, <4>3
      <4>4. CASE i = Len(replies[cl]) + 1
        BY <1>t, <2>3, <3>3, <4>2, <4>4
      <4> QED BY <3>3, <4>2, <4>3, <4>4
    <3>4. k # cl => replies'[k] = replies[k]
      BY <1>t, <2>1 DEF TypeOK, WireTypeOK
    <3> QED BY <2>1, <3>2, <3>3, <3>4
  <2> QED BY <2>4, <2>5, <2>6, <2>7, <2>8 DEF IInv
<1> QED BY <1>1, <1>2

\* The steps of the server keep the invariant.
LEMMA ServerInv ==
  ASSUME IInv, ServerNext, UNCHANGED clientVars
  PROVE  IInv'
<1>t. TypeInv' /\ TypeOK
  BY ServerType DEF IInv, TypeInv
<1>1. ASSUME ServeForever \/ ClearStopping \/ LoopTest \/ EnterServeOnce \/ PollIdle
             \/ PollError \/ Stop \/ CloseSetsStopping \/ CloseServerFlag
             \/ HandlerBadAbort
      PROVE  IInv'
  <2>1. /\ UNCHANGED <<wireVars, taken, runs, answer>>
        /\ \/ server' \notin {"dispatch", "handler", "reply"}
           \/ server' = server /\ current' = current /\ response' = response
    BY <1>1 DEF ServeForever, ClearStopping, LoopTest, EnterServeOnce, PollIdle, PollError,
       Stop, CloseSetsStopping, CloseServerFlag, HandlerBadAbort
  <2> QED BY <1>t, <2>1, QuietServerInv DEF wireVars
<1>2. ASSUME CloseServerSocket
      PROVE  IInv'
  <2>1. \A k \in Clients : replies'[k] \in {<<>>, replies[k]}
    BY <1>2 DEF CloseServerSocket
  <2> QED BY <1>2, <1>t, <2>1, QuietServerInv DEF CloseServerSocket
<1>3. ASSUME Restart
      PROVE  IInv'
  <2>1. \A k \in Clients : requests'[k] \in {<<>>, requests[k]}
    BY <1>3 DEF Restart
  <2>2. /\ server' \notin {"dispatch", "handler", "reply"}
        /\ UNCHANGED <<now, replies, taken, runs, answer>>
    BY <1>3 DEF Restart
  <2> QED BY <1>t, <2>1, <2>2, QuietServerInv
<1> QED BY <1>1, <1>2, <1>3, <1>t, TakeInv, DispatchInv, HandlerEndInv, SendReplyInv
        DEF ServerNext, ServerStep

\* The clock and lost messages keep the invariant.
LEMMA EnvironmentInv ==
  ASSUME IInv, Environment, UNCHANGED <<clientVars, serverVars>>
  PROVE  IInv'
<1>t. TypeInv' /\ TypeOK
  BY EnvironmentType DEF IInv, TypeInv
<1>1. CASE Tick
  <2>1. UNCHANGED <<requests, replies>> /\ now' = now + 1 /\ now \in Nat
    BY <1>1, <1>t, RpcAssumption, WireAssumption DEF Tick, TypeOK, WireTypeOK
  <2>2. RequestInv'
    <3> SUFFICES ASSUME NEW k \in Clients, NEW i \in 1 .. Len(requests[k])
                 PROVE  Pending(k, requests[k][i])'
      BY <2>1 DEF RequestInv
    <3>1. Pending(k, requests[k][i]) /\ requests[k][i].deadline \in Int
      BY <1>t, QueuedType, RpcAssumption, WireAssumption DEF IInv, RequestInv, Request
    <3> QED BY <2>1, <3>1 DEF Pending, Sent, Expired, clientVars, serverVars
  <2> QED BY <1>t, <2>1, <2>2 DEF IInv, LockInv, ResultInv, DistinctInv, HandInv, HistoryInv,
          ReplyInv, Correlation, Sent, Honest, clientVars, serverVars
<1>2. ASSUME NEW cl \in Clients, LoseConnection(cl)
      PROVE  IInv'
  <2>1. \A k \in Clients : /\ requests'[k] \in {<<>>, requests[k]}
                           /\ replies'[k] \in {<<>>, replies[k]}
    BY <1>2, <1>t DEF LoseConnection, TypeOK, WireTypeOK
  <2>2. now' = now
    BY <1>2 DEF LoseConnection
  <2> QED BY <1>t, <2>1, <2>2, QuietServerInv DEF serverVars
<1> QED BY <1>1, <1>2 DEF Environment

\* Each step keeps the invariant.
LEMMA NextInv == IInv /\ [Next]_vars => IInv'
<1> SUFFICES ASSUME IInv, [Next]_vars
             PROVE  IInv'
  OBVIOUS
<1>1. CASE UNCHANGED vars
  <2>1. TypeInv'
    BY <1>1, NextType DEF IInv
  <2> QED BY <1>1, <2>1, QuietServerInv DEF vars, wireVars, clientVars, serverVars
<1> QED BY <1>1, ClientInv, ServerInv, EnvironmentInv DEF Next

-----------------------------------------------------------------------------
\* What the invariant is for.

\* What the runs check follows from the invariant.
LEMMA IInvImplies == IInv => Correlation /\ OnlyLateDiscarded /\ AtMostOnce /\ HonestOutcome
<1> SUFFICES ASSUME IInv
             PROVE  Correlation /\ OnlyLateDiscarded /\ AtMostOnce /\ HonestOutcome
  OBVIOUS
<1>t. TypeOK
  BY DEF IInv, TypeInv
<1>1. Correlation /\ AtMostOnce
  BY DEF IInv, HistoryInv, AtMostOnce
<1>2. OnlyLateDiscarded
  <2> SUFFICES ASSUME NEW cl \in Clients, NEW i \in 1 .. Len(replies[cl])
               PROVE  LET id == replies[cl][i].id IN lock[cl] = id \/ pc[id] = "done"
    BY DEF OnlyLateDiscarded
  <2> DEFINE m == replies[cl][i]
  <2>1. m \in Reply /\ m.id \in Calls
    BY <1>t, QueuedType
  <2>2. ClientOf[m.id] = cl /\ answer[m.id] # NoReply
    BY <2>1, NoReplyIsNoReply DEF IInv, ReplyInv
  <2>3. Sent(m.id)
    BY <2>1, <2>2 DEF IInv, HistoryInv
  <2> QED BY <2>1, <2>2, <2>3 DEF IInv, LockInv, Sent, InLock
<1>3. HonestOutcome
  <2> SUFFICES ASSUME NEW c \in Calls
               PROVE  /\ result[c] = "ok" => runs[c] = 1
                      /\ result[c] \in Refusals => runs[c] = 0
    BY DEF HonestOutcome
  <2>1. result[c] \in {"ok"} \cup Refusals =>
          answer[c] # NoReply /\ result[c] = Outcome(answer[c])
    BY DEF IInv, Correlation, Refusals, Failures
  <2>2. answer[c] # NoReply => answer[c].id = c /\ Honest(answer[c])
    BY DEF IInv, HistoryInv
  <2> QED BY <2>1, <2>2 DEF Outcome, Honest, Refusals
<1> QED BY <1>1, <1>2, <1>3

\* A caller is only ever told the outcome of the server's answer to its own
\* call, however many late replies the socket still holds.
THEOREM CorrelationHolds == Spec => []Correlation
<1> QED BY InitInv, NextInv, IInvImplies, PTL DEF Spec

\* call() never discards a reply that a caller still waits for.
THEOREM DiscardsOnlyLate == Spec => []OnlyLateDiscarded
<1> QED BY InitInv, NextInv, IInvImplies, PTL DEF Spec

\* A handler starts at most once per call, through losses and restarts.
THEOREM RunsAtMostOnce == Spec => []AtMostOnce
<1> QED BY InitInv, NextInv, IInvImplies, PTL DEF Spec

\* "ok" means the handler ran, a refusal that it did not.
THEOREM OutcomesHonest == Spec => []HonestOutcome
<1> QED BY InitInv, NextInv, IInvImplies, PTL DEF Spec

\* Only serve_once accepts requests, and those it accepts are in time.
LEMMA AcceptedInTime ==
  ASSUME IInv, [Next]_vars, NEW c \in taken' \ taken
  PROVE  /\ result[c] # "timeout" /\ Sent(c) /\ answer[c] = NoReply
         /\ \E cl \in Clients : Take(cl) /\ c = Head(requests[cl]).id
<1>t. TypeOK
  BY DEF IInv, TypeInv
<1>1. PICK cl \in Clients : Take(cl)
  BY DEF Next, vars, serverVars, ServerNext, ServerStep, ServeForever, ClearStopping,
     LoopTest, EnterServeOnce, PollIdle, PollError, Dispatch, HandlerEnd, HandlerBadAbort,
     SendReply, Stop, CloseSetsStopping, CloseServerSocket, CloseServerFlag, Restart
<1> DEFINE q == requests[cl]
           m == Head(q)
<1>2. q \in Seq(Request) /\ q # <<>>
  BY <1>t, <1>1 DEF Take, TypeOK, WireTypeOK
<1>3. m \in Request /\ m = q[1] /\ Len(q) > 0
  BY <1>2, HeadTailType
<1>4. Pending(cl, m)
  BY <1>2, <1>3 DEF IInv, RequestInv
<1>5. c = m.id /\ Rejection(m) = NoReply
  BY <1>1 DEF Take
<1>6. ~TooLate(m)
  BY <1>3, <1>5, FailureType, NoReplyIsNoReply DEF Rejection, Failures, Request
<1> QED BY <1>1, <1>4, <1>5, <1>6 DEF Pending, TooLate

\* The server accepts no request of a call that its caller was told timed out,
\* wherever that request waited in the meantime.
THEOREM AcceptsInTime == Spec => NoAcceptAfterTimeout
<1>1. IInv /\ [Next]_vars => [\A c \in taken' \ taken : result[c] # "timeout"]_vars
  BY AcceptedInTime
<1> QED BY <1>1, InitInv, NextInv, PTL DEF Spec, NoAcceptAfterTimeout

-----------------------------------------------------------------------------
(* ZmqRpc implements UnaryRpc.                                             *)

\* The abstract state that ZmqRpc's substitution for `call' computes.
CallView == [c \in Calls |-> IF pc[c] = "idle" THEN "idle"
                             ELSE IF pc[c] = "done" THEN result[c] ELSE "open"]

StartedView == {c \in Calls : runs[c] > 0}

\* How UnaryRpc sees the end of a call.
LEMMA FinishView ==
  ASSUME TypeOK, NEW c \in Calls, NEW res, Finish(c, res)
  PROVE  CallView' = [CallView EXCEPT ![c] = res]
<1> QED BY DEF TypeOK, ClientTypeOK, Finish, CallView

\* How UnaryRpc sees a call that goes on.
LEMMA GotoView ==
  ASSUME TypeOK, NEW c \in Calls, NEW label \in InLock, Goto(c, label),
         pc[c] \notin {"idle", "done"}, UNCHANGED result
  PROVE  CallView' = CallView
<1> QED BY DEF TypeOK, ClientTypeOK, Goto, CallView, InLock

\* A call that gives up is a GiveUp of the abstract specification.
LEMMA FinishGivesUp ==
  ASSUME TypeOK, UNCHANGED serverVars, NEW c \in Calls, pc[c] # "done",
         NEW res \in LocalErrors, Finish(c, res)
  PROVE  Unary!Next
<1>1. CallView' = [CallView EXCEPT ![c] = res]
  BY FinishView
<1>2. CallView[c] \in {"idle", "open"}
  BY DEF CallView
<1>3. UNCHANGED <<taken, StartedView, answer>>
  BY DEF serverVars, StartedView
<1>4. Unary!GiveUp(c, res)
  BY <1>1, <1>2, <1>3 DEF Unary!GiveUp, CallView, StartedView
<1> QED BY <1>4 DEF Unary!Next

\* Each step of a client is a step of UnaryRpc or none.
LEMMA ClientRefines ==
  ASSUME IInv, ClientNext, UNCHANGED serverVars
  PROVE  [Unary!Next]_(Unary!uvars)
<1>t. TypeOK
  BY DEF IInv, TypeInv
<1>s. UNCHANGED <<taken, StartedView, answer>>
  BY DEF serverVars, StartedView
<1>u. CallView' = CallView => UNCHANGED Unary!uvars
  BY <1>s DEF Unary!uvars, CallView, StartedView
<1>e. {"timeout", "transport_error", "protocol_error"} \subseteq LocalErrors
  BY DEF LocalErrors
<1>1. ASSUME NEW c \in Calls, Begin(c)
      PROVE  Unary!Next
  <2>1. CallView[c] = "idle" /\ CallView' = [CallView EXCEPT ![c] = "open"]
    BY <1>1, <1>t DEF Begin, Goto, CallView, TypeOK, ClientTypeOK
  <2>2. Unary!Issue(c)
    BY <1>s, <2>1 DEF Unary!Issue, CallView, StartedView
  <2> QED BY <2>2 DEF Unary!Next
<1>2. ASSUME NEW c \in Calls,
             BeginFails(c) \/ SendFails(c) \/ PollExpires(c) \/ PollFails(c)
      PROVE  Unary!Next
  <2>1. PICK res \in {"timeout", "transport_error", "protocol_error"} :
          Finish(c, res) /\ pc[c] # "done"
    BY <1>2 DEF BeginFails, SendFails, PollExpires, PollFails
  <2> QED BY <1>t, <1>e, <2>1, FinishGivesUp
<1>3. ASSUME NEW c \in Calls, Acquire(c) \/ Send(c)
      PROVE  UNCHANGED Unary!uvars
  <2>1. PICK label \in {"locked", "loop"} : Goto(c, label)
    BY <1>3 DEF Acquire, Send
  <2>2. pc[c] \notin {"idle", "done"} /\ UNCHANGED result /\ label \in InLock
    BY <1>3, <2>1 DEF Acquire, Send, InLock
  <2> QED BY <1>t, <1>u, <2>1, <2>2, GotoView
<1>4. ASSUME NEW c \in Calls, LoopHead(c)
      PROVE  [Unary!Next]_(Unary!uvars)
  <2>1. pc[c] = "loop" /\ "poll" \in InLock
    BY <1>4 DEF LoopHead, InLock
  <2>2. CASE Expired(deadline[c])
    BY <1>4, <1>t, <1>e, <2>1, <2>2, FinishGivesUp DEF LoopHead
  <2>3. CASE ~Expired(deadline[c])
    BY <1>4, <1>t, <1>u, <2>1, <2>3, GotoView DEF LoopHead
  <2> QED BY <2>2, <2>3
<1>5. ASSUME NEW c \in Calls, Receive(c)
      PROVE  [Unary!Next]_(Unary!uvars)
  <2> DEFINE q == replies[ClientOf[c]]
             m == Head(q)
  <2>1. pc[c] = "poll" /\ q # <<>> /\ "loop" \in InLock
    BY <1>5 DEF Receive, InLock
  <2>2. q \in Seq(Reply) /\ ClientOf[c] \in Clients
    BY <1>t, RpcAssumption, WireAssumption DEF TypeOK, WireTypeOK
  <2>3. m \in Reply /\ m = q[1] /\ Len(q) > 0
    BY <2>1, <2>2, HeadTailType
  <2>4. answer[m.id] = m
    BY <2>2, <2>3 DEF IInv, ReplyInv
  <2>5. CASE IsResponseTo(c, m)
    <3>1. Finish(c, Outcome(m)) /\ answer[c] = m
      BY <1>5, <2>4, <2>5 DEF Receive, IsResponseTo
    <3>2. CallView' = [CallView EXCEPT ![c] = Outcome(m)] /\ CallView[c] = "open"
      BY <1>t, <2>1, <3>1, FinishView DEF CallView
    <3>3. answer[c] # NoReply /\ [r \in Reply |-> Outcome(r)][answer[c]] = Outcome(m)
      BY <2>3, <3>1, NoReplyIsNoReply
    <3>4. Unary!Return(c)
      BY <1>s, <3>2, <3>3 DEF Unary!Return, CallView, StartedView
    <3> QED BY <3>4 DEF Unary!Next
  <2>6. CASE ~IsResponseTo(c, m)
    BY <1>5, <1>t, <1>u, <2>1, <2>6, GotoView DEF Receive
  <2> QED BY <2>5, <2>6
<1>6. ASSUME NEW cl \in Clients, CloseSocket(cl) \/ CloseFlag(cl)
      PROVE  UNCHANGED Unary!uvars
  BY <1>6, <1>u DEF CloseSocket, CloseFlag, CallView
<1> QED BY <1>1, <1>2, <1>3, <1>4, <1>5, <1>6 DEF ClientNext, CallStep

\* Each step of the server is a step of UnaryRpc or none.
LEMMA ServerRefines ==
  ASSUME IInv, [Next]_vars, ServerNext, UNCHANGED clientVars
  PROVE  [Unary!Next]_(Unary!uvars)
<1>t. TypeOK
  BY DEF IInv, TypeInv
<1>c. CallView' = CallView
  BY DEF clientVars, CallView
<1>u. UNCHANGED <<taken, runs, answer>> => UNCHANGED Unary!uvars
  BY <1>c DEF Unary!uvars, CallView, StartedView
<1>s. ASSUME NEW c \in Calls, Sent(c)
      PROVE  CallView[c] # "idle"
  <2>1. result[c] # "idle"
    <3>1. result[c] \in {"none"} \cup Results
      BY <1>t DEF TypeOK, ClientTypeOK
    <3> QED BY <3>1 DEF Results, Failures, LocalErrors
  <2>2. pc[c] # "idle"
    BY <1>s DEF Sent
  <2> QED BY <2>1, <2>2 DEF CallView
<1>1. ASSUME ServeForever \/ ClearStopping \/ LoopTest \/ EnterServeOnce \/ PollIdle
             \/ PollError \/ Stop \/ CloseSetsStopping \/ CloseServerFlag
             \/ HandlerBadAbort \/ CloseServerSocket \/ Restart
             \/ \E e \in HandlerEnds : HandlerEnd(e)
      PROVE  UNCHANGED Unary!uvars
  <2>1. UNCHANGED <<taken, runs, answer>>
    BY <1>1 DEF ServeForever, ClearStopping, LoopTest, EnterServeOnce, PollIdle, PollError,
       Stop, CloseSetsStopping, CloseServerFlag, HandlerBadAbort, CloseServerSocket,
       Restart, HandlerEnd
  <2> QED BY <1>u, <2>1
<1>2. ASSUME NEW cl \in Clients, Take(cl)
      PROVE  [Unary!Next]_(Unary!uvars)
  <2> DEFINE c == Head(requests[cl]).id
  <2>1. /\ UNCHANGED <<runs, answer>>
        /\ taken' = taken \/ taken' = taken \cup {c}
    BY <1>2 DEF Take
  <2> HIDE DEF c
  <2>2. CASE taken' = taken
    BY <1>u, <2>1, <2>2
  <2>3. CASE taken' # taken
    <3>1. c \in taken' \ taken /\ taken' = taken \cup {c}
      BY <2>1, <2>3
    <3>2. result[c] # "timeout" /\ Sent(c) /\ answer[c] = NoReply
      BY <3>1, AcceptedInTime
    <3>3. c \in Calls
      BY <3>1, NextType DEF IInv, TypeInv, TypeOK, ServerTypeOK
    <3>4. CallView[c] \notin {"idle", "timeout"}
      BY <1>s, <3>2, <3>3 DEF CallView
    <3>5. Unary!Accept(c)
      BY <1>c, <2>1, <3>1, <3>2, <3>4 DEF Unary!Accept, CallView, StartedView
    <3> QED BY <3>3, <3>5 DEF Unary!Next
  <2> QED BY <2>2, <2>3
<1>3. ASSUME Dispatch
      PROVE  [Unary!Next]_(Unary!uvars)
  <2>0. PICK c \in Calls : c = current.id
    BY <1>3 DEF Dispatch, IInv, TypeInv, InHand, Request
  <2>1. UNCHANGED <<taken, answer>>
    BY <1>3 DEF Dispatch
  <2>2. c \in taken /\ answer[c] = NoReply /\ runs[c] = 0
    BY <1>3, <2>0 DEF Dispatch, IInv, HandInv
  <2>3. CASE runs' = runs
    BY <1>u, <2>1, <2>3
  <2>4. CASE runs' # runs
    <3>1. runs' = [runs EXCEPT ![c] = @ + 1]
      BY <1>3, <2>0, <2>4 DEF Dispatch
    <3>2. \A d \in Calls : runs'[d] = IF d = c THEN 1 ELSE runs[d]
      BY <1>t, <2>1, <2>2, <3>1 DEF TypeOK, ServerTypeOK
    <3>3. StartedView' = StartedView \cup {c} /\ c \notin StartedView
      BY <2>1, <2>2, <3>2 DEF StartedView
    <3>4. Unary!Start(c)
      BY <1>c, <2>1, <2>2, <3>3 DEF Unary!Start, CallView, StartedView
    <3> QED BY <3>4 DEF Unary!Next
  <2> QED BY <2>3, <2>4
<1>4. ASSUME SendReply
      PROVE  [Unary!Next]_(Unary!uvars)
  <2>0. response \in Reply
    BY <1>4 DEF SendReply, IInv, TypeInv, InHand
  <2>1. PICK c \in Calls, r \in Reply : c = response.id /\ r = response
    BY <2>0 DEF Reply
  <2>2. Sent(c) /\ answer[c] = NoReply /\ Honest(r) /\ r.id = c
    BY <1>4, <2>1 DEF SendReply, IInv, HandInv
  <2>3. UNCHANGED <<taken, runs>>
    BY <1>4 DEF SendReply
  <2>4. CASE ~ServerSocketOpen
    BY <1>4, <1>u, <2>3, <2>4 DEF SendReply
  <2>5. CASE ServerSocketOpen
    <3>1. answer' = [answer EXCEPT ![c] = r]
      BY <1>4, <2>1, <2>5 DEF SendReply
    <3>2. r.status = "ok" => c \in StartedView
      BY <2>1, <2>2 DEF StartedView, Honest
    <3>3. CallView[c] # "idle"
      BY <1>s, <2>1, <2>2
    <3>4. Unary!Answer(c, r)
      BY <1>c, <2>1, <2>2, <2>3, <3>1, <3>2, <3>3 DEF Unary!Answer, CallView, StartedView
    <3> QED BY <3>4 DEF Unary!Next
  <2> QED BY <2>4, <2>5
<1> QED BY <1>1, <1>2, <1>3, <1>4 DEF ServerNext, ServerStep

\* No call has begun, there or here.
LEMMA InitRefines == Init => Unary!Init
<1> QED BY DEF Init, ClientInit, ServerInit, Unary!Init

\* Every step is a step of UnaryRpc, or none.
LEMMA StepRefines == IInv /\ [Next]_vars => [Unary!Next]_(Unary!uvars)
<1> SUFFICES ASSUME IInv, [Next]_vars
             PROVE  [Unary!Next]_(Unary!uvars)
  OBVIOUS
<1>1. CASE UNCHANGED vars
  BY <1>1 DEF vars, clientVars, serverVars, Unary!uvars
<1>2. CASE Environment /\ UNCHANGED <<clientVars, serverVars>>
  BY <1>2 DEF clientVars, serverVars, Unary!uvars
<1> QED BY <1>1, <1>2, ClientRefines, ServerRefines DEF Next

\* The ZeroMQ client and server do what UnaryRpc promises of every transport.
THEOREM Refinement == Spec => RefinesUnaryRpc
<1> QED BY InitInv, NextInv, InitRefines, StepRefines, PTL DEF Spec, RefinesUnaryRpc, Unary!Spec
=============================================================================
