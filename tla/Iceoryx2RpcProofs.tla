-------------------------- MODULE Iceoryx2RpcProofs --------------------------
(***************************************************************************)
(* Theorems about Iceoryx2Rpc, for every number of calls, clients and      *)
(* restarts, every choice of borrowers and every clock bound.              *)
(***************************************************************************)
EXTENDS Iceoryx2Rpc, RpcMessagesProofs

\* What the server has in hand is a request.
InHand == server \in {"dispatch", "handler"} => current \in Carried

TypeInv == TypeOK /\ InHand

USE DEF NoDeadline

-----------------------------------------------------------------------------
(* Types.                                                                  *)

\* The end of a call keeps the types, whatever it is.
LEMMA FinishType ==
  ASSUME TypeOK, NEW c \in Calls, NEW res \in {"early"} \cup Results, Finish(c, res),
         UNCHANGED <<now, closed, buffer, loopVars, history>>
  PROVE  TypeOK'
<1> USE RpcAssumption, Iceoryx2Assumption
<1>1. UNCHANGED <<now, closed, buffer, server, current, stopping, serverLife, restarts,
                  taken, runs, answer>>
  BY DEF loopVars, history
<1>2. /\ pending' \in [Clients -> Calls \cup {NoCall}]
      /\ mail' \in [Clients -> Reply \cup {NoReply}]
  BY DEF Finish, DropPending, TypeOK
<1>3. /\ pc' \in [Calls -> {"idle", "ready", "loop", "send", "recv", "borrowed", "done"}]
      /\ result' \in [Calls -> {"none", "early"} \cup Results]
      /\ lock' \in [Clients -> Calls \cup {NoCall}]
  BY DEF Finish, TypeOK
<1>4. /\ expires' \in [Calls -> -1 .. MaxTime]
      /\ deadline' \in [Calls -> -1 .. MaxTime + MaxBetween]
      /\ shape' \in [Calls -> Iceoryx2Shapes]
  BY DEF Finish, TypeOK, Iceoryx2Shapes, Shapes
<1> QED BY <1>1, <1>2, <1>3, <1>4 DEF TypeOK

\* A step of a call that goes on keeps the types.
LEMMA GotoType ==
  ASSUME TypeOK, NEW c \in Calls,
         NEW label \in {"loop", "send", "recv", "borrowed"}, Goto(c, label)
  PROVE  /\ pc' \in [Calls -> {"idle", "ready", "loop", "send", "recv", "borrowed", "done"}]
         /\ UNCHANGED <<expires, deadline, shape, result, lock>>
<1> QED BY DEF Goto, TypeOK

\* How a call gives up.
LEMMA TimedOutType ==
  ASSUME NEW c
  PROVE  /\ TimedOut(c) \in {"timeout", "early"}
         /\ TimedOut(c) \in {"early"} \cup Results
         /\ {"transport_error", "protocol_error"} \subseteq {"early"} \cup Results
<1> QED BY DEF TimedOut, Results, LocalErrors

\* What a request becomes when it is sent.
LEMMA SentType ==
  ASSUME TypeOK, NEW c \in Calls, shape[c] # "unsendable"
  PROVE  [id |-> c, deadline |-> deadline[c], shape |-> shape[c]] \in Carried
<1> QED BY DEF TypeOK, Carried, Iceoryx2Shapes

\* Every step of a call keeps the types.
LEMMA CallType ==
  ASSUME TypeOK, NEW c \in Calls, Begin(c) \/ CallStep(c) \/ CloseBorrowed(c)
  PROVE  TypeOK'
<1> USE RpcAssumption, Iceoryx2Assumption
<1>1. CASE Begin(c)
  <2>1. CASE Finish(c, "transport_error")
    BY <1>1, <2>1, FinishType, TimedOutType DEF Begin
  <2>2. CASE ~Finish(c, "transport_error")
    <3>1. PICK t \in Timeouts[c], between \in 0 .. MaxBetween, s \in SentShapes[c] :
            /\ t # NoDeadline => now + t <= MaxTime
            /\ expires' = [expires EXCEPT ![c] = IF t = NoDeadline THEN t ELSE now + t]
            /\ deadline' = [deadline EXCEPT ![c] = IF t = NoDeadline THEN t ELSE now + t + between]
            /\ shape' = [shape EXCEPT ![c] = s]
      BY <1>1, <2>2 DEF Begin
    <3>2. t \in Nat \cup {-1} /\ s \in Iceoryx2Shapes
      OBVIOUS
    <3>3. /\ expires' \in [Calls -> -1 .. MaxTime]
          /\ deadline' \in [Calls -> -1 .. MaxTime + MaxBetween]
          /\ shape' \in [Calls -> Iceoryx2Shapes]
      BY <3>1, <3>2 DEF TypeOK
    <3>4. /\ UNCHANGED <<now, result, lock, pending, mail, closed, buffer, loopVars, history>>
          /\ pc' = [pc EXCEPT ![c] = "ready"]
      BY <1>1, <2>2 DEF Begin
    <3> QED BY <3>3, <3>4 DEF TypeOK, loopVars, history
  <2> QED BY <2>1, <2>2
<1>2. CASE Acquire(c)
  BY <1>2 DEF Acquire, TypeOK, portVars, loopVars, history
<1>3. CASE AcquireTimesOut(c)
  BY <1>3, FinishType, TimedOutType DEF AcquireTimesOut
<1>4. CASE LoopHead(c)
  <2>1. CASE UNCHANGED <<pending, mail>> /\ ~Closing(ClientOf[c]) /\ ~Expired(expires[c])
    BY <1>4, <2>1, GotoType DEF LoopHead, TypeOK, loopVars, history
  <2> QED BY <1>4, <2>1, FinishType, TimedOutType DEF LoopHead
<1>5. CASE Send(c)
  BY <1>5, GotoType, SentType DEF Send, TypeOK, loopVars, history
<1>6. CASE SendUnreceived(c)
  BY <1>6, GotoType DEF SendUnreceived, TypeOK, portVars, loopVars, history
<1>7. CASE SendFails(c)
  BY <1>7, FinishType, TimedOutType DEF SendFails
<1>8. CASE Receive(c)
  <2>1. mail[ClientOf[c]] \in Reply
    BY <1>8 DEF Receive, TypeOK
  <2>2. Outcome(mail[ClientOf[c]]) \in Results
    BY <2>1, OutcomeType
  <2>3. CASE Finish(c, Outcome(mail[ClientOf[c]]))
    BY <1>8, <2>2, <2>3, FinishType DEF Receive
  <2>4. CASE ~Finish(c, Outcome(mail[ClientOf[c]]))
    <3>1. /\ pc' = [pc EXCEPT ![c] = "borrowed"]
          /\ result' = [result EXCEPT ![c] = "ok"]
          /\ UNCHANGED <<expires, deadline, shape, lock, pending, mail>>
          /\ UNCHANGED <<now, closed, buffer, loopVars, history>>
      BY <1>8, <2>4 DEF Receive
    <3> QED BY <3>1 DEF TypeOK, loopVars, history, Results
  <2> QED BY <2>3, <2>4
<1>9. CASE Idle(c)
  BY <1>9, GotoType DEF Idle, TypeOK, portVars, loopVars, history
<1>10. CASE CloseBorrowed(c)
  BY <1>10, FinishType DEF CloseBorrowed, Results
<1> QED BY <1>1, <1>2, <1>3, <1>4, <1>5, <1>6, <1>7, <1>8, <1>9, <1>10 DEF CallStep

\* Delivering a reply keeps the types.
LEMMA DeliverType ==
  ASSUME TypeOK, NEW r \in Reply, Deliver(r)
  PROVE  /\ mail' \in [Clients -> Reply \cup {NoReply}]
         /\ answer' \in [Calls -> Reply \cup {NoReply}]
<1> QED BY DEF Deliver, TypeOK

\* Every step of the serving thread keeps the types.
LEMMA ServerType ==
  ASSUME TypeInv, ServerStep
  PROVE  TypeInv'
<1> USE RpcAssumption, Iceoryx2Assumption
<1>t. TypeOK
  BY DEF TypeInv
<1>1. CASE ClearStopping \/ LoopTest \/ EnterServeOnce \/ PollEnds
  <2> USE DEF TypeInv, InHand, TypeOK, Stopped, Serving, callVars, portVars, history
  <2>1. CASE ClearStopping
    BY <2>1 DEF ClearStopping
  <2>2. CASE LoopTest
    BY <2>2 DEF LoopTest, Jump
  <2>3. CASE EnterServeOnce
    BY <2>3 DEF EnterServeOnce, Jump
  <2>4. CASE PollEnds
    BY <2>4 DEF PollEnds, Jump
  <2> QED BY <1>1, <2>1, <2>2, <2>3, <2>4
<1>2. ASSUME NEW cl \in Clients, Take(cl)
      PROVE  TypeInv'
  <2> DEFINE m == buffer[cl]
  <2>1. m \in Carried /\ m.id \in Calls
    BY <1>2, <1>t DEF Take, TypeOK, Carried
  <2>2. Rejection(m) \in Reply \cup {NoReply}
    BY <2>1, RejectionType
  <2>3. /\ mail' \in [Clients -> Reply \cup {NoReply}]
        /\ answer' \in [Calls -> Reply \cup {NoReply}]
    BY <1>2, <1>t, <2>2, DeliverType DEF Take, TypeOK
  <2>4. /\ buffer' \in [Clients -> Carried \cup {NoRequest}]
        /\ current' \in Carried \cup {NoRequest}
        /\ taken' \subseteq Calls
        /\ server' \in {"loop", "dispatch"}
        /\ server' = "dispatch" => current' = m
    BY <1>2, <1>t, <2>1 DEF Take, TypeOK
  <2> QED BY <1>2, <1>t, <2>1, <2>3, <2>4 DEF Take, TypeInv, InHand, TypeOK, callVars, Stopped,
                                          Serving
<1>3. CASE Dispatch
  <2>1. current \in Carried /\ current.id \in Calls
    BY <1>3 DEF Dispatch, TypeInv, InHand, Carried
  <2>2. Failure(current, "invalid_argument") \in Reply
    BY <2>1, FailureType DEF Failures
  <2>3. /\ mail' \in [Clients -> Reply \cup {NoReply}]
        /\ answer' \in [Calls -> Reply \cup {NoReply}]
    BY <1>3, <1>t, <2>2, DeliverType DEF Dispatch, TypeOK
  <2>4. /\ runs' \in [Calls -> Nat]
        /\ server' \in {"loop", "handler"}
        /\ server' = "handler" => current' = current
        /\ current' \in Carried \cup {NoRequest}
    BY <1>3, <1>t, <2>1 DEF Dispatch, TypeOK
  <2> QED BY <1>3, <1>t, <2>1, <2>3, <2>4 DEF Dispatch, TypeInv, InHand, TypeOK, callVars,
                                          Stopped, Serving
<1>4. ASSUME NEW e \in HandlerEnds, HandlerEnd(e)
      PROVE  TypeInv'
  <2>1. current.id \in Calls
    BY <1>4 DEF HandlerEnd, TypeInv, InHand, Carried
  <2>2. e \in AllHandlerEnds
    BY <1>4 DEF HandlerEnd, Iceoryx2HandlerEnds
  <2>3. Report(current, e) \in Reply
    BY <1>4, <2>1, <2>2, ReportType DEF HandlerEnd
  <2>4. /\ mail' \in [Clients -> Reply \cup {NoReply}]
        /\ answer' \in [Calls -> Reply \cup {NoReply}]
    BY <1>4, <1>t, <2>3, DeliverType DEF HandlerEnd
  <2> QED BY <1>4, <1>t, <2>4 DEF HandlerEnd, TypeInv, InHand, TypeOK, callVars, Stopped,
                                  Serving
<1>5. ASSUME NEW e \in HandlerEnds, HandlerFails(e)
      PROVE  TypeInv'
  BY <1>5, <1>t DEF HandlerFails, TypeInv, InHand, TypeOK, callVars, portVars, history,
                    Stopped, Serving
<1> QED BY <1>1, <1>2, <1>3, <1>4, <1>5 DEF ServerStep

\* So do all other steps: those of other threads, and of the system.
LEMMA OtherType ==
  ASSUME TypeInv,
         \/ Tick \/ ServeForever \/ Stop \/ CloseServer \/ DeletePort \/ Crash \/ Restart
         \/ \E cl \in Clients : CloseClient(cl)
  PROVE  TypeInv'
<1> USE RpcAssumption, Iceoryx2Assumption
<1> USE DEF TypeInv, InHand, TypeOK, callVars, portVars, loopVars, history, Stopped, Serving
<1>1. CASE Tick
  BY <1>1 DEF Tick
<1>2. CASE ServeForever \/ Stop \/ CloseServer
  <2>1. CASE ServeForever
    BY <2>1 DEF ServeForever, Jump
  <2>2. CASE Stop
    BY <2>2 DEF Stop
  <2>3. CASE CloseServer
    BY <2>3 DEF CloseServer
  <2> QED BY <1>2, <2>1, <2>2, <2>3
<1>3. CASE Restart
  <2>1. restarts' \in 0 .. MaxRestarts
    BY <1>3 DEF Restart
  <2> QED BY <1>3, <2>1 DEF Restart
<1>4. CASE DeletePort \/ Crash
  <2>1. CASE DeletePort
    BY <2>1 DEF DeletePort
  <2>2. CASE Crash
    BY <2>2 DEF Crash
  <2> QED BY <1>4, <2>1, <2>2
<1>5. ASSUME NEW cl \in Clients, CloseClient(cl)
      PROVE  TypeInv'
  BY <1>5 DEF CloseClient
<1> QED BY <1>1, <1>2, <1>3, <1>4, <1>5

\* The types hold at the start.
LEMMA InitType == Init => TypeInv
<1> SUFFICES ASSUME Init
             PROVE  TypeInv
  OBVIOUS
<1> USE RpcAssumption, Iceoryx2Assumption DEF Init
<1>1. /\ now \in 0 .. MaxTime
      /\ expires \in [Calls -> -1 .. MaxTime]
      /\ deadline \in [Calls -> -1 .. MaxTime + MaxBetween]
      /\ restarts \in 0 .. MaxRestarts
  OBVIOUS
<1>2. shape \in [Calls -> Iceoryx2Shapes]
  BY DEF Iceoryx2Shapes, Shapes
<1>3. InHand
  BY DEF InHand
<1> QED BY <1>1, <1>2, <1>3 DEF TypeInv, TypeOK, Stopped

\* Every step keeps the types.
LEMMA NextType == TypeInv /\ [Next]_vars => TypeInv'
<1> SUFFICES ASSUME TypeInv, [Next]_vars
             PROVE  TypeInv'
  OBVIOUS
<1>1. CASE UNCHANGED vars
  BY <1>1 DEF vars, TypeInv, InHand, TypeOK, callVars, portVars, loopVars, history
<1>2. ASSUME NEW c \in Calls, Begin(c) \/ CallStep(c) \/ CloseBorrowed(c)
      PROVE  TypeInv'
  <2>1. UNCHANGED <<server, current>>
    BY <1>2 DEF Begin, CallStep, CloseBorrowed, Acquire, AcquireTimesOut, LoopHead, Send,
       SendUnreceived, SendFails, Receive, Idle, loopVars
  <2> QED BY <1>2, <2>1, CallType DEF TypeInv, InHand
<1> QED BY <1>1, <1>2, ServerType, OtherType DEF Next

\* Every variable keeps its type, for every number of calls, clients and
\* restarts.
THEOREM TypeCorrect == Spec => []TypeOK
<1>1. TypeInv => TypeOK
  BY DEF TypeInv
<1> QED BY <1>1, InitType, NextType, PTL DEF Spec

-----------------------------------------------------------------------------
(* The inductive invariant.                                                *)

InLock == {"loop", "send", "recv", "borrowed"}
Labels == {"idle", "ready", "done"} \cup InLock

LockInv == \A c \in Calls : pc[c] \in InLock <=> lock[ClientOf[c]] = c

\* A pending response belongs to a call that is past sending.
PendingInv ==
  /\ \A cl \in Clients : pending[cl] # NoCall =>
       /\ ClientOf[pending[cl]] = cl
       /\ pc[pending[cl]] \in {"loop", "recv", "borrowed"}
  /\ \A c \in Calls : pc[c] \in {"recv", "borrowed"} => pending[ClientOf[c]] = c

\* It holds what was answered to that call, and nothing else.
MailInv == \A cl \in Clients :
             mail[cl] = IF pending[cl] = NoCall THEN NoReply ELSE answer[pending[cl]]

Unsent(c) == \/ pc[c] \in {"idle", "ready", "send"}
             \/ pc[c] = "loop" /\ pending[ClientOf[c]] # c

UnsentInv == \A c \in Calls : Unsent(c) => c \notin taken /\ answer[c] = NoReply

\* A request in a buffer has not met the server yet, in any way.
Waiting(cl, m) == /\ ClientOf[m.id] = cl
                  /\ ~Unsent(m.id)
                  /\ m.id \notin taken
                  /\ answer[m.id] = NoReply
                  /\ pc[m.id] # "done" => m.deadline = deadline[m.id]
                  /\ result[m.id] = "timeout" => Expired(m.deadline)

BufferInv == \A cl \in Clients : buffer[cl] # NoRequest => Waiting(cl, buffer[cl])

HandInv == server \in {"dispatch", "handler"} =>
             /\ ~Unsent(current.id)
             /\ current.id \in taken
             /\ answer[current.id] = NoReply
             /\ runs[current.id] = IF server = "dispatch" THEN 0 ELSE 1

Honest(m) == /\ m.status = "ok" => runs[m.id] = 1
             /\ m.status \in Refusals => runs[m.id] = 0

HistoryInv == \A c \in Calls :
                /\ runs[c] <= 1
                /\ c \notin taken => runs[c] = 0
                /\ answer[c] # NoReply => answer[c].id = c /\ Honest(answer[c])

\* A call that ended with a remote outcome ended with that of its answer.
ResultInv == \A c \in Calls :
               /\ result[c] # "none" <=> pc[c] \in {"borrowed", "done"}
               /\ pc[c] = "borrowed" => result[c] = "ok"
               /\ result[c] \in {"ok"} \cup Failures =>
                    answer[c] # NoReply /\ result[c] = Outcome(answer[c])

IInv == /\ TypeInv /\ LockInv /\ PendingInv /\ MailInv /\ UnsentInv /\ BufferInv
        /\ HandInv /\ HistoryInv /\ ResultInv

\* A request names a call; nothing that the server receives is NoRequest.
LEMMA CarriedType ==
  ASSUME TypeOK
  PROVE  /\ \A m \in Carried : m.id \in Calls /\ m # NoRequest
         /\ \A cl \in Clients : buffer[cl] # NoRequest => buffer[cl].id \in Calls
<1>1. \A m \in Carried : m.id \in Calls /\ m # NoRequest
  BY RpcAssumption DEF Carried, NoRequest
<1> QED BY <1>1 DEF TypeOK

\* The invariant holds before anything is called.
LEMMA InitInv == Init => IInv
<1> SUFFICES ASSUME Init
             PROVE  IInv
  OBVIOUS
<1>1. TypeInv
  BY InitType
<1> USE RpcAssumption DEF Init
<1>2. LockInv /\ PendingInv /\ MailInv
  BY DEF LockInv, InLock, PendingInv, MailInv
<1>4. UnsentInv
  BY DEF UnsentInv
<1>3. BufferInv /\ HandInv
  BY DEF BufferInv, HandInv
<1>5. HistoryInv /\ ResultInv
  BY DEF HistoryInv, ResultInv, Failures
<1> QED BY <1>1, <1>2, <1>3, <1>4, <1>5 DEF IInv

\* Steps that neither call nor answer: time passes, buffers are lost, the
\* server drops what it has in hand.
LEMMA QuietInv ==
  ASSUME IInv, TypeInv',
         UNCHANGED <<callVars, pending, mail, history>>, now <= now',
         \A cl \in Clients : buffer'[cl] \in {buffer[cl], NoRequest},
         server' \in {"dispatch", "handler"} => server' = server /\ current' = current
  PROVE  IInv'
<1> USE DEF callVars, history
<1>u. \A c : Unsent(c)' = Unsent(c)
  BY DEF Unsent
<1>1. LockInv' /\ PendingInv' /\ MailInv' /\ UnsentInv'
  BY <1>u DEF IInv, LockInv, PendingInv, MailInv, UnsentInv
<1>2. BufferInv'
  <2> SUFFICES ASSUME NEW cl \in Clients, buffer'[cl] # NoRequest
               PROVE  Waiting(cl, buffer[cl])' /\ buffer'[cl] = buffer[cl]
    BY DEF BufferInv
  <2>1. buffer'[cl] = buffer[cl] /\ Waiting(cl, buffer[cl])
    BY DEF IInv, BufferInv
  <2>2. buffer[cl].deadline \in Int /\ now \in Int /\ now' \in Int
    BY <2>1, RpcAssumption, Iceoryx2Assumption
       DEF IInv, TypeInv, TypeOK, Carried, NoRequest
  <2>3. Expired(buffer[cl].deadline) => Expired(buffer[cl].deadline)'
    BY <2>1, <2>2 DEF Expired
  <2> QED BY <1>u, <2>1, <2>3 DEF Waiting
<1>3. HandInv'
  BY <1>u DEF IInv, HandInv
<1>4. HistoryInv' /\ ResultInv'
  BY DEF IInv, HistoryInv, ResultInv, Honest
<1> QED BY <1>1, <1>2, <1>3, <1>4 DEF IInv

\* What stays when calls move, as long as requests that were sent stay sent:
\* what the server has in hand, and its answers.
LEMMA ServerKeeps ==
  ASSUME IInv, TypeInv', UNCHANGED <<loopVars, history>>,
         \A c \in Calls : Unsent(c)' => Unsent(c)
  PROVE  UnsentInv' /\ HandInv' /\ HistoryInv'
<1> USE DEF loopVars, history
<1>1. UnsentInv'
  BY DEF IInv, UnsentInv
<1>2. server \in {"dispatch", "handler"} => current.id \in Calls
  BY CarriedType DEF IInv, TypeInv, InHand
<1>3. HandInv'
  BY <1>2 DEF IInv, HandInv
<1>4. HistoryInv'
  BY DEF IInv, HistoryInv, Honest
<1> QED BY <1>1, <1>3, <1>4

\* A call may end at any point: by its deadline only when that has passed,
\* with a remote outcome only with that of its answer.
LEMMA FinishInv ==
  ASSUME IInv, TypeInv', NEW c \in Calls, pc[c] # "done",
         NEW res \in {"early"} \cup Results, Finish(c, res),
         UNCHANGED <<now, buffer, loopVars, history>>,
         res = "timeout" => Expired(deadline[c]),
         res \in {"ok"} \cup Failures => answer[c] # NoReply /\ res = Outcome(answer[c])
  PROVE  IInv'
<1> USE RpcAssumption
<1>t. TypeOK /\ TypeOK'
  BY DEF IInv, TypeInv
<1>p. pc' = [pc EXCEPT ![c] = "done"] /\ pc \in [Calls -> Labels]
  BY <1>t DEF Finish, TypeOK, Labels, InLock
<1>q. pending' = [pending EXCEPT ![ClientOf[c]] = IF @ = c THEN NoCall ELSE @]
  BY DEF Finish, DropPending
<1>r. result' = [result EXCEPT ![c] = res] /\ result \in [Calls -> {"none", "early"} \cup Results]
  BY <1>t DEF Finish, TypeOK
<1>u. \A d \in Calls : /\ Unsent(d)' => Unsent(d)
                       /\ d # c => (Unsent(d)' <=> Unsent(d))
  BY <1>p, <1>q, <1>t DEF Unsent, TypeOK
<1>d. ~Unsent(c)'
  BY <1>p DEF Unsent
<1>1. LockInv'
  <2> SUFFICES ASSUME NEW d \in Calls
               PROVE  pc'[d] \in InLock <=> lock'[ClientOf[d]] = d
    BY DEF LockInv
  <2>1. pc[d] \in InLock <=> lock[ClientOf[d]] = d
    BY DEF IInv, LockInv
  <2>2. lock' = [lock EXCEPT ![ClientOf[c]] = IF @ = c THEN NoCall ELSE @]
    BY DEF Finish
  <2> QED BY <1>p, <1>t, <2>1, <2>2 DEF InLock, TypeOK
<1>2. PendingInv'
  BY <1>p, <1>q, <1>t DEF IInv, PendingInv, TypeOK
<1>3. MailInv'
  <2> SUFFICES ASSUME NEW cl \in Clients
               PROVE  mail'[cl] = IF pending'[cl] = NoCall THEN NoReply ELSE answer[pending'[cl]]
    BY DEF MailInv, history
  <2>1. mail[cl] = IF pending[cl] = NoCall THEN NoReply ELSE answer[pending[cl]]
    BY DEF IInv, MailInv
  <2>2. mail' = [mail EXCEPT ![ClientOf[c]] = IF pending[ClientOf[c]] = c THEN NoReply ELSE @]
    BY DEF Finish, DropPending
  <2>3. pending \in [Clients -> Calls \cup {NoCall}] /\ mail \in [Clients -> Reply \cup {NoReply}]
    BY <1>t DEF TypeOK
  <2> QED BY <1>q, <2>1, <2>2, <2>3
<1>4. BufferInv'
  <2> SUFFICES ASSUME NEW cl \in Clients, buffer[cl] # NoRequest
               PROVE  Waiting(cl, buffer[cl])'
    BY DEF BufferInv
  <2> DEFINE m == buffer[cl]
  <2>1. Waiting(cl, m) /\ m.id \in Calls
    BY <1>t, CarriedType DEF IInv, BufferInv
  <2>2. ~Unsent(m.id)'
    BY <1>u, <2>1 DEF Waiting
  <2>3. pc'[m.id] # "done" => m.deadline = deadline'[m.id]
    BY <1>p, <1>t, <2>1 DEF Waiting, Finish, TypeOK
  <2>4. result'[m.id] = "timeout" => Expired(m.deadline)
    BY <1>r, <2>1 DEF Waiting
  <2> QED BY <2>1, <2>2, <2>3, <2>4 DEF Waiting, history, Expired
<1>5. ResultInv'
  <2>1. res # "none"
    BY DEF Results, Failures, LocalErrors
  <2> QED BY <1>p, <1>r, <2>1 DEF IInv, ResultInv, history
<1>6. UnsentInv' /\ HandInv' /\ HistoryInv'
  BY <1>u, ServerKeeps
<1> QED BY <1>1, <1>2, <1>3, <1>4, <1>5, <1>6 DEF IInv

\* The loop of a call: to the wait for its reply exactly if it was sent.
LEMMA GotoInv ==
  ASSUME IInv, TypeInv', NEW c \in Calls, NEW label \in {"loop", "send", "recv"},
         Goto(c, label), UNCHANGED <<now, portVars, loopVars, history>>,
         \/ pc[c] = "loop" /\ label = IF pending[ClientOf[c]] = c THEN "recv" ELSE "send"
         \/ pc[c] \in {"send", "recv"} /\ label = "loop"
  PROVE  IInv'
<1> USE RpcAssumption
<1>t. TypeOK /\ TypeOK'
  BY DEF IInv, TypeInv
<1>p. pc' = [pc EXCEPT ![c] = label] /\ pc \in [Calls -> Labels]
  BY <1>t DEF Goto, TypeOK, Labels, InLock
<1>c. UNCHANGED <<deadline, result, lock, pending, mail, buffer>>
  BY DEF Goto, portVars
<1>q. /\ pc[c] = "send" => pending[ClientOf[c]] # c
      /\ pc[c] = "recv" => pending[ClientOf[c]] = c
  BY DEF IInv, PendingInv
<1>u. \A d \in Calls : Unsent(d)' <=> Unsent(d)
  BY <1>p, <1>c, <1>q DEF Unsent
<1>1. LockInv'
  BY <1>p, <1>c DEF IInv, LockInv, InLock
<1>2. PendingInv' /\ MailInv'
  <2>1. \A cl \in Clients : pending[cl] # NoCall => pending[cl] \in Calls
    BY <1>t DEF TypeOK
  <2>2. \A d \in Calls : pc[d] \in {"loop", "recv", "borrowed"} /\ pending[ClientOf[d]] = d
                         => pc'[d] \in {"loop", "recv", "borrowed"}
    BY <1>p, <1>c, <1>q
  <2> QED BY <1>p, <1>c, <1>q, <2>1, <2>2 DEF IInv, PendingInv, MailInv, history
<1>3. BufferInv'
  <2> SUFFICES ASSUME NEW cl \in Clients, buffer[cl] # NoRequest
               PROVE  Waiting(cl, buffer[cl])'
    BY <1>c DEF BufferInv
  <2>1. Waiting(cl, buffer[cl]) /\ buffer[cl].id \in Calls
    BY <1>t, CarriedType DEF IInv, BufferInv
  <2> QED BY <1>p, <1>c, <1>u, <2>1 DEF Waiting, history, Expired
<1>4. ResultInv'
  BY <1>p, <1>c DEF IInv, ResultInv, history
<1>5. UnsentInv' /\ HandInv' /\ HistoryInv'
  BY <1>u, ServerKeeps
<1> QED BY <1>1, <1>2, <1>3, <1>4, <1>5 DEF IInv

\* A call begins, or takes the lock: nothing of it was sent.
LEMMA BeginInv ==
  ASSUME IInv, TypeInv', NEW c \in Calls, NEW label \in {"ready", "loop"},
         pc' = [pc EXCEPT ![c] = label],
         UNCHANGED <<now, result, portVars, loopVars, history>>,
         \A d \in Calls : d # c => deadline'[d] = deadline[d],
         \/ pc[c] = "idle" /\ label = "ready" /\ UNCHANGED lock
         \/ /\ pc[c] = "ready" /\ label = "loop"
            /\ lock[ClientOf[c]] = NoCall
            /\ lock' = [lock EXCEPT ![ClientOf[c]] = c]
  PROVE  IInv'
<1> USE RpcAssumption
<1>t. TypeOK /\ TypeOK'
  BY DEF IInv, TypeInv
<1>p. pc \in [Calls -> Labels]
  BY <1>t DEF TypeOK, Labels, InLock
<1>c. UNCHANGED <<pending, mail, buffer>>
  BY DEF portVars
<1>q. pending[ClientOf[c]] # c
  BY <1>t DEF IInv, PendingInv, TypeOK
<1>u. \A d \in Calls : Unsent(d)' <=> Unsent(d)
  BY <1>p, <1>c, <1>q DEF Unsent
<1>1. LockInv'
  <2> SUFFICES ASSUME NEW d \in Calls
               PROVE  pc'[d] \in InLock <=> lock'[ClientOf[d]] = d
    BY DEF LockInv
  <2>1. pc[d] \in InLock <=> lock[ClientOf[d]] = d
    BY DEF IInv, LockInv
  <2>2. lock \in [Clients -> Calls \cup {NoCall}]
    BY <1>t DEF TypeOK
  <2> QED BY <1>p, <2>1, <2>2 DEF InLock
<1>2. PendingInv' /\ MailInv'
  <2>1. \A cl \in Clients : pending[cl] # NoCall => pending[cl] \in Calls \ {c}
    BY <1>t, <1>q DEF IInv, PendingInv, TypeOK
  <2> QED BY <1>p, <1>c, <2>1 DEF IInv, PendingInv, MailInv, history
<1>3. BufferInv'
  <2> SUFFICES ASSUME NEW cl \in Clients, buffer[cl] # NoRequest
               PROVE  Waiting(cl, buffer[cl])'
    BY <1>c DEF BufferInv
  <2>1. Waiting(cl, buffer[cl]) /\ buffer[cl].id \in Calls
    BY <1>t, CarriedType DEF IInv, BufferInv
  <2>2. Unsent(c)
    BY DEF Unsent
  <2>3. buffer[cl].id # c
    BY <2>1, <2>2 DEF Waiting
  <2> QED BY <1>p, <1>c, <1>u, <2>1, <2>3 DEF Waiting, history, Expired
<1>4. ResultInv'
  BY <1>p, <1>c DEF IInv, ResultInv, history
<1>5. UnsentInv' /\ HandInv' /\ HistoryInv'
  BY <1>u, ServerKeeps
<1> QED BY <1>1, <1>2, <1>3, <1>4, <1>5 DEF IInv

\* A request is sent when the port has no pending response, so that it waits
\* for an answer of its own.
LEMMA SendInv ==
  ASSUME IInv, TypeInv', NEW c \in Calls, Send(c)
  PROVE  IInv'
<1> USE RpcAssumption
<1> DEFINE cl == ClientOf[c]
           m == [id |-> c, deadline |-> deadline[c], shape |-> shape[c]]
<1>t. TypeOK /\ TypeOK'
  BY DEF IInv, TypeInv
<1>p. /\ pc' = [pc EXCEPT ![c] = "recv"] /\ pc \in [Calls -> Labels] /\ pc[c] = "send"
      /\ UNCHANGED <<deadline, result, lock, mail, now>>
      /\ UNCHANGED <<loopVars, history>>
  BY <1>t DEF Send, Goto, TypeOK, Labels, InLock
<1>q. /\ pending' = [pending EXCEPT ![cl] = c]
      /\ buffer' = [buffer EXCEPT ![cl] = m]
      /\ pending \in [Clients -> Calls \cup {NoCall}] /\ cl \in Clients
  BY <1>t DEF Send, TypeOK
<1>n. pending[cl] = NoCall
  <2>1. pending[cl] # NoCall => /\ ClientOf[pending[cl]] = cl
                                /\ pc[pending[cl]] \in {"loop", "recv", "borrowed"}
                                /\ pending[cl] \in Calls
    BY <1>q DEF IInv, PendingInv
  <2>2. \A d \in Calls : pc[d] \in InLock => lock[ClientOf[d]] = d
    BY DEF IInv, LockInv
  <2> QED BY <1>p, <2>1, <2>2 DEF InLock
<1>s. Unsent(c) /\ c \notin taken /\ answer[c] = NoReply
  BY <1>p DEF Unsent, IInv, UnsentInv
<1>u. ~Unsent(c)' /\ \A d \in Calls : d # c => (Unsent(d)' <=> Unsent(d))
  BY <1>p, <1>q, <1>n DEF Unsent
<1>1. LockInv'
  BY <1>p DEF IInv, LockInv, InLock
<1>2. PendingInv'
  BY <1>p, <1>q, <1>n DEF IInv, PendingInv
<1>3. MailInv'
  <2>1. mail[cl] = NoReply
    BY <1>n, <1>q DEF IInv, MailInv
  <2> QED BY <1>p, <1>q, <1>s, <2>1 DEF IInv, MailInv, history
<1>4. BufferInv'
  <2> SUFFICES ASSUME NEW k \in Clients, buffer'[k] # NoRequest
               PROVE  Waiting(k, buffer[k])'
    BY DEF BufferInv
  <2>1. CASE k = cl
    <3>1. buffer'[k] = m /\ m.id = c /\ m.deadline = deadline[c]
      BY <1>q, <1>t, <2>1 DEF TypeOK
    <3>2. result[c] # "timeout"
      BY <1>p DEF IInv, ResultInv
    <3> QED BY <1>p, <1>s, <1>u, <2>1, <3>1, <3>2 DEF Waiting, history
  <2>2. CASE k # cl
    <3>1. buffer'[k] = buffer[k]
      BY <1>q, <1>t, <2>2 DEF TypeOK
    <3>2. Waiting(k, buffer[k]) /\ buffer[k].id \in Calls /\ buffer[k].id # c
      BY <1>t, <2>2, <3>1, CarriedType DEF IInv, BufferInv, Waiting
    <3> QED BY <1>p, <1>u, <3>1, <3>2 DEF Waiting, history, Expired
  <2> QED BY <2>1, <2>2
<1>5. ResultInv'
  BY <1>p DEF IInv, ResultInv, history
<1>6. UnsentInv' /\ HandInv' /\ HistoryInv'
  BY <1>p, <1>u, ServerKeeps
<1> QED BY <1>1, <1>2, <1>3, <1>4, <1>5, <1>6 DEF IInv

\* A borrower keeps lock and pending response.
LEMMA BorrowInv ==
  ASSUME IInv, TypeInv', NEW c \in Calls, pc[c] = "recv",
         answer[c] # NoReply, Outcome(answer[c]) = "ok",
         pc' = [pc EXCEPT ![c] = "borrowed"],
         result' = [result EXCEPT ![c] = "ok"],
         UNCHANGED <<now, deadline, lock, portVars, loopVars, history>>
  PROVE  IInv'
<1> USE RpcAssumption
<1>t. TypeOK /\ TypeOK'
  BY DEF IInv, TypeInv
<1>p. /\ pc \in [Calls -> Labels]
      /\ result \in [Calls -> {"none", "early"} \cup Results]
  BY <1>t DEF TypeOK, Labels, InLock
<1>c. UNCHANGED <<pending, mail, buffer>>
  BY DEF portVars
<1>u. \A d \in Calls : Unsent(d)' <=> Unsent(d)
  BY <1>p, <1>c DEF Unsent
<1>1. LockInv'
  BY <1>p DEF IInv, LockInv, InLock
<1>2. PendingInv' /\ MailInv'
  <2>1. \A cl \in Clients : pending[cl] # NoCall => pending[cl] \in Calls
    BY <1>t DEF TypeOK
  <2> QED BY <1>p, <1>c, <2>1 DEF IInv, PendingInv, MailInv, history
<1>3. BufferInv'
  <2> SUFFICES ASSUME NEW cl \in Clients, buffer[cl] # NoRequest
               PROVE  Waiting(cl, buffer[cl])'
    BY <1>c DEF BufferInv
  <2>1. Waiting(cl, buffer[cl]) /\ buffer[cl].id \in Calls
    BY <1>t, CarriedType DEF IInv, BufferInv
  <2> QED BY <1>p, <1>c, <1>u, <2>1 DEF Waiting, history, Expired
<1>4. ResultInv'
  BY <1>p DEF IInv, ResultInv, history
<1>5. UnsentInv' /\ HandInv' /\ HistoryInv'
  BY <1>u, ServerKeeps
<1> QED BY <1>1, <1>2, <1>3, <1>4, <1>5 DEF IInv

\* The server answers, once, a request that it has not answered.
LEMMA DeliverInv ==
  ASSUME IInv, TypeInv', NEW r \in Reply, Deliver(r),
         answer[r.id] = NoReply, ~Unsent(r.id), Honest(r),
         UNCHANGED <<now, callVars, pending, taken, runs>>, server' = "loop",
         \A cl \in Clients : /\ buffer'[cl] \in {buffer[cl], NoRequest}
                             /\ buffer'[cl] # NoRequest => buffer'[cl].id # r.id
  PROVE  IInv'
<1> USE RpcAssumption DEF callVars
<1> DEFINE c == r.id
<1>t. TypeOK /\ TypeOK'
  BY DEF IInv, TypeInv
<1>c. c \in Calls /\ r # NoReply
  BY NoReplyIsNoReply DEF Reply
<1>a. /\ answer' = IF Connected(c) THEN [answer EXCEPT ![c] = r] ELSE answer
      /\ mail' = IF Connected(c) THEN [mail EXCEPT ![ClientOf[c]] = r] ELSE mail
      /\ answer \in [Calls -> Reply \cup {NoReply}]
      /\ mail \in [Clients -> Reply \cup {NoReply}]
  BY <1>t DEF Deliver, TypeOK
<1>b. \A d \in Calls : answer'[d] = answer[d] \/ (d = c /\ answer'[d] = r)
  BY <1>a, <1>c
<1>u. \A d : Unsent(d)' <=> Unsent(d)
  BY DEF Unsent
<1>1. LockInv' /\ PendingInv'
  BY DEF IInv, LockInv, PendingInv
<1>2. MailInv'
  <2> SUFFICES ASSUME NEW cl \in Clients
               PROVE  mail'[cl] = IF pending[cl] = NoCall THEN NoReply ELSE answer'[pending[cl]]
    BY DEF MailInv
  <2>1. mail[cl] = IF pending[cl] = NoCall THEN NoReply ELSE answer[pending[cl]]
    BY DEF IInv, MailInv
  <2>2. pending[cl] # NoCall => pending[cl] \in Calls /\ ClientOf[pending[cl]] = cl
    BY <1>t DEF IInv, PendingInv, TypeOK
  <2>3. CASE cl = ClientOf[c]
    BY <1>a, <1>c, <2>1, <2>2, <2>3 DEF Connected
  <2>4. CASE cl # ClientOf[c]
    BY <1>a, <1>b, <1>c, <2>1, <2>2, <2>4
  <2> QED BY <2>3, <2>4
<1>3. UnsentInv'
  BY <1>b, <1>u DEF IInv, UnsentInv
<1>4. BufferInv'
  <2> SUFFICES ASSUME NEW cl \in Clients, buffer'[cl] # NoRequest
               PROVE  Waiting(cl, buffer[cl])'
    BY DEF BufferInv
  <2>1. buffer'[cl] = buffer[cl] /\ buffer[cl].id # c
    OBVIOUS
  <2>2. Waiting(cl, buffer[cl]) /\ buffer[cl].id \in Calls
    BY <1>t, <2>1, CarriedType DEF IInv, BufferInv
  <2> QED BY <1>b, <1>u, <2>1, <2>2 DEF Waiting, Expired
<1>5. HandInv'
  BY DEF HandInv
<1>6. HistoryInv'
  BY <1>b DEF IInv, HistoryInv, Honest
<1>7. ResultInv'
  BY <1>b DEF IInv, ResultInv
<1> QED BY <1>1, <1>2, <1>3, <1>4, <1>5, <1>6, <1>7 DEF IInv

\* A request that is received was not received before.
LEMMA TakeInv ==
  ASSUME IInv, TypeInv', NEW cl \in Clients, Take(cl)
  PROVE  IInv'
<1> USE RpcAssumption
<1> DEFINE m == buffer[cl]
<1>t. TypeOK /\ TypeOK'
  BY DEF IInv, TypeInv
<1>m. Waiting(cl, m) /\ m \in Carried /\ m.id \in Calls
  BY <1>t, CarriedType DEF Take, IInv, BufferInv, TypeOK
<1>b. /\ buffer' = [buffer EXCEPT ![cl] = NoRequest]
      /\ \A k \in Clients : buffer'[k] = IF k = cl THEN NoRequest ELSE buffer[k]
      /\ \A k \in Clients : buffer'[k] # NoRequest => buffer'[k].id # m.id
  <2>1. \A k \in Clients : buffer[k] # NoRequest => ClientOf[buffer[k].id] = k
    BY DEF IInv, BufferInv, Waiting
  <2> QED BY <1>t, <1>m, <2>1 DEF Take, TypeOK, Waiting
<1>c. UNCHANGED <<now, callVars, pending, runs>>
  BY DEF Take
<1>1. CASE ~Readable(m)
  <2>1. UNCHANGED <<mail, taken, answer>> /\ server' = "loop"
    BY <1>1 DEF Take
  <2> QED BY <1>b, <1>c, <1>t, <2>1, QuietInv DEF history, TypeOK
<1>2. CASE Readable(m) /\ Rejection(m) # NoReply
  <2>1. Deliver(Rejection(m)) /\ server' = "loop" /\ UNCHANGED taken
    BY <1>2 DEF Take
  <2>2. /\ Rejection(m) \in Reply
        /\ Rejection(m).id = m.id
        /\ Rejection(m).status # "ok"
    BY <1>2, <1>m, FailureType DEF Rejection, Failures
  <2>3. Honest(Rejection(m))
    BY <1>m, <2>2 DEF Honest, Waiting, IInv, HistoryInv
  <2> QED BY <1>b, <1>c, <1>m, <2>1, <2>2, <2>3, DeliverInv DEF Waiting
<1>3. CASE Readable(m) /\ Rejection(m) = NoReply
  <2>1. /\ server' = "dispatch" /\ current' = m /\ taken' = taken \cup {m.id}
        /\ UNCHANGED <<mail, answer>>
    BY <1>3, NoReplyIsNoReply DEF Take
  <2>u. \A d : Unsent(d)' <=> Unsent(d)
    BY <1>c DEF Unsent, callVars
  <2>2. LockInv' /\ PendingInv' /\ MailInv' /\ ResultInv'
    BY <1>c, <2>1 DEF IInv, LockInv, PendingInv, MailInv, ResultInv, callVars
  <2>3. UnsentInv'
    BY <1>m, <2>1, <2>u DEF IInv, UnsentInv, Waiting
  <2>4. BufferInv'
    <3> SUFFICES ASSUME NEW k \in Clients, buffer'[k] # NoRequest
                 PROVE  Waiting(k, buffer[k])'
      BY DEF BufferInv
    <3>1. buffer'[k] = buffer[k] /\ Waiting(k, buffer[k]) /\ buffer[k].id # m.id
      BY <1>b DEF IInv, BufferInv
    <3> QED BY <1>c, <2>1, <2>u, <3>1 DEF Waiting, callVars, Expired
  <2>5. HandInv'
    BY <1>c, <1>m, <2>1, <2>u DEF HandInv, IInv, HistoryInv, Waiting
  <2>6. HistoryInv'
    BY <1>c, <2>1 DEF IInv, HistoryInv, Honest
  <2> QED BY <2>2, <2>3, <2>4, <2>5, <2>6 DEF IInv
<1> QED BY <1>1, <1>2, <1>3

\* The handler starts once for a request that was received.
LEMMA DispatchInv ==
  ASSUME IInv, TypeInv', Dispatch
  PROVE  IInv'
<1> USE RpcAssumption
<1> DEFINE c == current.id
<1>t. TypeOK /\ TypeOK'
  BY DEF IInv, TypeInv
<1>h. /\ c \in Calls /\ c \in taken /\ ~Unsent(c) /\ answer[c] = NoReply /\ runs[c] = 0
      /\ server = "dispatch"
  BY CarriedType DEF Dispatch, IInv, HandInv, TypeInv, InHand
<1>c. UNCHANGED <<now, callVars, pending, taken, buffer>>
  BY DEF Dispatch
<1>b. \A cl \in Clients : buffer[cl] # NoRequest => buffer[cl].id # c
  BY <1>h DEF IInv, BufferInv, Waiting
<1>1. CASE current.shape = "undecodable"
  <2> DEFINE r == Failure(current, "invalid_argument")
  <2>1. Deliver(r) /\ server' = "loop" /\ UNCHANGED runs
    BY <1>1 DEF Dispatch
  <2>2. r \in Reply /\ r.id = c /\ r.status = "invalid_argument"
    BY <1>h, FailureType DEF Failures
  <2>3. Honest(r)
    BY <1>h, <2>2 DEF Honest
  <2> HIDE DEF r
  <2> QED BY <1>b, <1>c, <1>h, <2>1, <2>2, <2>3, DeliverInv
<1>2. CASE current.shape # "undecodable"
  <2>1. /\ server' = "handler" /\ runs' = [runs EXCEPT ![c] = @ + 1]
        /\ UNCHANGED <<current, mail, answer>>
    BY <1>2 DEF Dispatch
  <2>2. \A d \in Calls : runs'[d] = IF d = c THEN 1 ELSE runs[d]
    BY <1>t, <1>h, <2>1 DEF TypeOK
  <2>u. \A d : Unsent(d)' <=> Unsent(d)
    BY <1>c DEF Unsent, callVars
  <2>3. LockInv' /\ PendingInv' /\ MailInv' /\ ResultInv' /\ UnsentInv'
    BY <1>c, <2>1, <2>u DEF IInv, LockInv, PendingInv, MailInv, ResultInv, UnsentInv, callVars
  <2>4. BufferInv'
    BY <1>c, <2>1, <2>u DEF IInv, BufferInv, Waiting, callVars, Expired
  <2>5. HandInv'
    BY <1>c, <1>h, <2>1, <2>2, <2>u DEF HandInv
  <2>6. HistoryInv'
    BY <1>c, <1>h, <2>1, <2>2 DEF IInv, HistoryInv, Honest
  <2> QED BY <2>3, <2>4, <2>5, <2>6 DEF IInv
<1> QED BY <1>1, <1>2

\* What the handler returned or raised is reported after it ran.
LEMMA HandlerEndInv ==
  ASSUME IInv, TypeInv', NEW e \in HandlerEnds, HandlerEnd(e)
  PROVE  IInv'
<1> USE RpcAssumption
<1> DEFINE r == Report(current, e)
           c == current.id
<1>h. /\ c \in Calls /\ c \in taken /\ ~Unsent(c) /\ answer[c] = NoReply /\ runs[c] = 1
      /\ UNCHANGED <<now, callVars, pending, taken, buffer, runs>>
      /\ Deliver(r) /\ server' = "loop" /\ Encodable(e)
  BY CarriedType DEF HandlerEnd, IInv, HandInv, TypeInv, InHand
<1>b. \A cl \in Clients : buffer[cl] # NoRequest => buffer[cl].id # c
  BY <1>h DEF IInv, BufferInv, Waiting
<1>e. e \in AllHandlerEnds
  BY Iceoryx2Assumption DEF HandlerEnd, Iceoryx2HandlerEnds
<1>1. /\ r \in Reply /\ r.id = c
      /\ r.status \in {"ok", "resource_exhausted", "aborted", "internal"}
  BY <1>h, <1>e, ReportType
<1>2. Honest(r)
  BY <1>h, <1>1 DEF Honest, Refusals
<1> HIDE DEF r, c
<1> QED BY <1>b, <1>h, <1>1, <1>2, DeliverInv

\* What the port gives a call that receives is the answer to that call.
LEMMA ReceivedAnswer ==
  ASSUME IInv, NEW c \in Calls, Receive(c)
  PROVE  /\ mail[ClientOf[c]] = answer[c]
         /\ answer[c] \in Reply /\ answer[c] # NoReply
         /\ pc[c] = "recv"
<1> USE RpcAssumption
<1>1. pc[c] = "recv" /\ mail[ClientOf[c]] # NoReply
  BY DEF Receive
<1>2. pending[ClientOf[c]] = c
  BY <1>1 DEF IInv, PendingInv
<1>3. mail[ClientOf[c]] = answer[c]
  BY <1>2 DEF IInv, MailInv
<1> QED BY <1>1, <1>3 DEF IInv, TypeInv, TypeOK

\* Every step of a call keeps the invariant.
LEMMA CallInv ==
  ASSUME IInv, TypeInv', NEW c \in Calls, Begin(c) \/ CallStep(c) \/ CloseBorrowed(c)
  PROVE  IInv'
<1>a. ASSUME NEW res \in {"early", "timeout", "transport_error", "protocol_error"},
             Finish(c, res), pc[c] # "done", res = "timeout" => Expired(deadline[c]),
             UNCHANGED <<now, buffer, loopVars, history>>
      PROVE  IInv'
  <2>1. res \in {"early"} \cup Results /\ res \notin {"ok"} \cup Failures
    BY DEF Results, LocalErrors, Failures
  <2> QED BY <1>a, <2>1, FinishInv
<1>b. /\ TimedOut(c) \in {"timeout", "early"}
      /\ TimedOut(c) = "timeout" => Expired(deadline[c])
  BY DEF TimedOut
<1>1. CASE Begin(c)
  <2>1. CASE Finish(c, "transport_error")
    BY <1>1, <1>a, <2>1 DEF Begin
  <2>2. CASE ~Finish(c, "transport_error")
    <3>1. \A d \in Calls : d # c => deadline'[d] = deadline[d]
      BY <1>1, <2>2 DEF Begin, IInv, TypeInv, TypeOK
    <3>2. /\ pc[c] = "idle" /\ pc' = [pc EXCEPT ![c] = "ready"]
          /\ UNCHANGED <<now, result, lock, portVars, loopVars, history>>
      BY <1>1, <2>2 DEF Begin, portVars
    <3> QED BY <3>1, <3>2, BeginInv
  <2> QED BY <2>1, <2>2
<1>2. CASE Acquire(c)
  BY <1>2, BeginInv DEF Acquire
<1>3. CASE AcquireTimesOut(c)
  BY <1>3, <1>a, <1>b DEF AcquireTimesOut
<1>4. CASE LoopHead(c)
  <2>1. CASE \E res \in {"transport_error", TimedOut(c)} : Finish(c, res)
    BY <1>4, <1>a, <1>b, <2>1 DEF LoopHead
  <2>2. CASE ~\E res \in {"transport_error", TimedOut(c)} : Finish(c, res)
    <3>1. /\ Goto(c, IF pending[ClientOf[c]] = c THEN "recv" ELSE "send")
          /\ UNCHANGED <<now, portVars, loopVars, history>> /\ pc[c] = "loop"
      BY <1>4, <2>2 DEF LoopHead, portVars
    <3> QED BY <3>1, GotoInv
  <2> QED BY <2>1, <2>2
<1>5. CASE Send(c)
  BY <1>5, SendInv
<1>6. CASE SendUnreceived(c) \/ Idle(c)
  BY <1>6, GotoInv DEF SendUnreceived, Idle
<1>7. CASE SendFails(c)
  BY <1>7, <1>a DEF SendFails
<1>8. CASE Receive(c)
  <2> DEFINE o == Outcome(mail[ClientOf[c]])
  <2>1. o \in Results /\ o = Outcome(answer[c]) /\ answer[c] # NoReply /\ pc[c] = "recv"
    BY <1>8, ReceivedAnswer, OutcomeType
  <2>2. o # "timeout"
    BY <1>8, ReceivedAnswer DEF Outcome, Reply, Failures
  <2>3. CASE Finish(c, o)
    BY <1>8, <2>1, <2>2, <2>3, FinishInv DEF Receive
  <2>4. CASE ~Finish(c, o)
    <3>1. /\ o = "ok"
          /\ pc' = [pc EXCEPT ![c] = "borrowed"]
          /\ result' = [result EXCEPT ![c] = "ok"]
          /\ UNCHANGED <<now, deadline, lock, portVars, loopVars, history>>
      BY <1>8, <2>4 DEF Receive, portVars
    <3> QED BY <2>1, <3>1, BorrowInv
  <2> QED BY <2>3, <2>4
<1>9. CASE CloseBorrowed(c)
  <2>1. result[c] = "ok" /\ pc[c] = "borrowed"
    BY <1>9 DEF CloseBorrowed, IInv, ResultInv
  <2>2. answer[c] # NoReply /\ "ok" = Outcome(answer[c]) /\ "ok" \in Results
    BY <2>1 DEF IInv, ResultInv, Results
  <2> QED BY <1>9, <2>1, <2>2, FinishInv DEF CloseBorrowed
<1> QED BY <1>1, <1>2, <1>3, <1>4, <1>5, <1>6, <1>7, <1>8, <1>9 DEF CallStep

\* The steps of the serving thread and of other threads that answer nothing.
OtherStep == \/ Tick \/ ServeForever \/ ClearStopping \/ LoopTest \/ EnterServeOnce
             \/ PollEnds \/ Stop \/ CloseServer \/ DeletePort \/ Crash \/ Restart
             \/ \E cl \in Clients : CloseClient(cl)
             \/ \E e \in HandlerEnds : HandlerFails(e)

\* They are quiet.
LEMMA OtherQuiet ==
  ASSUME TypeOK, OtherStep
  PROVE  /\ UNCHANGED <<callVars, pending, mail, history>> /\ now <= now'
         /\ \A cl \in Clients : buffer'[cl] \in {buffer[cl], NoRequest}
         /\ server' \in {"dispatch", "handler"} => server' = server /\ current' = current
<1>n. now <= now /\ now <= now + 1
  BY RpcAssumption DEF TypeOK
<1>1. CASE Tick
  BY <1>1, <1>n DEF Tick, portVars, loopVars
<1>2. CASE ServeForever \/ ClearStopping \/ LoopTest \/ EnterServeOnce \/ PollEnds
  BY <1>2, <1>n DEF ServeForever, ClearStopping, LoopTest, EnterServeOnce, PollEnds, Jump,
                    portVars
<1>3. CASE Stop \/ CloseServer \/ Restart
  BY <1>3, <1>n DEF Stop, CloseServer, Restart, portVars
<1>4. CASE DeletePort \/ Crash
  BY <1>4, <1>n DEF DeletePort, Crash
<1>5. ASSUME NEW cl \in Clients, CloseClient(cl)
      PROVE  /\ UNCHANGED <<callVars, portVars, loopVars, history, now>>
  BY <1>5 DEF CloseClient
<1>6. ASSUME NEW e \in HandlerEnds, HandlerFails(e)
      PROVE  /\ UNCHANGED <<callVars, portVars, history, now>>
             /\ server' \notin {"dispatch", "handler"}
  BY <1>6 DEF HandlerFails
<1> QED BY <1>n, <1>1, <1>2, <1>3, <1>4, <1>5, <1>6 DEF OtherStep, portVars, loopVars

\* The invariant is inductive.
LEMMA NextInv == IInv /\ [Next]_vars => IInv'
<1> SUFFICES ASSUME IInv, [Next]_vars
             PROVE  IInv'
  OBVIOUS
<1>t. TypeInv' /\ TypeOK
  BY NextType DEF IInv, TypeInv
<1>1. CASE UNCHANGED vars
  <2>1. /\ UNCHANGED <<callVars, pending, mail, history, buffer, server, current>>
        /\ now <= now'
    BY <1>1, <1>t, RpcAssumption DEF vars, portVars, loopVars, TypeOK
  <2> QED BY <1>t, <2>1, QuietInv
<1>2. ASSUME NEW c \in Calls, Begin(c) \/ CallStep(c) \/ CloseBorrowed(c)
      PROVE  IInv'
  BY <1>2, <1>t, CallInv
<1>3. CASE OtherStep
  BY <1>3, <1>t, OtherQuiet, QuietInv
<1>4. ASSUME NEW cl \in Clients, Take(cl)
      PROVE  IInv'
  BY <1>4, <1>t, TakeInv
<1>5. CASE Dispatch
  BY <1>5, <1>t, DispatchInv
<1>6. ASSUME NEW e \in HandlerEnds, HandlerEnd(e)
      PROVE  IInv'
  BY <1>6, <1>t, HandlerEndInv
<1> QED BY <1>1, <1>2, <1>3, <1>4, <1>5, <1>6 DEF Next, ServerStep, OtherStep

-----------------------------------------------------------------------------
(* What follows from the invariant.                                        *)

\* "ok" is told only of a call whose handler ran once, a refusal only of one
\* whose handler did not run.
THEOREM OutcomesHonest == Spec => []HonestOutcome
<1>1. IInv => HonestOutcome
  <2> SUFFICES ASSUME IInv, NEW c \in Calls
               PROVE  /\ result[c] = "ok" => runs[c] = 1
                      /\ result[c] \in Refusals => runs[c] = 0
    BY DEF HonestOutcome
  <2>1. result[c] \in {"ok"} \cup Failures =>
          /\ result[c] = Outcome(answer[c])
          /\ answer[c].id = c /\ Honest(answer[c])
    BY DEF IInv, ResultInv, HistoryInv
  <2>2. Refusals \subseteq Failures
    BY DEF Refusals, Failures
  <2> QED BY <2>1, <2>2 DEF Honest, Outcome, Refusals
<1> QED BY <1>1, InitInv, NextInv, PTL DEF Spec

\* The port of a client has at most the pending response of the call that
\* holds the lock: a borrowed response is not overwritten by another call.
THEOREM PortsNotReused == Spec => []PortNotReused
<1>1. IInv => PortNotReused
  <2> SUFFICES ASSUME IInv, NEW c \in Calls
               PROVE  LET p == pending[ClientOf[c]] IN
                        /\ pc[c] \in {"loop", "send", "recv"} => p \in {NoCall, c}
                        /\ pc[c] = "borrowed" => p = c
    BY DEF PortNotReused
  <2> DEFINE p == pending[ClientOf[c]]
  <2>1. p # NoCall => /\ p \in Calls /\ ClientOf[p] = ClientOf[c]
                      /\ pc[p] \in {"loop", "recv", "borrowed"}
    BY RpcAssumption DEF IInv, TypeInv, TypeOK, PendingInv
  <2>2. p # NoCall => lock[ClientOf[c]] = p
    BY <2>1 DEF IInv, LockInv, InLock
  <2>3. pc[c] \in {"loop", "send", "recv"} => lock[ClientOf[c]] = c
    BY DEF IInv, LockInv, InLock
  <2> QED BY <2>2, <2>3 DEF IInv, PendingInv
<1> QED BY <1>1, InitInv, NextInv, PTL DEF Spec

-----------------------------------------------------------------------------
(* Iceoryx2Rpc implements UnaryRpc.                                        *)

\* The abstract state that Iceoryx2Rpc's substitutions compute.
CallView == [c \in Calls |-> IF pc[c] = "idle" THEN "idle"
                             ELSE IF Ended(c) THEN result[c] ELSE "open"]

StartedView == {c \in Calls : runs[c] > 0}

\* A call that is at work is open.
LEMMA OpenView ==
  ASSUME IInv, NEW c \in Calls
  PROVE  /\ pc[c] = "idle" => CallView[c] = "idle"
         /\ pc[c] \in {"ready", "loop", "send", "recv"} => CallView[c] = "open"
         /\ ~Unsent(c) => CallView[c] # "idle"
<1>1. result[c] # "none" <=> pc[c] \in {"borrowed", "done"}
  BY DEF IInv, ResultInv
<1>2. result[c] # "idle"
  BY DEF IInv, TypeInv, TypeOK, Results, Failures, LocalErrors
<1> QED BY <1>1, <1>2 DEF CallView, Ended, Unsent

\* How UnaryRpc sees the end of a call.
LEMMA FinishView ==
  ASSUME TypeOK, NEW c \in Calls, NEW res, res # "none", Finish(c, res)
  PROVE  CallView' = [CallView EXCEPT ![c] = res]
<1> QED BY DEF TypeOK, Finish, CallView, Ended

\* A call that gives up is a GiveUp of the abstract specification.
LEMMA FinishGivesUp ==
  ASSUME IInv, UNCHANGED history, NEW c \in Calls,
         pc[c] \in {"idle", "ready", "loop", "send", "recv"},
         NEW res \in LocalErrors \cup {"early"}, Finish(c, res)
  PROVE  Unary!Next
<1>1. CallView' = [CallView EXCEPT ![c] = res]
  BY FinishView DEF IInv, TypeInv, LocalErrors
<1>2. CallView[c] \in {"idle", "open"}
  BY OpenView
<1>3. UNCHANGED <<taken, StartedView, answer>>
  BY DEF history, StartedView
<1>4. Unary!GiveUp(c, res)
  BY <1>1, <1>2, <1>3 DEF Unary!GiveUp, CallView, StartedView
<1> QED BY <1>4 DEF Unary!Next

\* Each step of a call is a step of UnaryRpc or none.
LEMMA CallRefines ==
  ASSUME IInv, NEW c \in Calls, Begin(c) \/ CallStep(c) \/ CloseBorrowed(c)
  PROVE  [Unary!Next]_(Unary!uvars)
<1>t. TypeOK
  BY DEF IInv, TypeInv
<1>h. UNCHANGED history
  BY DEF Begin, CallStep, CloseBorrowed, Acquire, AcquireTimesOut, LoopHead, Send,
     SendUnreceived, SendFails, Receive, Idle
<1>s. UNCHANGED <<taken, StartedView, answer>>
  BY <1>h DEF history, StartedView
<1>u. CallView' = CallView => UNCHANGED Unary!uvars
  BY <1>s DEF Unary!uvars, CallView, StartedView
<1>e. {"timeout", "early", "transport_error", "protocol_error", TimedOut(c)}
        \subseteq LocalErrors \cup {"early"}
  BY DEF LocalErrors, TimedOut
<1>g. ASSUME NEW label \in {"loop", "send", "recv"}, pc' = [pc EXCEPT ![c] = label],
             pc[c] \in {"ready", "loop", "send", "recv"}, UNCHANGED result
      PROVE  CallView' = CallView
  BY <1>g, <1>t DEF CallView, Ended, TypeOK
<1>1. CASE Begin(c)
  <2>1. CASE Finish(c, "transport_error")
    BY <1>1, <1>e, <1>h, <2>1, FinishGivesUp DEF Begin
  <2>2. CASE ~Finish(c, "transport_error")
    <3>1. pc[c] = "idle" /\ pc' = [pc EXCEPT ![c] = "ready"] /\ UNCHANGED result
      BY <1>1, <2>2 DEF Begin
    <3>2. result[c] = "none"
      BY <3>1 DEF IInv, ResultInv
    <3>3. CallView[c] = "idle" /\ CallView' = [CallView EXCEPT ![c] = "open"]
      BY <1>t, <3>1, <3>2 DEF CallView, Ended, TypeOK
    <3>4. Unary!Issue(c)
      BY <1>s, <3>3 DEF Unary!Issue, CallView, StartedView
    <3> QED BY <3>4 DEF Unary!Next
  <2> QED BY <2>1, <2>2
<1>2. CASE Acquire(c)
  BY <1>2, <1>g, <1>u DEF Acquire
<1>3. CASE AcquireTimesOut(c) \/ SendFails(c)
  <2>1. PICK res \in {"transport_error", "protocol_error", TimedOut(c)} : Finish(c, res)
    BY <1>3 DEF AcquireTimesOut, SendFails
  <2>2. pc[c] \in {"ready", "send"}
    BY <1>3 DEF AcquireTimesOut, SendFails
  <2> QED BY <1>e, <1>h, <2>1, <2>2, FinishGivesUp
<1>4. CASE LoopHead(c)
  <2>1. CASE \E res \in {"transport_error", TimedOut(c)} : Finish(c, res)
    BY <1>4, <1>e, <1>h, <2>1, FinishGivesUp DEF LoopHead
  <2>2. CASE ~\E res \in {"transport_error", TimedOut(c)} : Finish(c, res)
    BY <1>4, <1>g, <1>u, <2>2 DEF LoopHead, Goto
  <2> QED BY <2>1, <2>2
<1>5. CASE Send(c) \/ SendUnreceived(c) \/ Idle(c)
  BY <1>5, <1>g, <1>u DEF Send, SendUnreceived, Idle, Goto
<1>6. CASE Receive(c)
  <2> DEFINE o == Outcome(answer[c])
  <2>1. /\ answer[c] \in Reply /\ answer[c] # NoReply /\ pc[c] = "recv"
        /\ mail[ClientOf[c]] = answer[c]
    BY <1>6, ReceivedAnswer
  <2>2. o # "none"
    BY <2>1 DEF Outcome, Reply, Failures
  <2>3. CallView' = [CallView EXCEPT ![c] = o]
    <3>1. CASE Finish(c, o)
      BY <1>t, <2>2, <3>1, FinishView
    <3>2. CASE ~Finish(c, o)
      <4>1. /\ o = "ok" /\ pc' = [pc EXCEPT ![c] = "borrowed"]
            /\ result' = [result EXCEPT ![c] = "ok"]
        BY <1>6, <2>1, <3>2 DEF Receive
      <4> QED BY <1>t, <4>1 DEF CallView, Ended, TypeOK
    <3> QED BY <3>1, <3>2
  <2>4. CallView[c] = "open"
    BY <2>1, OpenView
  <2>5. [r \in Reply |-> Outcome(r)][answer[c]] = o
    BY <2>1
  <2>6. Unary!Return(c)
    BY <1>s, <2>1, <2>3, <2>4, <2>5 DEF Unary!Return, CallView, StartedView
  <2> QED BY <2>6 DEF Unary!Next
<1>7. CASE CloseBorrowed(c)
  <2>1. pc[c] = "borrowed" /\ Finish(c, "ok") /\ result[c] = "ok"
    BY <1>7 DEF CloseBorrowed, IInv, ResultInv
  <2>2. CallView' = [CallView EXCEPT ![c] = "ok"]
    BY <1>t, <2>1, FinishView
  <2>3. CallView[c] = "ok"
    BY <2>1 DEF CallView, Ended
  <2>4. CallView' = CallView
    BY <2>2, <2>3 DEF CallView
  <2> QED BY <1>u, <2>4
<1> QED BY <1>1, <1>2, <1>3, <1>4, <1>5, <1>6, <1>7 DEF CallStep

\* To deliver a reply is to answer, or nothing.
LEMMA DeliverRefines ==
  ASSUME IInv, NEW r \in Reply, Deliver(r), ~Unsent(r.id), answer[r.id] = NoReply,
         Honest(r), UNCHANGED <<callVars, taken, runs>>
  PROVE  [Unary!Next]_(Unary!uvars)
<1> DEFINE c == r.id
<1>1. c \in Calls
  BY DEF Reply
<1>2. UNCHANGED <<CallView, taken, StartedView>>
  BY DEF callVars, CallView, Ended, StartedView
<1>3. CASE UNCHANGED answer
  BY <1>2, <1>3 DEF Unary!uvars, CallView, StartedView
<1>4. CASE answer' = [answer EXCEPT ![c] = r]
  <2>1. CallView[c] # "idle"
    BY <1>1, OpenView
  <2>2. r.status = "ok" => c \in StartedView
    BY <1>1 DEF StartedView, Honest
  <2>3. Unary!Answer(c, r)
    BY <1>2, <1>4, <2>1, <2>2 DEF Unary!Answer, CallView, StartedView
  <2> QED BY <1>1, <2>3 DEF Unary!Next
<1> QED BY <1>3, <1>4 DEF Deliver

\* Each step of the server that concerns a request is a step of UnaryRpc or
\* none: a request that is accepted is one whose call has not timed out.
LEMMA ServerRefines ==
  ASSUME IInv,
         \/ \E cl \in Clients : Take(cl)
         \/ Dispatch
         \/ \E e \in HandlerEnds : HandlerEnd(e)
  PROVE  [Unary!Next]_(Unary!uvars)
<1>t. TypeOK
  BY DEF IInv, TypeInv
<1>v. UNCHANGED callVars /\ UNCHANGED CallView
  BY DEF Take, Dispatch, HandlerEnd, callVars, CallView, Ended
<1>u. UNCHANGED <<taken, runs, answer>> => UNCHANGED Unary!uvars
  BY <1>v DEF Unary!uvars, CallView, StartedView
<1>1. ASSUME NEW cl \in Clients, Take(cl)
      PROVE  [Unary!Next]_(Unary!uvars)
  <2> DEFINE m == buffer[cl]
  <2>1. Waiting(cl, m) /\ m \in Carried /\ m.id \in Calls /\ UNCHANGED runs
    BY <1>1, <1>t, CarriedType DEF Take, IInv, BufferInv, TypeOK
  <2>2. CASE ~Readable(m)
    BY <1>1, <1>u, <2>1, <2>2 DEF Take
  <2>3. CASE Readable(m) /\ Rejection(m) # NoReply
    <3>1. Deliver(Rejection(m)) /\ UNCHANGED taken
      BY <1>1, <2>3 DEF Take
    <3>2. /\ Rejection(m) \in Reply
          /\ Rejection(m).id = m.id
          /\ Rejection(m).status # "ok"
      BY <2>1, <2>3, FailureType DEF Rejection, Failures
    <3>3. Honest(Rejection(m))
      BY <2>1, <3>2 DEF Honest, Waiting, IInv, HistoryInv
    <3> QED BY <1>v, <2>1, <3>1, <3>2, <3>3, DeliverRefines DEF Waiting
  <2>4. CASE Readable(m) /\ Rejection(m) = NoReply
    <3>1. taken' = taken \cup {m.id} /\ UNCHANGED answer
      BY <1>1, <2>4 DEF Take
    <3>2. ~Expired(m.deadline)
      <4>1. ASSUME Expired(m.deadline)
            PROVE  Rejection(m) \in Reply
        BY <2>1, <4>1, FailureType DEF Rejection, TooLate, Failures
      <4> QED BY <2>4, <4>1, NoReplyIsNoReply
    <3>3. result[m.id] # "timeout" /\ ~Unsent(m.id)
      BY <2>1, <3>2 DEF Waiting
    <3>4. CallView[m.id] \notin {"idle", "timeout"}
      BY <2>1, <3>3, OpenView DEF CallView
    <3>5. UNCHANGED StartedView
      BY <2>1 DEF StartedView
    <3>6. Unary!Accept(m.id)
      BY <1>v, <2>1, <3>1, <3>4, <3>5 DEF Unary!Accept, CallView, StartedView, Waiting
    <3> QED BY <2>1, <3>6 DEF Unary!Next
  <2> QED BY <2>2, <2>3, <2>4
<1>2. CASE Dispatch
  <2>0. PICK c \in Calls : c = current.id
    BY <1>2, <1>t, CarriedType DEF Dispatch, IInv, TypeInv, InHand
  <2> DEFINE r == Failure(current, "invalid_argument")
  <2>1. /\ c \in taken /\ ~Unsent(c) /\ answer[c] = NoReply /\ runs[c] = 0
        /\ UNCHANGED taken
    BY <1>2, <2>0 DEF Dispatch, IInv, HandInv, TypeInv, InHand
  <2>2. CASE current.shape = "undecodable"
    <3>1. Deliver(r) /\ UNCHANGED runs
      BY <1>2, <2>2 DEF Dispatch
    <3>2. r \in Reply /\ r.id = c /\ r.status = "invalid_argument"
      BY <2>0, FailureType DEF Failures
    <3>3. Honest(r)
      BY <2>1, <3>2 DEF Honest
    <3> HIDE DEF r
    <3> QED BY <1>v, <2>1, <3>1, <3>2, <3>3, DeliverRefines
  <2>3. CASE current.shape # "undecodable"
    <3>1. runs' = [runs EXCEPT ![c] = @ + 1] /\ UNCHANGED answer
      BY <1>2, <2>0, <2>3 DEF Dispatch
    <3>2. \A d \in Calls : runs'[d] = IF d = c THEN 1 ELSE runs[d]
      BY <1>t, <2>1, <3>1 DEF TypeOK
    <3>3. StartedView' = StartedView \cup {c} /\ c \notin StartedView
      BY <2>1, <3>2 DEF StartedView
    <3>4. Unary!Start(c)
      BY <1>v, <2>1, <3>1, <3>3 DEF Unary!Start, CallView, StartedView
    <3> QED BY <3>4 DEF Unary!Next
  <2> QED BY <2>2, <2>3
<1>3. ASSUME NEW e \in HandlerEnds, HandlerEnd(e)
      PROVE  [Unary!Next]_(Unary!uvars)
  <2> DEFINE c == current.id
             r == Report(current, e)
  <2>1. /\ c \in Calls /\ ~Unsent(c) /\ answer[c] = NoReply /\ runs[c] = 1
        /\ UNCHANGED <<taken, runs>> /\ Deliver(r) /\ Encodable(e)
    BY <1>3, CarriedType DEF HandlerEnd, IInv, HandInv, TypeInv, InHand
  <2>2. e \in AllHandlerEnds
    BY <1>3, Iceoryx2Assumption DEF HandlerEnd, Iceoryx2HandlerEnds
  <2>3. /\ r \in Reply /\ r.id = c
        /\ r.status \in {"ok", "resource_exhausted", "aborted", "internal"}
    BY <2>1, <2>2, ReportType
  <2>4. Honest(r)
    BY <2>1, <2>3 DEF Honest, Refusals
  <2> HIDE DEF r, c
  <2> QED BY <1>v, <2>1, <2>3, <2>4, DeliverRefines
<1> QED BY <1>1, <1>2, <1>3

\* No call has begun, there or here.
LEMMA InitRefines == Init => Unary!Init
<1> QED BY DEF Init, Unary!Init, Ended

\* Every step is a step of UnaryRpc, or none.
LEMMA StepRefines == IInv /\ [Next]_vars => [Unary!Next]_(Unary!uvars)
<1> SUFFICES ASSUME IInv, [Next]_vars
             PROVE  [Unary!Next]_(Unary!uvars)
  OBVIOUS
<1>q. UNCHANGED <<callVars, history>> => UNCHANGED Unary!uvars
  BY DEF callVars, history, Unary!uvars, Ended
<1>1. CASE UNCHANGED vars
  BY <1>1, <1>q DEF vars
<1>2. CASE OtherStep
  BY <1>2, <1>q, OtherQuiet DEF IInv, TypeInv
<1> QED BY <1>1, <1>2, CallRefines, ServerRefines DEF Next, ServerStep, OtherStep

\* The iceoryx2 client and server do what UnaryRpc promises of every
\* transport: no call is accepted after it timed out, none is answered twice.
THEOREM Refinement == Spec => RefinesUnaryRpc
<1> QED BY InitInv, NextInv, InitRefines, StepRefines, PTL DEF Spec, RefinesUnaryRpc, Unary!Spec
=============================================================================
