---------------------------- MODULE NngRpcProofs ----------------------------
(***************************************************************************)
(* Theorems about NngRpc, for every number of calls, clients, faults and   *)
(* every clock bound.                                                      *)
(***************************************************************************)
EXTENDS NngRpc, RpcMessagesProofs, FiniteSets, FiniteSetTheorems

\* What the server has in hand is a request; what a socket has to transmit
\* again is one that it keeps.
InHand == server \in {"dispatch", "handler"} => current \in Request
Owed == \A cl \in Clients : owed[cl] => outstanding[cl] # NoCall

TypeInv == TypeOK /\ InHand /\ Owed

USE DEF NoDeadline

-----------------------------------------------------------------------------
(* Types.                                                                  *)

Labels == {"idle", "ready", "locked", "recv", "done"}

\* A counter that is incremented for one element counts on.
LEMMA CountedType ==
  ASSUME NEW S, NEW f \in [S -> Nat], NEW x \in S
  PROVE  [f EXCEPT ![x] = @ + 1] \in [S -> Nat]
<1>1. \A n \in Nat : [f EXCEPT ![x] = n] \in [S -> Nat]
  OBVIOUS
<1>2. f[x] + 1 \in Nat
  OBVIOUS
<1> QED BY <1>1, <1>2

\* The end of a call keeps the types, whatever it is.
LEMMA FinishType ==
  ASSUME TypeInv, NEW c \in Calls, NEW res \in NngResults, Finish(c, res),
         requests' \in [Clients -> Seq(Request)], replies' \in [Clients -> Seq(NngReply)],
         UNCHANGED <<now, clientLife, loopVars, serverLife, faults, history>>
  PROVE  TypeInv'
<1> USE RpcAssumption, NngAssumption
<1>t. TypeOK
  BY DEF TypeInv
<1>1. /\ pc' \in [Calls -> Labels]
      /\ result' \in [Calls -> {"none"} \cup NngResults]
      /\ lock' \in [Clients -> Calls \cup {NoCall}]
      /\ shape' \in [Calls -> Shapes]
  BY <1>t DEF Finish, TypeOK, Shapes, Labels
<1>2. /\ deadline' \in [Calls -> -1 .. MaxTime]
      /\ timeout' \in [Calls -> -1 .. MaxTime]
      /\ until' \in [Calls -> -1 .. MaxTime]
  BY <1>t DEF Finish, TypeOK
<1>3. outstanding' \in [Clients -> Calls \cup {NoCall}]
  BY <1>t DEF Finish, TypeOK
<1>4. owed' \in [Clients -> BOOLEAN]
  BY <1>t DEF Finish, TypeOK
<1>5. Owed'
  <2> SUFFICES ASSUME NEW cl \in Clients, owed'[cl]
               PROVE  outstanding'[cl] # NoCall
    BY DEF Owed
  <2>1. owed[cl] /\ (cl = ClientOf[c] => outstanding[cl] # c)
    BY <1>t DEF Finish, TypeOK
  <2> QED BY <1>t, <2>1 DEF TypeInv, Owed, Finish, TypeOK
<1>6. InHand'
  BY DEF TypeInv, InHand, loopVars
<1> QED BY <1>t, <1>1, <1>2, <1>3, <1>4, <1>5, <1>6 DEF TypeInv, TypeOK, Labels, loopVars, history

\* A failure, or the outcome of a reply, is a way for a call to end.
LEMMA ResultType ==
  /\ {"timeout", "transport_error", "protocol_error", "raw_error"} \subseteq NngResults
  /\ \A r \in NngReply : NngOutcome(r) \in NngResults
<1>1. \A r \in NngReply : r.status # "unaddressed" => r \in Reply
  BY DEF NngReply, Reply
<1>2. \A r \in Reply : Outcome(r) \in Results
  BY OutcomeType
<1> QED BY <1>1, <1>2 DEF NngResults, Results, LocalErrors, NngOutcome

\* A copy of a request is a request.
LEMMA CopyType ==
  ASSUME TypeOK, NEW c \in Calls
  PROVE  Copy(c) \in Request /\ Copy(c).id = c /\ Copy(c).deadline = deadline[c]
<1> QED BY DEF TypeOK, Copy, Request

\* Every step of a call keeps the types.
LEMMA CallType ==
  ASSUME TypeInv, NEW c \in Calls, Begin(c) \/ BeginFails(c) \/ CallStep(c)
  PROVE  TypeInv'
<1> USE RpcAssumption, NngAssumption
<1>t. TypeOK
  BY DEF TypeInv
<1>p. /\ requests \in [Clients -> Seq(Request)] /\ replies \in [Clients -> Seq(NngReply)]
      /\ ClientOf[c] \in Clients
  BY <1>t DEF TypeOK
<1>1. CASE Begin(c)
  <2>1. PICK t \in Timeouts[c], s \in SentShapes[c] :
          /\ t # NoDeadline => now + t <= MaxTime
          /\ timeout' = [timeout EXCEPT ![c] = t]
          /\ deadline' = [deadline EXCEPT ![c] = IF t = NoDeadline THEN t ELSE now + t]
          /\ shape' = [shape EXCEPT ![c] = s]
    BY <1>1 DEF Begin
  <2>2. t \in Nat \cup {-1} /\ s \in Shapes
    OBVIOUS
  <2>3. /\ timeout' \in [Calls -> -1 .. MaxTime]
        /\ deadline' \in [Calls -> -1 .. MaxTime]
        /\ shape' \in [Calls -> Shapes]
    BY <1>t, <2>1, <2>2 DEF TypeOK
  <2>4. /\ UNCHANGED <<now, result, until, lock, clientLife, pipeVars, loopVars, serverLife,
                       faults, history>>
        /\ pc' = [pc EXCEPT ![c] = "ready"]
    BY <1>1 DEF Begin
  <2> QED BY <1>t, <2>3, <2>4 DEF TypeInv, TypeOK, InHand, Owed, pipeVars, loopVars, history
<1>2. CASE BeginFails(c)
  BY <1>2, <1>p, FinishType, ResultType DEF BeginFails
<1>3. CASE Acquire(c)
  <2>1. CASE Finish(c, "raw_error")
    BY <1>3, <1>p, <2>1, FinishType, ResultType DEF Acquire
  <2>2. CASE ~Finish(c, "raw_error")
    <3>1. /\ lock' = [lock EXCEPT ![ClientOf[c]] = c]
          /\ pc' = [pc EXCEPT ![c] = "locked"]
          /\ UNCHANGED <<deadline, shape, result, timeout, until, outstanding, owed>>
          /\ UNCHANGED <<now, clientLife, requests, replies, loopVars, serverLife, faults,
                         history>>
      BY <1>3, <2>2 DEF Acquire
    <3> QED BY <1>t, <3>1 DEF TypeInv, TypeOK, InHand, Owed, loopVars, history
  <2> QED BY <2>1, <2>2
<1>4. CASE Send(c)
  <2>1. requests' \in [Clients -> Seq(Request)]
    BY <1>4, <1>t, <1>p, CopyType, AppendFacts DEF Send
  <2>2. until' \in [Calls -> -1 .. MaxTime] /\ copies' \in [Calls -> Nat]
    <3> DEFINE end == now + timeout[c]
               giveUp == IF timeout[c] = NoDeadline THEN NoDeadline
                         ELSE IF end < MaxTime THEN end ELSE MaxTime
    <3>1. /\ now \in 0 .. MaxTime /\ timeout[c] \in Nat \cup {-1} /\ MaxTime \in Nat
          /\ until \in [Calls -> -1 .. MaxTime] /\ copies \in [Calls -> Nat]
      BY <1>t DEF TypeOK
    <3>2. giveUp \in -1 .. MaxTime
      BY ONLY <3>1
    <3>3. until' = [until EXCEPT ![c] = giveUp] /\ copies' = [copies EXCEPT ![c] = @ + 1]
      BY <1>4 DEF Send
    <3> HIDE DEF giveUp
    <3>4. until' \in [Calls -> -1 .. MaxTime]
      BY ONLY <3>1, <3>2, <3>3
    <3> QED BY ONLY <3>1, <3>3, <3>4, CountedType
  <2>3. /\ outstanding' \in [Clients -> Calls \cup {NoCall}]
        /\ owed' \in [Clients -> BOOLEAN]
        /\ Owed'
    BY <1>4, <1>t DEF Send, TypeOK, TypeInv, Owed
  <2>4. /\ pc' = [pc EXCEPT ![c] = "recv"]
        /\ UNCHANGED <<now, deadline, shape, result, timeout, lock, clientLife, replies,
                       loopVars, serverLife, faults, taken, runs, answers>>
    BY <1>4 DEF Send
  <2> QED BY <1>t, <2>1, <2>2, <2>3, <2>4 DEF TypeInv, TypeOK, InHand, loopVars
<1>5. CASE SendFails(c)
  BY <1>5, <1>p, FinishType, ResultType DEF SendFails
<1>6. CASE Receive(c)
  <2> DEFINE q == replies[ClientOf[c]]
  <2>1. q \in Seq(NngReply) /\ q # <<>>
    BY <1>6, <1>p DEF Receive
  <2>2. Head(q) \in NngReply /\ Tail(q) \in Seq(NngReply)
    BY <2>1, HeadTailType
  <2>3. replies' \in [Clients -> Seq(NngReply)]
    BY <1>6, <1>p, <2>2 DEF Receive
  <2> QED BY <1>6, <1>p, <2>2, <2>3, FinishType, ResultType DEF Receive
<1>7. CASE RecvFails(c)
  BY <1>7, <1>p, FinishType, ResultType DEF RecvFails
<1> QED BY <1>1, <1>2, <1>3, <1>4, <1>5, <1>6, <1>7 DEF CallStep

\* The steps of sockets and connections keep the types.
LEMMA SocketType ==
  ASSUME TypeInv, NEW cl \in Clients,
         \/ CloseSocket(cl) \/ CloseFlag(cl) \/ Resend(cl) \/ Discard(cl)
         \/ LoseConnection(cl) \/ ResendTimer(cl)
  PROVE  TypeInv'
<1> USE RpcAssumption, NngAssumption
<1>t. TypeOK /\ InHand /\ Owed
  BY DEF TypeInv
<1>p. /\ requests \in [Clients -> Seq(Request)] /\ replies \in [Clients -> Seq(NngReply)]
      /\ <<>> \in Seq(Request) /\ <<>> \in Seq(NngReply)
  BY <1>t DEF TypeOK
<1>k. CloseSocket(cl) =>
        requests' \in [Clients -> Seq(Request)] /\ replies' \in [Clients -> Seq(NngReply)]
  <2> SUFFICES ASSUME CloseSocket(cl)
               PROVE  requests' \in [Clients -> Seq(Request)]
                      /\ replies' \in [Clients -> Seq(NngReply)]
    OBVIOUS
  <2>1. PICK kept \in {<<>>, requests[cl]} : requests' = [requests EXCEPT ![cl] = kept]
    BY DEF CloseSocket
  <2>2. kept \in Seq(Request)
    <3>1. kept = <<>> \/ kept = requests[cl]
      OBVIOUS
    <3>2. requests[cl] \in Seq(Request)
      BY <1>p
    <3>3. CASE kept = <<>>
      BY ONLY <1>p, <3>3
    <3>4. CASE kept = requests[cl]
      BY ONLY <3>2, <3>4
    <3> QED BY ONLY <3>1, <3>3, <3>4
  <2>3. replies' = [replies EXCEPT ![cl] = <<>>]
    BY DEF CloseSocket
  <2> QED BY <1>p, <2>1, <2>2, <2>3
<1> USE DEF TypeInv, TypeOK, InHand, Owed, callVars, pipeVars, loopVars, history
<1>1. CASE CloseSocket(cl)
  <2>1. requests' \in [Clients -> Seq(Request)] /\ replies' \in [Clients -> Seq(NngReply)]
    BY <1>1, <1>k
  <2> QED BY <1>1, <1>t, <2>1 DEF CloseSocket
<1>2. CASE CloseFlag(cl)
  BY <1>2, <1>t DEF CloseFlag
<1>3. CASE Resend(cl)
  <2>1. outstanding[cl] \in Calls
    BY <1>3, <1>t DEF Resend
  <2>2. requests' \in [Clients -> Seq(Request)]
    <3> DEFINE q == Append(requests[cl], Copy(outstanding[cl]))
    <3>1. q \in Seq(Request)
      BY <1>t, <1>p, <2>1, CopyType, AppendFacts
    <3>2. requests' = [requests EXCEPT ![cl] = q]
      BY <1>3 DEF Resend
    <3> HIDE DEF q
    <3> QED BY ONLY <1>p, <3>1, <3>2
  <2>3. copies' \in [Calls -> Nat] /\ owed' \in [Clients -> BOOLEAN]
    <3>1. /\ copies \in [Calls -> Nat] /\ owed \in [Clients -> BOOLEAN]
          /\ copies' = [copies EXCEPT ![outstanding[cl]] = @ + 1]
          /\ owed' = [owed EXCEPT ![cl] = FALSE]
      BY <1>3, <1>t DEF Resend
    <3>2. owed' \in [Clients -> BOOLEAN]
      BY ONLY <3>1
    <3> QED BY ONLY <2>1, <3>1, <3>2, CountedType
  <2>4. /\ \A k \in Clients : owed'[k] => owed[k]
        /\ UNCHANGED <<now, callVars, clientLife, outstanding, replies, loopVars,
                       serverLife, faults, taken, runs, answers>>
    BY <1>3, <1>t DEF Resend
  <2> QED BY <1>t, <2>2, <2>3, <2>4
<1>4. CASE Discard(cl)
  <2> DEFINE q == replies[cl]
  <2>1. q \in Seq(NngReply) /\ q # <<>>
    BY <1>4, <1>p DEF Discard
  <2>2. Tail(q) \in Seq(NngReply)
    BY <2>1, HeadTailType
  <2>3. replies' \in [Clients -> Seq(NngReply)]
    BY <1>4, <1>p, <2>2 DEF Discard
  <2> QED BY <1>4, <1>t, <2>3 DEF Discard
<1>5. CASE LoseConnection(cl)
  <2>1. requests' \in [Clients -> Seq(Request)] /\ replies' \in [Clients -> Seq(NngReply)]
    BY <1>5, <1>p DEF LoseConnection, Break
  <2>2. owed' \in [Clients -> BOOLEAN] /\ Owed'
    BY <1>5, <1>t DEF LoseConnection, Break
  <2>3. routable' \in BOOLEAN /\ faults' \in 0 .. MaxFaults
    BY <1>5, <1>t DEF LoseConnection
  <2> QED BY <1>5, <1>t, <2>1, <2>2, <2>3 DEF LoseConnection
<1>6. CASE ResendTimer(cl)
  <2>1. owed' \in [Clients -> BOOLEAN] /\ Owed' /\ faults' \in 0 .. MaxFaults
    BY <1>6, <1>t DEF ResendTimer
  <2> QED BY <1>6, <1>t, <2>1 DEF ResendTimer
<1> QED BY <1>1, <1>2, <1>3, <1>4, <1>5, <1>6

\* A refusal, or a report, is a reply to the request; only a report says "ok".
LEMMA NngRejectionType ==
  ASSUME NEW m \in Request, NngRejection(m) # NoReply
  PROVE  /\ NngRejection(m) \in NngReply
         /\ NngRejection(m).id = m.id
         /\ NngRejection(m).status # "ok"
<1> QED BY DEF NngRejection, Failure, Request, NngReply, Failures, Bodies

LEMMA NngReportType ==
  ASSUME NEW m \in Request, NEW e \in HandlerEnds, Encodable(e)
  PROVE  /\ Report(m, e) \in NngReply
         /\ Report(m, e).id = m.id
         /\ Report(m, e).status \notin Refusals
<1>1. m.id \in Calls /\ e \in AllHandlerEnds
  BY NngAssumption DEF Request
<1>2. /\ Report(m, e) \in Reply
      /\ Report(m, e).id = m.id
      /\ Report(m, e).status \in {"ok", "resource_exhausted", "aborted", "internal"}
  BY <1>1, ReportType
<1> QED BY <1>2 DEF Reply, NngReply, Refusals

\* To respond keeps the types.
LEMMA RespondType ==
  ASSUME TypeOK, NEW r \in NngReply, NEW there \in BOOLEAN, Respond(r, there)
  PROVE  /\ replies' \in [Clients -> Seq(NngReply)]
         /\ answers' \in [Calls -> SUBSET NngReply]
         /\ current' \in Request \cup {NoRequest}
         /\ routable' \in BOOLEAN
         /\ server' \in {"idle", "loop"}
<1> USE RpcAssumption
<1>1. r.id \in Calls /\ ClientOf[r.id] \in Clients
  BY DEF NngReply
<1>2. /\ replies \in [Clients -> Seq(NngReply)]
      /\ answers \in [Calls -> SUBSET NngReply]
  BY DEF TypeOK
<1>3. Append(replies[ClientOf[r.id]], r) \in Seq(NngReply)
  BY <1>1, <1>2, AppendFacts
<1>4. [replies EXCEPT ![ClientOf[r.id]] = Append(@, r)] \in [Clients -> Seq(NngReply)]
  BY <1>1, <1>2, <1>3
<1>5. [answers EXCEPT ![r.id] = @ \cup {r}] \in [Calls -> SUBSET NngReply]
  BY <1>1, <1>2
<1> QED BY <1>2, <1>4, <1>5 DEF Respond

\* Every step of the serving thread keeps the types.
LEMMA ServerType ==
  ASSUME TypeInv, ServerStep
  PROVE  TypeInv'
<1> USE RpcAssumption, NngAssumption
<1>t. TypeOK /\ InHand /\ Owed
  BY DEF TypeInv
<1> USE DEF TypeInv, TypeOK, InHand, Owed, callVars, pipeVars, loopVars, history,
            OthersUnchanged
<1>1. CASE ClearStopping \/ LoopTest \/ PollEnds
  <2>1. CASE ClearStopping
    BY <2>1, <1>t DEF ClearStopping
  <2>2. CASE LoopTest
    BY <2>2, <1>t DEF LoopTest, Jump
  <2>3. CASE PollEnds
    BY <2>3, <1>t DEF PollEnds, Jump
  <2> QED BY <1>1, <2>1, <2>2, <2>3
<1>2. ASSUME NEW cl \in Clients, Take(cl)
      PROVE  TypeInv'
  <2> DEFINE q == requests[cl]
             m == Head(q)
  <2>1. q \in Seq(Request) /\ q # <<>>
    BY <1>2, <1>t DEF Take
  <2>2. m \in Request /\ Tail(q) \in Seq(Request) /\ m.id \in Calls
    <3>1. m \in Request /\ Tail(q) \in Seq(Request)
      BY <2>1, HeadTailType
    <3> QED BY <3>1 DEF Request
  <2>3. requests' \in [Clients -> Seq(Request)]
    BY <1>2, <1>t, <2>2 DEF Take
  <2>4. CASE NngRejection(m) # NoReply
    <3>1. NngRejection(m) \in NngReply
      BY <2>2, <2>4, NngRejectionType
    <3>2. Respond(NngRejection(m), TRUE) /\ UNCHANGED taken
      BY <1>2, <2>4 DEF Take
    <3>3. /\ replies' \in [Clients -> Seq(NngReply)]
          /\ answers' \in [Calls -> SUBSET NngReply]
          /\ current' \in Request \cup {NoRequest}
          /\ routable' \in BOOLEAN
          /\ server' \in {"idle", "loop"}
      BY <1>t, <3>1, <3>2, RespondType
    <3> QED BY <1>2, <1>t, <2>3, <3>2, <3>3 DEF Take
  <2>5. CASE NngRejection(m) = NoReply
    <3>1. /\ server' = "dispatch" /\ current' = m /\ routable' = TRUE
          /\ taken' = [taken EXCEPT ![m.id] = @ + 1] /\ UNCHANGED <<replies, answers>>
      BY ONLY <1>2, <2>5 DEF Take
    <3>2. taken' \in [Calls -> Nat]
      <4>1. taken \in [Calls -> Nat]
        BY <1>t
      <4> QED BY ONLY <2>2, <3>1, <4>1, CountedType
    <3> HIDE DEF m
    <3> QED BY <1>2, <1>t, <2>2, <2>3, <3>1, <3>2 DEF Take
  <2> QED BY <2>4, <2>5
<1>3. CASE Dispatch
  <2>1. current \in Request /\ current.id \in Calls
    BY <1>3, <1>t DEF Dispatch, Request
  <2>2. CASE current.shape = "undecodable"
    <3> DEFINE r == Failure(current, "invalid_argument")
    <3>1. r \in NngReply
      BY <2>1, FailureType DEF Failures, Reply, NngReply
    <3>2. Respond(r, routable) /\ UNCHANGED runs
      BY <1>3, <2>2 DEF Dispatch
    <3> HIDE DEF r
    <3>3. /\ replies' \in [Clients -> Seq(NngReply)]
          /\ answers' \in [Calls -> SUBSET NngReply]
          /\ current' \in Request \cup {NoRequest}
          /\ routable' \in BOOLEAN
          /\ server' \in {"idle", "loop"}
      BY <1>t, <3>1, <3>2, RespondType
    <3> QED BY <1>3, <1>t, <3>2, <3>3 DEF Dispatch
  <2>3. CASE current.shape # "undecodable"
    <3>1. /\ runs' = [runs EXCEPT ![current.id] = @ + 1] /\ server' = "handler"
          /\ UNCHANGED <<current, routable, replies, answers>>
      BY ONLY <1>3, <2>3 DEF Dispatch
    <3>2. runs' \in [Calls -> Nat]
      BY <1>t, <2>1, <3>1
    <3> QED BY <1>3, <1>t, <2>1, <3>1, <3>2 DEF Dispatch
  <2> QED BY <2>2, <2>3
<1>4. ASSUME NEW e \in HandlerEnds, HandlerEnd(e)
      PROVE  TypeInv'
  <2>1. current \in Request
    BY <1>4, <1>t DEF HandlerEnd
  <2>2. CASE Encodable(e)
    <3>1. Report(current, e) \in NngReply
      BY <2>1, <2>2, NngReportType
    <3>2. Respond(Report(current, e), routable)
      BY <1>4, <2>2 DEF HandlerEnd
    <3>3. /\ replies' \in [Clients -> Seq(NngReply)]
          /\ answers' \in [Calls -> SUBSET NngReply]
          /\ current' \in Request \cup {NoRequest}
          /\ routable' \in BOOLEAN
          /\ server' \in {"idle", "loop"}
      BY <1>t, <3>1, <3>2, RespondType
    <3> QED BY <1>4, <1>t, <3>3 DEF HandlerEnd
  <2>3. CASE ~Encodable(e)
    BY <1>4, <1>t, <2>3 DEF HandlerEnd
  <2> QED BY <2>2, <2>3
<1> QED BY <1>1, <1>2, <1>3, <1>4 DEF ServerStep

\* So do the other steps.
LEMMA OtherType ==
  ASSUME TypeInv,
         \/ Tick \/ ServeForever \/ Stop \/ CloseServer \/ CloseServerSocket \/ Crash \/ Restart
  PROVE  TypeInv'
<1> USE RpcAssumption, NngAssumption
<1>t. TypeOK /\ InHand /\ Owed
  BY DEF TypeInv
<1> USE DEF TypeInv, TypeOK, InHand, Owed, callVars, pipeVars, loopVars, history
<1>1. CASE Tick
  BY <1>1, <1>t DEF Tick
<1>2. CASE ServeForever \/ Stop \/ CloseServer
  <2>1. CASE ServeForever
    BY <2>1, <1>t DEF ServeForever, Jump, OthersUnchanged
  <2>2. CASE Stop
    BY <2>2, <1>t DEF Stop, OthersUnchanged
  <2>3. CASE CloseServer
    BY <2>3, <1>t DEF CloseServer
  <2> QED BY <1>2, <2>1, <2>2, <2>3
<1>3. CASE CloseServerSocket \/ Crash
  <2>p. <<>> \in Seq(Request) /\ <<>> \in Seq(NngReply)
    OBVIOUS
  <2>q. Break(Clients)
    BY <1>3 DEF CloseServerSocket, Crash
  <2>1. requests' \in [Clients -> Seq(Request)] /\ replies' \in [Clients -> Seq(NngReply)]
    BY <2>p, <2>q DEF Break
  <2>2. owed' \in [Clients -> BOOLEAN] /\ Owed'
    BY <1>3, <1>t DEF CloseServerSocket, Crash, Break
  <2>3. CASE CloseServerSocket
    BY <2>3, <1>t, <2>1, <2>2 DEF CloseServerSocket
  <2>4. CASE Crash
    BY <2>4, <1>t, <2>1, <2>2 DEF Crash
  <2> QED BY <1>3, <2>3, <2>4
<1>4. CASE Restart
  <2>1. faults' \in 0 .. MaxFaults
    BY <1>4, <1>t DEF Restart
  <2> QED BY <1>4, <1>t, <2>1 DEF Restart
<1> QED BY <1>1, <1>2, <1>3, <1>4

\* The types hold at the start.
LEMMA InitType == Init => TypeInv
<1> SUFFICES ASSUME Init
             PROVE  TypeInv
  OBVIOUS
<1> USE RpcAssumption, NngAssumption DEF Init
<1>1. /\ now \in 0 .. MaxTime /\ faults \in 0 .. MaxFaults
      /\ deadline \in [Calls -> -1 .. MaxTime]
      /\ timeout \in [Calls -> -1 .. MaxTime]
      /\ until \in [Calls -> -1 .. MaxTime]
  OBVIOUS
<1>2. shape \in [Calls -> Shapes]
  BY DEF Shapes
<1>3. InHand /\ Owed
  BY DEF InHand, Owed
<1>4. requests \in [Clients -> Seq(Request)] /\ replies \in [Clients -> Seq(NngReply)]
  OBVIOUS
<1> QED BY <1>1, <1>2, <1>3, <1>4 DEF TypeInv, TypeOK

\* Every step keeps the types.
LEMMA NextType == TypeInv /\ [Next]_vars => TypeInv'
<1> SUFFICES ASSUME TypeInv, [Next]_vars
             PROVE  TypeInv'
  OBVIOUS
<1>1. CASE UNCHANGED vars
  BY <1>1 DEF vars, TypeInv, InHand, Owed, TypeOK, callVars, pipeVars, loopVars, history
<1> QED BY <1>1, CallType, SocketType, ServerType, OtherType DEF Next

\* Every variable keeps its type, for every number of calls, clients and
\* faults.
THEOREM TypeCorrect == Spec => []TypeOK
<1>1. TypeInv => TypeOK
  BY DEF TypeInv
<1> QED BY <1>1, InitType, NextType, PTL DEF Spec

-----------------------------------------------------------------------------
(* The inductive invariant.                                                *)

LockInv == \A c \in Calls : pc[c] \in {"locked", "recv"} <=> lock[ClientOf[c]] = c

SocketInv == \A cl \in Clients : outstanding[cl] # NoCall =>
               ClientOf[outstanding[cl]] = cl /\ pc[outstanding[cl]] = "recv"

\* recv() never gives up before the deadline that the request carries.
TimeInv == \A c \in Calls :
             /\ pc[c] \in {"ready", "locked"} =>
                  /\ timeout[c] = NoDeadline <=> deadline[c] = NoDeadline
                  /\ timeout[c] # NoDeadline => deadline[c] <= now + timeout[c]
             /\ pc[c] = "recv" =>
                  /\ until[c] # NoDeadline => deadline[c] # NoDeadline
                  /\ until[c] # NoDeadline => deadline[c] <= until[c]

\* A copy on its way to the server.
Waiting(cl, m) == /\ ClientOf[m.id] = cl
                  /\ pc[m.id] \in {"recv", "done"}
                  /\ pc[m.id] = "recv" => m.deadline = deadline[m.id]
                  /\ result[m.id] = "timeout" => Expired(m.deadline)

RequestInv == \A cl \in Clients : \A i \in 1 .. Len(requests[cl]) :
                Waiting(cl, requests[cl][i])

ReplyInv == \A cl \in Clients : \A i \in 1 .. Len(replies[cl]) :
              LET m == replies[cl][i] IN ClientOf[m.id] = cl /\ m \in answers[m.id]

\* Where in the pipe q the copies of c's request are.
Positions(q, c) == {i \in 1 .. Len(q) : q[i].id = c}
InPipe(c) == Cardinality(Positions(requests[ClientOf[c]], c))

Dispatching(c) == server = "dispatch" /\ current.id = c
Refused(c) == \E r \in answers[c] : r.status \in Refusals
Bit(b) == IF b THEN 1 ELSE 0

\* Every copy is in a pipe, lost, refused, or accepted; and the handler starts
\* at most once for each that is accepted.
CountInv == \A c \in Calls :
  /\ runs[c] + Bit(Dispatching(c)) <= taken[c]
  /\ taken[c] + InPipe(c) <= copies[c]
  /\ runs[c] + Bit(Dispatching(c)) + InPipe(c) + Bit(Refused(c)) <= copies[c]

HandInv == server = "handler" => runs[current.id] > 0

AnswerInv == \A c \in Calls : \A r \in answers[c] :
               r.id = c /\ (r.status = "ok" => runs[c] > 0)

ResultInv == \A c \in Calls :
               /\ pc[c] = "done" <=> result[c] # "none"
               /\ result[c] \in {"ok"} \cup Failures =>
                    \E r \in answers[c] : NngOutcome(r) = result[c]

IInv == /\ TypeInv /\ LockInv /\ SocketInv /\ TimeInv /\ RequestInv /\ ReplyInv
        /\ CountInv /\ HandInv /\ AnswerInv /\ ResultInv

-----------------------------------------------------------------------------
(* Copies in a pipe.                                                       *)

\* A pipe has finitely many copies.
LEMMA PositionsFinite ==
  ASSUME NEW S, NEW q \in Seq(S), NEW c
  PROVE  /\ IsFiniteSet(Positions(q, c))
         /\ Cardinality(Positions(q, c)) \in Nat
<1>1. Len(q) \in Nat /\ Positions(q, c) \in SUBSET (1 .. Len(q))
  BY DEF Positions
<1>2. IsFiniteSet(1 .. Len(q))
  BY <1>1, FS_Interval
<1>3. IsFiniteSet(Positions(q, c))
  BY <1>1, <1>2, FS_Subset
<1> QED BY <1>3, FS_CardinalityType

\* A pipe that broke has none.
LEMMA PositionsEmpty == \A c : Cardinality(Positions(<<>>, c)) = 0
<1>1. \A c : Positions(<<>>, c) = {}
  BY DEF Positions
<1> QED BY <1>1, FS_EmptySet

\* One that is sent is one more.
LEMMA PositionsAppend ==
  ASSUME NEW S, NEW q \in Seq(S), NEW m \in S, NEW c
  PROVE  Cardinality(Positions(Append(q, m), c)) = Cardinality(Positions(q, c)) + Bit(m.id = c)
<1> DEFINE n == Len(q) + 1
           old == Positions(q, c)
           new == Positions(Append(q, m), c)
<1>1. IsFiniteSet(old) /\ Cardinality(old) \in Nat
  BY PositionsFinite
<1>2. /\ Len(Append(q, m)) = n /\ Len(q) \in Nat
      /\ \A i \in 1 .. Len(q) : Append(q, m)[i] = q[i]
      /\ Append(q, m)[n] = m
  BY AppendFacts
<1>3. n \notin old
  BY <1>2 DEF Positions
<1>4. CASE m.id = c
  <2>1. new = old \cup {n}
    BY <1>2, <1>4 DEF Positions
  <2> HIDE DEF new, old, n
  <2>2. Cardinality(new) = Cardinality(old) + 1
    BY <1>1, <1>3, <2>1, FS_AddElement
  <2>3. Bit(m.id = c) = 1
    BY <1>4 DEF Bit
  <2> QED BY <2>2, <2>3 DEF new, old
<1>5. CASE m.id # c
  <2>1. new = old
    BY <1>2, <1>5 DEF Positions
  <2> HIDE DEF new, old, n
  <2>2. Cardinality(new) = Cardinality(old) + 0
    BY <1>1, <2>1
  <2>3. Bit(m.id = c) = 0
    BY <1>5 DEF Bit
  <2> QED BY <2>2, <2>3 DEF new, old
<1> QED BY <1>4, <1>5

\* One that is received is one less.
LEMMA PositionsTail ==
  ASSUME NEW S, NEW q \in Seq(S), q # <<>>, NEW c
  PROVE  Cardinality(Positions(Tail(q), c)) + Bit(Head(q).id = c) <= Cardinality(Positions(q, c))
<1> DEFINE old == Positions(q, c)
           new == Positions(Tail(q), c)
           rest == old \ {1}
           next == [i \in new |-> i + 1]
<1>1. /\ Head(q) = q[1] /\ Tail(q) \in Seq(S)
      /\ Len(q) > 0 /\ Len(Tail(q)) = Len(q) - 1 /\ Len(q) \in Nat
      /\ \A i \in 1 .. Len(Tail(q)) : Tail(q)[i] = q[i + 1]
  BY HeadTailType
<1>2. /\ IsFiniteSet(old) /\ Cardinality(old) \in Nat
      /\ IsFiniteSet(new) /\ Cardinality(new) \in Nat
  BY <1>1, PositionsFinite
<1>3. \A i \in new : i \in 1 .. Len(Tail(q)) /\ i + 1 \in rest
  BY <1>1 DEF Positions
<1>4. next \in [new -> rest]
  BY <1>3
<1>5. IsInjective(next)
  BY <1>3 DEF IsInjective
<1>6. next \in Injection(new, rest)
  BY <1>4, <1>5 DEF Injection
<1>7. 1 \in old <=> Head(q).id = c
  BY <1>1 DEF Positions
<1> HIDE DEF next, new, old
<1>8. /\ IsFiniteSet(rest)
      /\ Cardinality(rest) = IF 1 \in old THEN Cardinality(old) - 1 ELSE Cardinality(old)
  BY <1>2, FS_RemoveElement
<1> HIDE DEF rest
<1>9. Cardinality(new) <= Cardinality(rest)
  BY <1>6, <1>8, FS_Injection
<1> QED BY <1>2, <1>7, <1>8, <1>9 DEF Bit, new, old

\* The copies of a call in its pipe can be counted.
LEMMA InPipeType ==
  ASSUME TypeOK, NEW c \in Calls
  PROVE  InPipe(c) \in Nat
<1>1. requests[ClientOf[c]] \in Seq(Request)
  BY RpcAssumption DEF TypeOK
<1> QED BY <1>1, PositionsFinite DEF InPipe

\* What becomes of them when the pipes break or stay.
LEMMA PipeShrinks ==
  ASSUME TypeOK, \A cl \in Clients : requests'[cl] \in {requests[cl], <<>>}, NEW c \in Calls
  PROVE  InPipe(c) \in Nat /\ InPipe(c)' \in Nat /\ InPipe(c)' <= InPipe(c)
<1> DEFINE q == requests[ClientOf[c]]
<1>1. q \in Seq(Request) /\ requests'[ClientOf[c]] \in {q, <<>>}
  BY RpcAssumption DEF TypeOK
<1>2. Cardinality(Positions(q, c)) \in Nat /\ Cardinality(Positions(<<>>, c)) = 0
  BY <1>1, PositionsFinite, PositionsEmpty
<1>3. InPipe(c) = Cardinality(Positions(q, c))
  BY DEF InPipe
<1>4. InPipe(c)' = Cardinality(Positions(requests'[ClientOf[c]], c))
  BY DEF InPipe
<1> HIDE DEF q
<1> QED BY <1>1, <1>2, <1>3, <1>4

\* When a copy is sent.
LEMMA PipeGrows ==
  ASSUME TypeOK, NEW m \in Request,
         requests' = [requests EXCEPT ![ClientOf[m.id]] = Append(@, m)], NEW c \in Calls
  PROVE  InPipe(c) \in Nat /\ InPipe(c)' = InPipe(c) + Bit(m.id = c)
<1>0. /\ requests \in [Clients -> Seq(Request)] /\ ClientOf[c] \in Clients
      /\ m.id \in Calls /\ ClientOf[m.id] \in Clients
  BY RpcAssumption DEF TypeOK, Request
<1> DEFINE q == requests[ClientOf[c]]
<1>1. q \in Seq(Request) /\ Cardinality(Positions(q, c)) \in Nat
  BY <1>0, PositionsFinite
<1>2. InPipe(c) = Cardinality(Positions(q, c))
  BY DEF InPipe
<1>3. InPipe(c)' = Cardinality(Positions(requests'[ClientOf[c]], c))
  BY DEF InPipe
<1>4. CASE ClientOf[c] = ClientOf[m.id]
  <2>1. requests'[ClientOf[c]] = Append(q, m)
    BY <1>0, <1>4
  <2>2. Cardinality(Positions(Append(q, m), c)) = Cardinality(Positions(q, c)) + Bit(m.id = c)
    BY <1>1, PositionsAppend
  <2> HIDE DEF q
  <2>3. InPipe(c)' = Cardinality(Positions(Append(q, m), c))
    BY <1>3, <2>1
  <2> QED BY <1>1, <1>2, <2>2, <2>3
<1>5. CASE ClientOf[c] # ClientOf[m.id]
  <2>1. requests'[ClientOf[c]] = q /\ m.id # c
    BY <1>0, <1>5
  <2>2. InPipe(c)' = InPipe(c) /\ InPipe(c) \in Nat
    BY <1>1, <1>2, <1>3, <2>1
  <2>3. Bit(m.id = c) = 0
    BY <2>1 DEF Bit
  <2> QED BY <2>2, <2>3
<1> QED BY <1>4, <1>5

\* When one is received.
LEMMA PipeTaken ==
  ASSUME TypeOK, NEW cl \in Clients, requests[cl] # <<>>,
         ClientOf[Head(requests[cl]).id] = cl,
         requests' = [requests EXCEPT ![cl] = Tail(@)], NEW c \in Calls
  PROVE  /\ InPipe(c) \in Nat /\ InPipe(c)' \in Nat
         /\ InPipe(c)' + Bit(Head(requests[cl]).id = c) <= InPipe(c)
<1>0. requests \in [Clients -> Seq(Request)] /\ ClientOf[c] \in Clients
  BY RpcAssumption DEF TypeOK
<1> DEFINE q == requests[ClientOf[c]]
<1>1. q \in Seq(Request) /\ Cardinality(Positions(q, c)) \in Nat
  BY <1>0, PositionsFinite
<1>2. InPipe(c) = Cardinality(Positions(q, c))
  BY DEF InPipe
<1>3. InPipe(c)' = Cardinality(Positions(requests'[ClientOf[c]], c))
  BY DEF InPipe
<1>4. CASE ClientOf[c] = cl
  <2>1. requests'[ClientOf[c]] = Tail(q) /\ q = requests[cl] /\ q # <<>>
    BY <1>0, <1>4
  <2>2. Tail(q) \in Seq(Request)
    BY <1>1, <2>1, HeadTailType
  <2>3. /\ Cardinality(Positions(Tail(q), c)) \in Nat
        /\ Cardinality(Positions(Tail(q), c)) + Bit(Head(q).id = c) <= Cardinality(Positions(q, c))
    BY <1>1, <2>1, <2>2, PositionsFinite, PositionsTail
  <2> HIDE DEF q
  <2> QED BY <1>1, <1>2, <1>3, <2>1, <2>3
<1>5. CASE ClientOf[c] # cl
  <2>1. requests'[ClientOf[c]] = q /\ Head(requests[cl]).id # c
    BY <1>0, <1>5
  <2>2. InPipe(c)' = InPipe(c) /\ InPipe(c) \in Nat
    BY <1>1, <1>2, <1>3, <2>1
  <2>3. Bit(Head(requests[cl]).id = c) = 0
    BY <2>1 DEF Bit
  <2> QED BY <2>2, <2>3
<1> QED BY <1>4, <1>5

-----------------------------------------------------------------------------
(* The invariant is inductive.                                             *)

\* What is in the pipe p was in the pipe q.
From(p, q) == \A i \in 1 .. Len(p) : \E j \in 1 .. Len(q) : p[i] = q[j]

LEMMA FromFacts ==
  ASSUME NEW S, NEW q \in Seq(S)
  PROVE  From(q, q) /\ From(<<>>, q) /\ (q # <<>> => From(Tail(q), q))
<1>1. From(q, q) /\ From(<<>>, q)
  BY DEF From
<1>2. q # <<>> => From(Tail(q), q)
  <2> SUFFICES ASSUME q # <<>>, NEW i \in 1 .. Len(Tail(q))
               PROVE  \E j \in 1 .. Len(q) : Tail(q)[i] = q[j]
    BY DEF From
  <2>1. Len(q) \in Nat /\ Len(Tail(q)) = Len(q) - 1 /\ Tail(q)[i] = q[i + 1]
    BY HeadTailType
  <2>2. i + 1 \in 1 .. Len(q)
    BY <2>1
  <2> QED BY <2>1, <2>2
<1> QED BY <1>1, <1>2

\* The copies in a pipe are requests whose ID is a call's.
LEMMA PipeMembers ==
  ASSUME TypeOK, NEW cl \in Clients
  PROVE  /\ Len(requests[cl]) \in Nat /\ Len(replies[cl]) \in Nat
         /\ \A i \in 1 .. Len(requests[cl]) :
              /\ requests[cl][i] \in Request
              /\ requests[cl][i].id \in Calls
              /\ requests[cl][i].deadline \in -1 .. MaxTime
         /\ \A i \in 1 .. Len(replies[cl]) :
              /\ replies[cl][i] \in NngReply
              /\ replies[cl][i].id \in Calls
<1>1. requests[cl] \in Seq(Request) /\ replies[cl] \in Seq(NngReply)
  BY DEF TypeOK
<1>2. /\ Len(requests[cl]) \in Nat /\ Len(replies[cl]) \in Nat
      /\ \A i \in 1 .. Len(requests[cl]) : requests[cl][i] \in Request
      /\ \A i \in 1 .. Len(replies[cl]) : replies[cl][i] \in NngReply
  BY <1>1
<1>3. \A m \in Request : m.id \in Calls /\ m.deadline \in -1 .. MaxTime
  BY DEF Request
<1>4. \A r \in NngReply : r.id \in Calls
  BY DEF NngReply
<1> QED BY <1>2, <1>3, <1>4

\* The counts hold on while no copy is sent, refused, accepted or dispatched.
LEMMA CountKeeps ==
  ASSUME CountInv, TypeOK, UNCHANGED history,
         UNCHANGED <<server, current>> \/ server' # "dispatch",
         \A c \in Calls : InPipe(c) \in Nat /\ InPipe(c)' \in Nat /\ InPipe(c)' <= InPipe(c)
  PROVE  CountInv'
<1> SUFFICES ASSUME NEW c \in Calls
             PROVE  /\ runs'[c] + Bit(Dispatching(c)') <= taken'[c]
                    /\ taken'[c] + InPipe(c)' <= copies'[c]
                    /\ runs'[c] + Bit(Dispatching(c)') + InPipe(c)' + Bit(Refused(c)') <= copies'[c]
  BY DEF CountInv, Bit
<1>1. /\ runs[c] + Bit(Dispatching(c)) <= taken[c]
      /\ taken[c] + InPipe(c) <= copies[c]
      /\ runs[c] + Bit(Dispatching(c)) + InPipe(c) + Bit(Refused(c)) <= copies[c]
  BY DEF CountInv
<1>2. /\ runs'[c] = runs[c] /\ taken'[c] = taken[c] /\ copies'[c] = copies[c]
      /\ runs[c] \in Nat /\ taken[c] \in Nat /\ copies[c] \in Nat
  BY DEF history, TypeOK
<1>3. Bit(Refused(c)') = Bit(Refused(c)) /\ Bit(Refused(c)) \in {0, 1}
  BY DEF history, Refused, Bit
<1>4. /\ Bit(Dispatching(c)') <= Bit(Dispatching(c))
      /\ Bit(Dispatching(c)) \in {0, 1} /\ Bit(Dispatching(c)') \in {0, 1}
  BY DEF Dispatching, Bit
<1>5. InPipe(c) \in Nat /\ InPipe(c)' \in Nat /\ InPipe(c)' <= InPipe(c)
  OBVIOUS
<1> QED BY <1>1, <1>2, <1>3, <1>4, <1>5

\* A step that touches no call: connections break, replies are dropped, time
\* passes, the server has nothing in hand.
Quiet == /\ UNCHANGED <<callVars, history>> /\ now <= now'
         /\ \A cl \in Clients : /\ outstanding'[cl] \in {outstanding[cl], NoCall}
                                /\ requests'[cl] \in {requests[cl], <<>>}
                                /\ From(replies'[cl], replies[cl])
         /\ UNCHANGED <<server, current>> \/ server' \notin {"dispatch", "handler"}

LEMMA QuietInv ==
  ASSUME IInv, TypeInv', Quiet
  PROVE  IInv'
<1> USE RpcAssumption DEF Quiet, callVars, history
<1>t. TypeOK /\ TypeOK'
  BY DEF IInv, TypeInv
<1>1. LockInv'
  BY DEF IInv, LockInv
<1>2. SocketInv'
  BY DEF IInv, SocketInv
<1>3. TimeInv'
  <2>1. /\ UNCHANGED <<pc, timeout, deadline, until>> /\ now <= now'
        /\ TimeInv /\ now \in Int /\ now' \in Int
        /\ \A c \in Calls : timeout[c] \in Int /\ deadline[c] \in Int
    BY <1>t DEF IInv, TypeOK
  <2> QED BY ONLY <2>1 DEF TimeInv
<1>4. RequestInv'
  <2> SUFFICES ASSUME NEW cl \in Clients, NEW i \in 1 .. Len(requests'[cl])
               PROVE  Waiting(cl, requests[cl][i])'
    BY DEF RequestInv
  <2>1. requests'[cl] = requests[cl]
    BY <1>t
  <2>2. Waiting(cl, requests[cl][i]) /\ requests[cl][i].deadline \in -1 .. MaxTime
    BY <1>t, <2>1, PipeMembers DEF IInv, RequestInv
  <2>3. now \in 0 .. MaxTime /\ now' \in 0 .. MaxTime
    BY <1>t DEF TypeOK
  <2>4. Expired(requests[cl][i].deadline) => Expired(requests[cl][i].deadline)'
    BY <2>1, <2>2, <2>3 DEF Expired
  <2> QED BY <2>1, <2>2, <2>4 DEF Waiting
<1>5. ReplyInv'
  BY DEF IInv, ReplyInv, From
<1>6. CountInv'
  <2>1. \A c \in Calls : InPipe(c) \in Nat /\ InPipe(c)' \in Nat /\ InPipe(c)' <= InPipe(c)
    BY <1>t, PipeShrinks
  <2> QED BY <1>t, <2>1, CountKeeps DEF IInv
<1>7. HandInv' /\ AnswerInv' /\ ResultInv'
  BY DEF IInv, HandInv, AnswerInv, ResultInv
<1> QED BY <1>1, <1>2, <1>3, <1>4, <1>5, <1>6, <1>7 DEF IInv

\* A call that goes on to take the lock, or takes it, has sent nothing.
LEMMA BeginInv ==
  ASSUME IInv, TypeInv', NEW c \in Calls, Begin(c) \/ (Acquire(c) /\ SocketOpen(c))
  PROVE  IInv'
<1> USE RpcAssumption
<1>t. TypeOK /\ TypeOK'
  BY DEF IInv, TypeInv
<1>c. /\ UNCHANGED <<now, result, until, outstanding, requests, replies, server, current>>
      /\ UNCHANGED history
      /\ pc[c] \in {"idle", "ready"}
  BY DEF Begin, Acquire, pipeVars, loopVars
<1>p. /\ pc \in [Calls -> Labels] /\ lock \in [Clients -> Calls \cup {NoCall}]
      /\ now \in 0 .. MaxTime
  BY <1>t DEF TypeOK, Labels
<1>b. \/ /\ pc[c] = "idle" /\ pc' = [pc EXCEPT ![c] = "ready"] /\ UNCHANGED lock
      \/ /\ pc[c] = "ready" /\ pc' = [pc EXCEPT ![c] = "locked"]
         /\ lock[ClientOf[c]] = NoCall /\ lock' = [lock EXCEPT ![ClientOf[c]] = c]
  BY DEF Begin, Acquire
<1>d. \A d \in Calls : d # c => pc'[d] = pc[d] /\ timeout'[d] = timeout[d]
                                /\ deadline'[d] = deadline[d]
  <2>1. CASE Begin(c)
    <3>1. PICK t \in Timeouts[c] :
            /\ timeout' = [timeout EXCEPT ![c] = t]
            /\ deadline' = [deadline EXCEPT ![c] = IF t = NoDeadline THEN t ELSE now + t]
            /\ pc' = [pc EXCEPT ![c] = "ready"]
      BY <2>1 DEF Begin
    <3> QED BY ONLY <1>t, <3>1 DEF TypeOK
  <2>2. CASE Acquire(c) /\ SocketOpen(c)
    BY <1>t, <2>2 DEF Acquire, TypeOK
  <2> QED BY <2>1, <2>2
<1>e. pc'[c] \in {"ready", "locked"}
  BY <1>p, <1>b
<1>1. LockInv'
  BY <1>p, <1>b DEF IInv, LockInv
<1>2. SocketInv'
  <2>1. \A cl \in Clients : outstanding[cl] # NoCall =>
          /\ outstanding[cl] \in Calls
          /\ ClientOf[outstanding[cl]] = cl /\ pc[outstanding[cl]] = "recv"
    BY <1>t DEF IInv, SocketInv, TypeOK
  <2> QED BY <1>c, <1>d, <2>1 DEF SocketInv
<1>3. TimeInv'
  <2>1. /\ timeout'[c] = NoDeadline <=> deadline'[c] = NoDeadline
        /\ timeout'[c] # NoDeadline => deadline'[c] <= now + timeout'[c]
    <3>1. CASE Begin(c)
      <4>1. PICK t \in Timeouts[c] :
              /\ timeout' = [timeout EXCEPT ![c] = t]
              /\ deadline' = [deadline EXCEPT ![c] = IF t = NoDeadline THEN t ELSE now + t]
        BY <3>1 DEF Begin
      <4>2. t \in Nat \cup {-1}
        BY NngAssumption
      <4>3. timeout'[c] = t /\ deadline'[c] = IF t = -1 THEN t ELSE now + t
        BY <1>t, <4>1 DEF TypeOK
      <4> QED BY <1>p, <4>2, <4>3
    <3>2. CASE Acquire(c) /\ SocketOpen(c)
      <4>1. UNCHANGED <<timeout, deadline>> /\ pc[c] = "ready"
        BY <3>2 DEF Acquire
      <4> QED BY <4>1 DEF IInv, TimeInv
    <3> QED BY <3>1, <3>2
  <2>2. \A d \in Calls : d # c => pc'[d] = pc[d] /\ until'[d] = until[d]
                                  /\ timeout'[d] = timeout[d] /\ deadline'[d] = deadline[d]
    BY <1>c, <1>d
  <2> QED BY <1>c, <1>e, <2>1, <2>2 DEF IInv, TimeInv
<1>4. RequestInv'
  <2> SUFFICES ASSUME NEW cl \in Clients, NEW i \in 1 .. Len(requests[cl])
               PROVE  Waiting(cl, requests[cl][i])'
    BY <1>c DEF RequestInv
  <2>1. Waiting(cl, requests[cl][i]) /\ requests[cl][i].id \in Calls
    BY <1>t, PipeMembers DEF IInv, RequestInv
  <2>2. requests[cl][i].id # c
    BY <1>c, <2>1 DEF Waiting
  <2> QED BY <1>c, <1>d, <2>1, <2>2 DEF Waiting, Expired
<1>5. ReplyInv'
  BY <1>c DEF IInv, ReplyInv, history
<1>6. CountInv'
  <2>1. \A d \in Calls : InPipe(d) \in Nat /\ InPipe(d)' \in Nat /\ InPipe(d)' <= InPipe(d)
    BY <1>t, <1>c, PipeShrinks
  <2> QED BY <1>t, <1>c, <2>1, CountKeeps DEF IInv
<1>7. HandInv' /\ AnswerInv'
  BY <1>c DEF IInv, HandInv, AnswerInv, history
<1>8. ResultInv'
  BY <1>p, <1>b, <1>c DEF IInv, ResultInv, history
<1> QED BY <1>1, <1>2, <1>3, <1>4, <1>5, <1>6, <1>7, <1>8 DEF IInv

\* A call that ends says what an answer to it says, or that its deadline has
\* passed, or that another local error befell it.
LEMMA FinishInv ==
  ASSUME IInv, TypeInv', NEW c \in Calls, NEW res \in NngResults, Finish(c, res),
         pc[c] # "done",
         res = "timeout" /\ pc[c] = "recv" => Expired(until[c]),
         res \in {"ok"} \cup Failures => \E r \in answers[c] : NngOutcome(r) = res,
         UNCHANGED <<now, requests, loopVars, history>>,
         \A cl \in Clients : From(replies'[cl], replies[cl])
  PROVE  IInv'
<1> USE RpcAssumption
<1>t. TypeOK /\ TypeOK'
  BY DEF IInv, TypeInv
<1>p. /\ pc' = [pc EXCEPT ![c] = "done"]
      /\ result' = [result EXCEPT ![c] = res]
      /\ pc \in [Calls -> Labels] /\ result \in [Calls -> {"none"} \cup NngResults]
      /\ lock \in [Clients -> Calls \cup {NoCall}]
      /\ outstanding \in [Clients -> Calls \cup {NoCall}]
      /\ lock' = [lock EXCEPT ![ClientOf[c]] = IF @ = c THEN NoCall ELSE @]
      /\ outstanding' = [outstanding EXCEPT ![ClientOf[c]] = IF @ = c THEN NoCall ELSE @]
  BY <1>t DEF Finish, TypeOK, Labels
<1>s. UNCHANGED <<server, current>>
  BY DEF loopVars
<1>n. "none" \notin NngResults
  BY DEF NngResults, Results, LocalErrors, Failures
<1>d. \A d \in Calls : d # c => /\ pc'[d] = pc[d] /\ result'[d] = result[d]
                                /\ deadline'[d] = deadline[d] /\ until'[d] = until[d]
                                /\ timeout'[d] = timeout[d]
  BY <1>t DEF Finish, TypeOK
<1>1. LockInv'
  BY <1>p DEF IInv, LockInv
<1>2. SocketInv'
  <2> SUFFICES ASSUME NEW cl \in Clients, outstanding'[cl] # NoCall
               PROVE  /\ ClientOf[outstanding'[cl]] = cl
                      /\ pc'[outstanding'[cl]] = "recv"
    BY DEF SocketInv
  <2>1. outstanding'[cl] = outstanding[cl] /\ (cl = ClientOf[c] => outstanding[cl] # c)
    BY <1>p
  <2>2. /\ outstanding[cl] \in Calls
        /\ ClientOf[outstanding[cl]] = cl /\ pc[outstanding[cl]] = "recv"
    BY <1>p, <2>1 DEF IInv, SocketInv
  <2> QED BY <1>d, <2>1, <2>2
<1>3. TimeInv'
  <2>1. pc'[c] = "done"
    BY <1>p
  <2> QED BY <1>d, <2>1 DEF IInv, TimeInv
<1>4. RequestInv'
  <2> SUFFICES ASSUME NEW cl \in Clients, NEW i \in 1 .. Len(requests[cl])
               PROVE  Waiting(cl, requests[cl][i])'
    BY DEF RequestInv
  <2>1. Waiting(cl, requests[cl][i]) /\ requests[cl][i].id \in Calls
    BY <1>t, PipeMembers DEF IInv, RequestInv
  <2>2. CASE requests[cl][i].id = c
    <3>1. pc[c] = "recv" /\ requests[cl][i].deadline = deadline[c]
      BY <2>1, <2>2 DEF Waiting
    <3>2. res = "timeout" => Expired(deadline[c])
      <4>1. /\ until[c] # NoDeadline => deadline[c] # NoDeadline /\ deadline[c] <= until[c]
            /\ until[c] \in -1 .. MaxTime /\ deadline[c] \in -1 .. MaxTime
            /\ now \in 0 .. MaxTime
        BY <1>t, <3>1 DEF IInv, TimeInv, TypeOK
      <4> QED BY <3>1, <4>1 DEF Expired
    <3>3. pc'[c] = "done" /\ result'[c] = res
      BY <1>p
    <3> QED BY <2>1, <2>2, <3>1, <3>2, <3>3 DEF Waiting, Expired
  <2>3. CASE requests[cl][i].id # c
    BY <1>d, <2>1, <2>3 DEF Waiting, Expired
  <2> QED BY <2>2, <2>3
<1>5. ReplyInv'
  BY DEF IInv, ReplyInv, From, history
<1>6. CountInv'
  <2>1. \A d \in Calls : InPipe(d) \in Nat /\ InPipe(d)' \in Nat /\ InPipe(d)' <= InPipe(d)
    BY <1>t, PipeShrinks
  <2> QED BY <1>t, <1>s, <2>1, CountKeeps DEF IInv
<1>7. HandInv' /\ AnswerInv'
  BY <1>s DEF IInv, HandInv, AnswerInv, history
<1>8. ResultInv'
  <2>1. pc'[c] = "done" /\ result'[c] = res
    BY <1>p
  <2> QED BY <1>d, <1>n, <2>1 DEF IInv, ResultInv, history
<1> QED BY <1>1, <1>2, <1>3, <1>4, <1>5, <1>6, <1>7, <1>8 DEF IInv

\* One copy more is in the pipe, and was transmitted.
LEMMA CountSent ==
  ASSUME CountInv, TypeOK, NEW m \in Request,
         requests' = [requests EXCEPT ![ClientOf[m.id]] = Append(@, m)],
         copies' = [copies EXCEPT ![m.id] = @ + 1],
         UNCHANGED <<taken, runs, answers, server, current>>
  PROVE  CountInv'
<1> SUFFICES ASSUME NEW c \in Calls
             PROVE  /\ runs[c] + Bit(Dispatching(c)) <= taken[c]
                    /\ taken[c] + InPipe(c)' <= copies'[c]
                    /\ runs[c] + Bit(Dispatching(c)) + InPipe(c)' + Bit(Refused(c)) <= copies'[c]
  BY DEF CountInv, Bit, Dispatching, Refused
<1>1. /\ runs[c] + Bit(Dispatching(c)) <= taken[c]
      /\ taken[c] + InPipe(c) <= copies[c]
      /\ runs[c] + Bit(Dispatching(c)) + InPipe(c) + Bit(Refused(c)) <= copies[c]
  BY DEF CountInv
<1>2. runs[c] \in Nat /\ taken[c] \in Nat /\ copies[c] \in Nat /\ m.id \in Calls
  BY DEF TypeOK, Request
<1>a. copies \in [Calls -> Nat] /\ copies' = [copies EXCEPT ![m.id] = @ + 1]
  BY DEF TypeOK
<1>3. copies'[c] = copies[c] + Bit(m.id = c)
  BY ONLY <1>2, <1>a DEF Bit
<1>4. InPipe(c) \in Nat /\ InPipe(c)' = InPipe(c) + Bit(m.id = c)
  BY PipeGrows
<1>5. Bit(m.id = c) \in {0, 1} /\ Bit(Refused(c)) \in {0, 1} /\ Bit(Dispatching(c)) \in {0, 1}
  BY DEF Bit
<1> QED BY ONLY <1>1, <1>2, <1>3, <1>4, <1>5

\* A request is transmitted by a call that waits for its reply from now on.
LEMMA TransmitInv ==
  ASSUME IInv, TypeInv', NEW c \in Calls, pc'[c] = "recv", pc[c] \in {"locked", "recv"},
         requests' = [requests EXCEPT ![ClientOf[c]] = Append(@, Copy(c))],
         copies' = [copies EXCEPT ![c] = @ + 1],
         \/ UNCHANGED <<pc, until, outstanding>>
         \/ /\ pc' = [pc EXCEPT ![c] = "recv"]
            /\ outstanding' = [outstanding EXCEPT ![ClientOf[c]] = c]
            /\ \A d \in Calls : d # c => until'[d] = until[d]
            /\ until'[c] # NoDeadline => deadline[c] # NoDeadline /\ deadline[c] <= until'[c],
         UNCHANGED <<now, deadline, shape, result, timeout, lock, replies, loopVars,
                     taken, runs, answers>>
  PROVE  IInv'
<1> USE RpcAssumption
<1>t. TypeOK /\ TypeOK'
  BY DEF IInv, TypeInv
<1>p. /\ pc \in [Calls -> Labels] /\ pc' \in [Calls -> Labels]
      /\ requests \in [Clients -> Seq(Request)]
      /\ outstanding \in [Clients -> Calls \cup {NoCall}]
      /\ lock \in [Clients -> Calls \cup {NoCall}]
  BY <1>t DEF TypeOK, Labels
<1>m. Copy(c) \in Request /\ Copy(c).id = c /\ Copy(c).deadline = deadline[c]
  BY <1>t, CopyType
<1>d. \A d \in Calls : d # c => pc'[d] = pc[d]
  BY <1>p
<1>s. UNCHANGED <<server, current>>
  BY DEF loopVars
<1>1. LockInv'
  BY <1>d DEF IInv, LockInv
<1>2. SocketInv'
  <2> SUFFICES ASSUME NEW cl \in Clients, outstanding'[cl] # NoCall
               PROVE  /\ ClientOf[outstanding'[cl]] = cl
                      /\ pc'[outstanding'[cl]] = "recv"
    BY DEF SocketInv
  <2>1. outstanding'[cl] = outstanding[cl] \/ (outstanding'[cl] = c /\ cl = ClientOf[c])
    BY <1>p
  <2>2. outstanding[cl] # NoCall =>
          /\ outstanding[cl] \in Calls
          /\ ClientOf[outstanding[cl]] = cl /\ pc[outstanding[cl]] = "recv"
    BY <1>p DEF IInv, SocketInv
  <2> QED BY <1>d, <2>1, <2>2
<1>3. TimeInv'
  <2>1. /\ until'[c] # NoDeadline => deadline[c] # NoDeadline
        /\ until'[c] # NoDeadline => deadline[c] <= until'[c]
    BY DEF IInv, TimeInv
  <2>2. \A d \in Calls : d # c => until'[d] = until[d]
    OBVIOUS
  <2> QED BY <1>d, <2>1, <2>2 DEF IInv, TimeInv
<1>4. RequestInv'
  <2>r. result[c] = "none"
    BY DEF IInv, ResultInv
  <2> SUFFICES ASSUME NEW cl \in Clients, NEW i \in 1 .. Len(requests'[cl])
               PROVE  Waiting(cl, requests[cl][i])'
    BY DEF RequestInv
  <2> DEFINE q == requests[cl]
             m == requests'[cl][i]
  <2>1. \/ i \in 1 .. Len(q) /\ m = q[i]
        \/ cl = ClientOf[c] /\ m = Copy(c)
    <3>1. q \in Seq(Request) /\ Len(q) \in Nat
      BY <1>p
    <3>2. CASE cl = ClientOf[c]
      <4>1. requests'[cl] = Append(q, Copy(c))
        BY <1>p, <3>2
      <4> QED BY <1>m, <3>1, <3>2, <4>1, AppendFacts
    <3>3. CASE cl # ClientOf[c]
      <4>1. requests'[cl] = q
        BY <1>p, <3>3
      <4> QED BY <4>1
    <3> QED BY <3>2, <3>3
  <2>2. CASE i \in 1 .. Len(q) /\ m = q[i]
    <3>1. Waiting(cl, q[i]) /\ q[i].id \in Calls
      BY <1>t, <2>2, PipeMembers DEF IInv, RequestInv
    <3>2. q[i].id = c => pc[c] = "recv"
      BY <3>1 DEF Waiting
    <3> QED BY <1>d, <2>2, <3>1, <3>2 DEF Waiting, Expired
  <2>3. CASE cl = ClientOf[c] /\ m = Copy(c)
    BY <1>m, <2>r, <2>3 DEF Waiting
  <2> QED BY <2>1, <2>2, <2>3
<1>5. ReplyInv'
  BY DEF IInv, ReplyInv
<1>6. CountInv'
  BY <1>t, <1>m, <1>s, CountSent DEF IInv
<1>7. HandInv' /\ AnswerInv'
  BY <1>s DEF IInv, HandInv, AnswerInv
<1>8. ResultInv'
  BY <1>d DEF IInv, ResultInv
<1> QED BY <1>1, <1>2, <1>3, <1>4, <1>5, <1>6, <1>7, <1>8 DEF IInv

\* The server answers what it has taken from a pipe.
LEMMA RespondInv ==
  ASSUME IInv, TypeInv', NEW r \in NngReply, NEW there \in BOOLEAN, Respond(r, there),
         r.status = "ok" => runs[r.id] > 0,
         OthersUnchanged, UNCHANGED <<taken, runs>>,
         \A cl \in Clients : From(requests'[cl], requests[cl]),
         \A c \in Calls : /\ InPipe(c) \in Nat /\ InPipe(c)' \in Nat
                          /\ InPipe(c)' <= InPipe(c)
                          /\ r.status \in Refusals =>
                               InPipe(c)' + Bit(r.id = c) <= InPipe(c) + Bit(Dispatching(c))
  PROVE  IInv'
<1> USE RpcAssumption DEF OthersUnchanged, callVars
<1>t. TypeOK /\ TypeOK'
  BY DEF IInv, TypeInv
<1>r. r.id \in Calls /\ ClientOf[r.id] \in Clients
  BY DEF NngReply
<1>p. /\ replies \in [Clients -> Seq(NngReply)]
      /\ answers \in [Calls -> SUBSET NngReply]
  BY <1>t DEF TypeOK
<1>s. server' \notin {"dispatch", "handler"}
  BY DEF Respond
<1>a. \/ UNCHANGED <<replies, answers>>
      \/ /\ replies' = [replies EXCEPT ![ClientOf[r.id]] = Append(@, r)]
         /\ answers' = [answers EXCEPT ![r.id] = @ \cup {r}]
  BY DEF Respond
<1>b. \A c \in Calls : answers'[c] = answers[c] \/ (c = r.id /\ answers'[c] = answers[c] \cup {r})
  BY <1>a, <1>p, <1>r
<1>1. LockInv' /\ SocketInv' /\ TimeInv'
  BY DEF IInv, LockInv, SocketInv, TimeInv
<1>2. RequestInv'
  <2> SUFFICES ASSUME NEW cl \in Clients, NEW i \in 1 .. Len(requests'[cl])
               PROVE  Waiting(cl, requests[cl][i])'
    BY DEF RequestInv
  <2>1. PICK j \in 1 .. Len(requests[cl]) : requests'[cl][i] = requests[cl][j]
    BY DEF From
  <2>2. Waiting(cl, requests[cl][j])
    BY DEF IInv, RequestInv
  <2> QED BY <2>1, <2>2 DEF Waiting, Expired
<1>3. ReplyInv'
  <2>1. CASE UNCHANGED <<replies, answers>>
    BY <2>1 DEF IInv, ReplyInv
  <2>2. CASE /\ replies' = [replies EXCEPT ![ClientOf[r.id]] = Append(@, r)]
             /\ answers' = [answers EXCEPT ![r.id] = @ \cup {r}]
    <3> SUFFICES ASSUME NEW cl \in Clients, NEW i \in 1 .. Len(replies'[cl])
                 PROVE  /\ ClientOf[replies'[cl][i].id] = cl
                        /\ replies'[cl][i] \in answers'[replies'[cl][i].id]
      BY DEF ReplyInv
    <3> DEFINE q == replies[cl]
               m == replies'[cl][i]
    <3>1. \/ i \in 1 .. Len(q) /\ m = q[i]
          \/ cl = ClientOf[r.id] /\ m = r
      <4>1. q \in Seq(NngReply) /\ Len(q) \in Nat
        BY <1>p
      <4>2. CASE cl = ClientOf[r.id]
        <5>1. replies'[cl] = Append(q, r)
          BY <1>p, <2>2, <4>2
        <5> QED BY <4>1, <4>2, <5>1, AppendFacts
      <4>3. CASE cl # ClientOf[r.id]
        <5>1. replies'[cl] = q
          BY <1>p, <2>2, <4>3
        <5> QED BY <5>1
      <4> QED BY <4>2, <4>3
    <3>2. CASE i \in 1 .. Len(q) /\ m = q[i]
      <4>1. ClientOf[q[i].id] = cl /\ q[i] \in answers[q[i].id] /\ q[i].id \in Calls
        BY <1>t, <3>2, PipeMembers DEF IInv, ReplyInv
      <4> QED BY <1>b, <3>2, <4>1
    <3>3. CASE cl = ClientOf[r.id] /\ m = r
      BY <1>p, <1>r, <2>2, <3>3
    <3> QED BY <3>1, <3>2, <3>3
  <2> QED BY <1>a, <2>1, <2>2
<1>4. CountInv'
  <2> SUFFICES ASSUME NEW c \in Calls
               PROVE  /\ runs[c] + Bit(Dispatching(c)') <= taken[c]
                      /\ taken[c] + InPipe(c)' <= copies[c]
                      /\ runs[c] + Bit(Dispatching(c)') + InPipe(c)' + Bit(Refused(c)') <= copies[c]
    BY DEF CountInv, Bit
  <2>1. /\ runs[c] + Bit(Dispatching(c)) <= taken[c]
        /\ taken[c] + InPipe(c) <= copies[c]
        /\ runs[c] + Bit(Dispatching(c)) + InPipe(c) + Bit(Refused(c)) <= copies[c]
    BY DEF IInv, CountInv
  <2>2. runs[c] \in Nat /\ taken[c] \in Nat /\ copies[c] \in Nat
    BY <1>t DEF TypeOK
  <2>3. Bit(Dispatching(c)') = 0 /\ Bit(Dispatching(c)) \in {0, 1}
    BY <1>s DEF Dispatching, Bit
  <2>4. /\ Bit(Refused(c)) \in {0, 1} /\ Bit(Refused(c)') \in {0, 1}
        /\ Bit(r.id = c) \in {0, 1}
    BY DEF Bit
  <2>5. \/ Bit(Refused(c)') = Bit(Refused(c))
        \/ r.status \in Refusals /\ Bit(r.id = c) = 1
    BY <1>b DEF Refused, Bit
  <2>6. /\ InPipe(c) \in Nat /\ InPipe(c)' \in Nat /\ InPipe(c)' <= InPipe(c)
        /\ r.status \in Refusals =>
             InPipe(c)' + Bit(r.id = c) <= InPipe(c) + Bit(Dispatching(c))
    OBVIOUS
  <2> QED BY <2>1, <2>2, <2>3, <2>4, <2>5, <2>6
<1>5. HandInv'
  BY <1>s DEF HandInv
<1>6. AnswerInv'
  BY <1>b DEF IInv, AnswerInv
<1>7. ResultInv'
  BY <1>b DEF IInv, ResultInv
<1> QED BY <1>1, <1>2, <1>3, <1>4, <1>5, <1>6, <1>7 DEF IInv

\* A copy that is received leaves its pipe, refused or accepted.
LEMMA TakeInv ==
  ASSUME IInv, TypeInv', NEW cl \in Clients, Take(cl)
  PROVE  IInv'
<1> USE RpcAssumption
<1>t. TypeOK /\ TypeOK'
  BY DEF IInv, TypeInv
<1>q. /\ requests[cl] # <<>> /\ requests[cl] \in Seq(Request)
      /\ requests' = [requests EXCEPT ![cl] = Tail(@)]
      /\ requests \in [Clients -> Seq(Request)]
      /\ server = "poll" /\ OthersUnchanged /\ UNCHANGED runs
  BY <1>t DEF Take, TypeOK
<1> DEFINE m == Head(requests[cl])
<1>m. m \in Request /\ m.id \in Calls /\ m = requests[cl][1] /\ Len(requests[cl]) > 0
      /\ Len(requests[cl]) \in Nat
  <2>1. m \in Request /\ m = requests[cl][1] /\ Len(requests[cl]) > 0 /\ Len(requests[cl]) \in Nat
    BY <1>q, HeadTailType
  <2> QED BY <2>1 DEF Request
<1>w. Waiting(cl, m)
  BY <1>m DEF IInv, RequestInv
<1>f. \A k \in Clients : From(requests'[k], requests[k])
  <2> SUFFICES ASSUME NEW k \in Clients
               PROVE  From(requests'[k], requests[k])
    OBVIOUS
  <2>1. requests[k] \in Seq(Request)
    BY <1>q
  <2>2. requests'[k] = requests[k] \/ (requests'[k] = Tail(requests[k]) /\ requests[k] # <<>>)
    BY <1>q
  <2> QED BY <2>1, <2>2, FromFacts
<1>c. \A c \in Calls : /\ InPipe(c) \in Nat /\ InPipe(c)' \in Nat
                       /\ InPipe(c)' + Bit(m.id = c) <= InPipe(c)
  BY <1>t, <1>q, <1>w, PipeTaken DEF Waiting
<1>d. \A c \in Calls : Bit(Dispatching(c)) = 0 /\ Bit(m.id = c) \in {0, 1}
  BY <1>q DEF Dispatching, Bit
<1>1. CASE NngRejection(m) # NoReply
  <2> DEFINE r == NngRejection(m)
  <2>1. Respond(r, TRUE) /\ UNCHANGED taken
    BY <1>1 DEF Take
  <2>2. r \in NngReply /\ r.id = m.id /\ r.status # "ok"
    BY <1>1, <1>m, NngRejectionType
  <2> HIDE DEF r, m
  <2>3. \A c \in Calls : /\ InPipe(c) \in Nat /\ InPipe(c)' \in Nat
                         /\ InPipe(c)' <= InPipe(c)
                         /\ InPipe(c)' + Bit(r.id = c) <= InPipe(c) + Bit(Dispatching(c))
    BY <1>c, <1>d, <2>2
  <2> QED BY <1>q, <1>f, <2>1, <2>2, <2>3, RespondInv
<1>2. CASE NngRejection(m) = NoReply
  <2>1. /\ server' = "dispatch" /\ current' = m
        /\ taken' = [taken EXCEPT ![m.id] = @ + 1]
        /\ UNCHANGED <<replies, answers>>
    BY ONLY <1>2, Take(cl) DEF Take
  <2>u. UNCHANGED <<now, callVars, outstanding, copies>>
    BY <1>q DEF OthersUnchanged
  <2>2. LockInv' /\ SocketInv' /\ TimeInv' /\ ReplyInv' /\ AnswerInv' /\ ResultInv'
    BY <1>q, <2>1, <2>u DEF IInv, LockInv, SocketInv, TimeInv, ReplyInv, AnswerInv, ResultInv,
                            callVars
  <2>3. RequestInv'
    BY <1>f, <2>u DEF IInv, RequestInv, Waiting, From, Expired, callVars
  <2>4. HandInv'
    BY <2>1 DEF HandInv
  <2>5. CountInv'
    <3> SUFFICES ASSUME NEW c \in Calls
                 PROVE  /\ runs[c] + Bit(Dispatching(c)') <= taken'[c]
                        /\ taken'[c] + InPipe(c)' <= copies[c]
                        /\ runs[c] + Bit(Dispatching(c)') + InPipe(c)' + Bit(Refused(c)) <= copies[c]
      BY <1>q, <2>1, <2>u DEF CountInv, Refused, Bit
    <3>1. /\ runs[c] + Bit(Dispatching(c)) <= taken[c]
          /\ taken[c] + InPipe(c) <= copies[c]
          /\ runs[c] + Bit(Dispatching(c)) + InPipe(c) + Bit(Refused(c)) <= copies[c]
      BY DEF IInv, CountInv
    <3>2. runs[c] \in Nat /\ taken[c] \in Nat /\ copies[c] \in Nat
      BY <1>t DEF TypeOK
    <3>3. taken'[c] = taken[c] + Bit(m.id = c)
      <4>1. taken \in [Calls -> Nat]
        BY <1>t DEF TypeOK
      <4> HIDE DEF m
      <4> QED BY <1>m, <2>1, <3>2, <4>1 DEF Bit
    <3>4. Bit(Dispatching(c)') = Bit(m.id = c)
      BY <2>1 DEF Dispatching, Bit
    <3>5. Bit(Refused(c)) \in {0, 1}
      BY DEF Bit
    <3> HIDE DEF m
    <3> QED BY <1>c, <1>d, <3>1, <3>2, <3>3, <3>4, <3>5
  <2> QED BY <2>2, <2>3, <2>4, <2>5 DEF IInv
<1> QED BY <1>1, <1>2

\* The copies in the pipes stay where they are.
LEMMA PipeStays ==
  ASSUME TypeOK, UNCHANGED requests
  PROVE  /\ \A cl \in Clients : From(requests'[cl], requests[cl])
         /\ \A c \in Calls : InPipe(c) \in Nat /\ InPipe(c)' = InPipe(c)
<1>1. \A cl \in Clients : requests[cl] \in Seq(Request)
  BY DEF TypeOK
<1>2. \A cl \in Clients : From(requests'[cl], requests[cl])
  BY <1>1, FromFacts
<1>3. \A c \in Calls : InPipe(c) \in Nat
  BY PipeShrinks
<1> QED BY <1>2, <1>3 DEF InPipe

\* An accepted copy is refused after all, or its handler starts.
LEMMA DispatchInv ==
  ASSUME IInv, TypeInv', Dispatch
  PROVE  IInv'
<1> USE RpcAssumption
<1>t. TypeOK /\ TypeOK'
  BY DEF IInv, TypeInv
<1>h. /\ current \in Request /\ server = "dispatch"
      /\ OthersUnchanged /\ UNCHANGED <<requests, taken>>
  BY DEF Dispatch, IInv, TypeInv, InHand
<1>i. PICK d \in Calls : d = current.id
  BY <1>h DEF Request
<1>p. /\ \A cl \in Clients : From(requests'[cl], requests[cl])
      /\ \A c \in Calls : InPipe(c) \in Nat /\ InPipe(c)' = InPipe(c)
  BY <1>t, <1>h, PipeStays
<1>d. \A c \in Calls : Bit(Dispatching(c)) = Bit(d = c) /\ Bit(d = c) \in {0, 1}
  BY <1>h, <1>i DEF Dispatching, Bit
<1>1. CASE current.shape = "undecodable"
  <2> DEFINE r == Failure(current, "invalid_argument")
  <2>1. Respond(r, routable) /\ UNCHANGED runs
    BY <1>1 DEF Dispatch
  <2>2. r \in NngReply /\ r.id = d /\ r.status = "invalid_argument"
    BY <1>i, FailureType DEF Failures, Reply, NngReply
  <2>3. routable \in BOOLEAN
    BY <1>t DEF TypeOK
  <2> HIDE DEF r
  <2>4. \A c \in Calls : /\ InPipe(c) \in Nat /\ InPipe(c)' \in Nat
                         /\ InPipe(c)' <= InPipe(c)
                         /\ InPipe(c)' + Bit(r.id = c) <= InPipe(c) + Bit(Dispatching(c))
    BY <1>p, <1>d, <2>2
  <2> QED BY <1>h, <1>p, <2>1, <2>2, <2>3, <2>4, RespondInv
<1>2. CASE current.shape # "undecodable"
  <2>1. /\ server' = "handler" /\ runs' = [runs EXCEPT ![current.id] = @ + 1]
        /\ UNCHANGED <<current, routable, replies, answers>>
    BY ONLY <1>2, Dispatch DEF Dispatch
  <2>2. \A c \in Calls : /\ runs'[c] = runs[c] + Bit(d = c)
                         /\ runs[c] \in Nat /\ runs'[c] \in Nat
    <3>1. \A c \in Calls : runs[c] \in Nat
      BY <1>t DEF TypeOK
    <3>2. runs \in [Calls -> Nat] /\ runs' = [runs EXCEPT ![d] = @ + 1]
      BY <1>t, <1>i, <2>1 DEF TypeOK
    <3> QED BY <3>1, <3>2 DEF Bit
  <2>u. UNCHANGED <<now, callVars, outstanding, copies>>
    BY <1>h DEF OthersUnchanged
  <2>3. LockInv' /\ SocketInv' /\ TimeInv' /\ ReplyInv' /\ ResultInv'
    BY <1>h, <2>1, <2>u DEF IInv, LockInv, SocketInv, TimeInv, ReplyInv, ResultInv, callVars
  <2>4. RequestInv'
    BY <1>h, <2>u DEF IInv, RequestInv, Waiting, Expired, callVars
  <2>5. HandInv'
    <3>1. runs'[d] > 0
      BY <2>2 DEF Bit
    <3> QED BY <1>i, <2>1, <3>1 DEF HandInv
  <2>6. AnswerInv'
    <3>1. \A c \in Calls : runs[c] > 0 => runs'[c] > 0
      BY <2>2 DEF Bit
    <3> QED BY <2>1, <3>1 DEF IInv, AnswerInv
  <2>7. CountInv'
    <3> SUFFICES ASSUME NEW c \in Calls
                 PROVE  /\ runs'[c] + Bit(Dispatching(c)') <= taken[c]
                        /\ taken[c] + InPipe(c)' <= copies[c]
                        /\ runs'[c] + Bit(Dispatching(c)') + InPipe(c)' + Bit(Refused(c)) <= copies[c]
      BY <1>h, <2>1, <2>u DEF CountInv, Refused, Bit
    <3>1. /\ runs[c] + Bit(Dispatching(c)) <= taken[c]
          /\ taken[c] + InPipe(c) <= copies[c]
          /\ runs[c] + Bit(Dispatching(c)) + InPipe(c) + Bit(Refused(c)) <= copies[c]
      BY DEF IInv, CountInv
    <3>2. runs[c] \in Nat /\ taken[c] \in Nat /\ copies[c] \in Nat
      BY <1>t DEF TypeOK
    <3>3. Bit(Dispatching(c)') = 0
      BY <2>1 DEF Dispatching, Bit
    <3>4. Bit(Refused(c)) \in {0, 1}
      BY DEF Bit
    <3> QED BY <1>p, <1>d, <2>2, <3>1, <3>2, <3>3, <3>4
  <2> QED BY <2>3, <2>4, <2>5, <2>6, <2>7 DEF IInv
<1> QED BY <1>1, <1>2

\* What the handler returned or raised is reported after it ran, or lost.
LEMMA HandlerEndInv ==
  ASSUME IInv, TypeInv', NEW e \in HandlerEnds, HandlerEnd(e)
  PROVE  IInv'
<1> USE RpcAssumption
<1>t. TypeOK /\ TypeOK'
  BY DEF IInv, TypeInv
<1>h. /\ current \in Request /\ current.id \in Calls /\ runs[current.id] > 0
      /\ OthersUnchanged /\ UNCHANGED <<requests, taken, runs>>
  BY DEF HandlerEnd, IInv, TypeInv, InHand, HandInv, Request
<1>p. /\ \A cl \in Clients : From(requests'[cl], requests[cl])
      /\ \A c \in Calls : InPipe(c) \in Nat /\ InPipe(c)' = InPipe(c)
  BY <1>t, <1>h, PipeStays
<1>1. CASE Encodable(e)
  <2> DEFINE r == Report(current, e)
  <2>1. Respond(r, routable) /\ routable \in BOOLEAN
    BY <1>1, <1>t DEF HandlerEnd, TypeOK
  <2>2. r \in NngReply /\ r.id = current.id /\ r.status \notin Refusals
    BY <1>1, <1>h, NngReportType
  <2> HIDE DEF r
  <2>3. \A c \in Calls : InPipe(c) \in Nat /\ InPipe(c)' \in Nat /\ InPipe(c)' <= InPipe(c)
    BY <1>p
  <2> QED BY <1>h, <1>p, <2>1, <2>2, <2>3, RespondInv
<1>2. CASE ~Encodable(e)
  <2>1. server' = "idle" /\ UNCHANGED <<replies, answers>>
    BY ONLY <1>2, HandlerEnd(e) DEF HandlerEnd
  <2>2. \A cl \in Clients : From(replies'[cl], replies[cl])
    BY <1>t, <2>1, FromFacts DEF TypeOK
  <2>3. UNCHANGED <<callVars, history, now, outstanding>>
    BY <1>h, <2>1 DEF OthersUnchanged, history
  <2>4. now <= now'
    BY <1>t, <2>3 DEF TypeOK
  <2> QED BY <1>h, <2>1, <2>2, <2>3, <2>4, QuietInv DEF Quiet
<1> QED BY <1>1, <1>2

\* What the socket gives a call is one of the server's answers to that call:
\* the call that holds the lock is the one whose request the socket keeps.
LEMMA ReceivedAnswer ==
  ASSUME IInv, NEW c \in Calls, Receive(c)
  PROVE  /\ Head(replies[ClientOf[c]]) \in answers[c]
         /\ Head(replies[ClientOf[c]]) \in NngReply
         /\ \A cl \in Clients : From(replies'[cl], replies[cl])
<1> USE RpcAssumption
<1> DEFINE cl == ClientOf[c]
           q == replies[cl]
           r == Head(q)
<1>t. TypeOK
  BY DEF IInv, TypeInv
<1>1. /\ pc[c] = "recv" /\ q # <<>> /\ r.id = outstanding[cl]
      /\ replies' = [replies EXCEPT ![cl] = Tail(@)]
      /\ replies \in [Clients -> Seq(NngReply)] /\ cl \in Clients
  BY <1>t DEF Receive, TypeOK
<1>2. r \in NngReply /\ r = q[1] /\ Len(q) > 0 /\ Len(q) \in Nat
  BY <1>1, HeadTailType
<1>3. r.id \in Calls /\ r \in answers[r.id]
  <2>1. r.id \in Calls
    BY <1>2 DEF NngReply
  <2>2. q[1] \in answers[q[1].id]
    BY <1>1, <1>2 DEF IInv, ReplyInv
  <2> HIDE DEF r, q
  <2> QED BY <1>2, <2>1, <2>2
<1>4. outstanding[cl] = c
  <2>1. /\ outstanding[cl] \in Calls /\ ClientOf[outstanding[cl]] = cl
        /\ pc[outstanding[cl]] = "recv"
    BY <1>1, <1>3 DEF IInv, SocketInv
  <2> QED BY <1>1, <2>1 DEF IInv, LockInv
<1>5. \A k \in Clients : From(replies'[k], replies[k])
  <2> SUFFICES ASSUME NEW k \in Clients
               PROVE  From(replies'[k], replies[k])
    OBVIOUS
  <2>1. replies[k] \in Seq(NngReply)
    BY <1>1
  <2>2. replies'[k] = replies[k] \/ (replies'[k] = Tail(replies[k]) /\ replies[k] # <<>>)
    BY <1>1
  <2> QED BY <2>1, <2>2, FromFacts
<1> QED BY <1>1, <1>2, <1>3, <1>4, <1>5

\* Every step of a call keeps the invariant.
LEMMA CallInv ==
  ASSUME IInv, TypeInv', NEW c \in Calls, Begin(c) \/ BeginFails(c) \/ CallStep(c)
  PROVE  IInv'
<1> USE RpcAssumption
<1>t. TypeOK
  BY DEF IInv, TypeInv
<1>a. ASSUME NEW res \in LocalErrors \cup {"raw_error"}, Finish(c, res), pc[c] # "done",
             res = "timeout" /\ pc[c] = "recv" => Expired(until[c]),
             UNCHANGED <<now, requests, replies, loopVars, history>>
      PROVE  IInv'
  <2>1. res \in NngResults /\ res \notin {"ok"} \cup Failures
    BY DEF NngResults, Results, LocalErrors, Failures
  <2>2. \A cl \in Clients : From(replies'[cl], replies[cl])
    BY <1>t, <1>a, FromFacts DEF TypeOK
  <2> QED BY <1>a, <2>1, <2>2, FinishInv
<1>e. {"timeout", "transport_error", "protocol_error"} = LocalErrors
  BY DEF LocalErrors
<1>1. CASE Begin(c)
  BY <1>1, BeginInv
<1>2. CASE BeginFails(c)
  BY <1>2, <1>a, <1>e DEF BeginFails
<1>3. CASE Acquire(c)
  <2>1. CASE SocketOpen(c)
    BY <1>3, <2>1, BeginInv
  <2>2. CASE ~SocketOpen(c)
    BY <1>3, <1>a, <2>2 DEF Acquire
  <2> QED BY <2>1, <2>2
<1>4. CASE Send(c)
  <2>1. /\ pc[c] = "locked" /\ pc' = [pc EXCEPT ![c] = "recv"]
        /\ requests' = [requests EXCEPT ![ClientOf[c]] = Append(@, Copy(c))]
        /\ copies' = [copies EXCEPT ![c] = @ + 1]
        /\ outstanding' = [outstanding EXCEPT ![ClientOf[c]] = c]
        /\ UNCHANGED <<now, deadline, shape, result, timeout, lock, replies, loopVars,
                       taken, runs, answers>>
    BY <1>4 DEF Send
  <2>2. pc'[c] = "recv"
    BY <1>t, <2>1 DEF TypeOK
  <2>3. /\ \A d \in Calls : d # c => until'[d] = until[d]
        /\ until'[c] = IF timeout[c] = NoDeadline THEN NoDeadline
                       ELSE IF now + timeout[c] < MaxTime THEN now + timeout[c] ELSE MaxTime
    BY <1>4, <1>t DEF Send, TypeOK
  <2>4. /\ timeout[c] = NoDeadline <=> deadline[c] = NoDeadline
        /\ timeout[c] # NoDeadline => deadline[c] <= now + timeout[c]
        /\ deadline[c] \in -1 .. MaxTime /\ timeout[c] \in -1 .. MaxTime /\ now \in 0 .. MaxTime
    BY <1>t, <2>1 DEF IInv, TimeInv, TypeOK
  <2>5. until'[c] # NoDeadline => deadline[c] # NoDeadline /\ deadline[c] <= until'[c]
    BY <2>3, <2>4
  <2> QED BY <2>1, <2>2, <2>3, <2>5, TransmitInv
<1>5. CASE SendFails(c)
  BY <1>5, <1>a, <1>e DEF SendFails
<1>6. CASE Receive(c)
  <2> DEFINE r == Head(replies[ClientOf[c]])
  <2>1. r \in answers[c] /\ r \in NngReply
        /\ \A cl \in Clients : From(replies'[cl], replies[cl])
    BY <1>6, ReceivedAnswer
  <2>2. /\ Finish(c, NngOutcome(r)) /\ pc[c] = "recv"
        /\ UNCHANGED <<now, requests, loopVars, history>>
    BY <1>6 DEF Receive
  <2>3. NngOutcome(r) \in NngResults /\ NngOutcome(r) # "timeout"
    <3>1. NngOutcome(r) # "timeout"
      BY <2>1 DEF NngOutcome, Outcome, NngReply, Failures
    <3> QED BY <2>1, <3>1, ResultType
  <2> HIDE DEF r
  <2> QED BY <2>1, <2>2, <2>3, FinishInv
<1>7. CASE RecvFails(c)
  BY <1>7, <1>a, <1>e DEF RecvFails
<1> QED BY <1>1, <1>2, <1>3, <1>4, <1>5, <1>6, <1>7 DEF CallStep

\* The steps that concern no call and no request in hand.
OtherStep == \/ Tick
             \/ \E cl \in Clients : \/ CloseSocket(cl) \/ CloseFlag(cl) \/ Discard(cl)
                                    \/ LoseConnection(cl) \/ ResendTimer(cl)
             \/ ServeForever \/ ClearStopping \/ LoopTest \/ PollEnds
             \/ Stop \/ CloseServer \/ CloseServerSocket \/ Crash \/ Restart

LEMMA OtherQuiet == TypeOK /\ OtherStep => Quiet
<1> SUFFICES ASSUME TypeOK, OtherStep
             PROVE  Quiet
  OBVIOUS
<1>p. /\ now \in Nat
      /\ outstanding \in [Clients -> Calls \cup {NoCall}]
      /\ requests \in [Clients -> Seq(Request)] /\ replies \in [Clients -> Seq(NngReply)]
  BY RpcAssumption DEF TypeOK
<1>f. \A cl \in Clients : /\ From(replies[cl], replies[cl]) /\ From(<<>>, replies[cl])
                          /\ replies[cl] # <<>> => From(Tail(replies[cl]), replies[cl])
  BY <1>p, FromFacts
<1> USE DEF callVars, pipeVars, loopVars, history, OthersUnchanged, Jump
<1>s. ASSUME UNCHANGED <<callVars, history, outstanding, requests, replies>>, now <= now',
             UNCHANGED <<server, current>> \/ server' \notin {"dispatch", "handler"}
      PROVE  Quiet
  <2>1. \A cl \in Clients : From(replies'[cl], replies[cl])
    BY <1>f, <1>s
  <2> QED BY <1>s, <2>1 DEF Quiet
<1>b. ASSUME NEW cls, Break(cls), UNCHANGED <<callVars, history, now, outstanding>>,
             UNCHANGED <<server, current>> \/ server' = "idle"
      PROVE  Quiet
  <2>1. \A cl \in Clients : /\ requests'[cl] \in {requests[cl], <<>>}
                            /\ replies'[cl] = replies[cl] \/ replies'[cl] = <<>>
    BY <1>b DEF Break
  <2>2. \A cl \in Clients : From(replies'[cl], replies[cl])
    BY <1>f, <2>1
  <2> QED BY <1>b, <1>p, <2>1, <2>2 DEF Quiet
<1>1. CASE Tick
  BY <1>1, <1>p, <1>s DEF Tick
<1>2. ASSUME NEW k \in Clients, CloseSocket(k)
      PROVE  Quiet
  <2>1. UNCHANGED <<callVars, history, now, server, current>>
    BY <1>2 DEF CloseSocket
  <2>2. PICK kept \in {<<>>, requests[k]} : requests' = [requests EXCEPT ![k] = kept]
    BY <1>2 DEF CloseSocket
  <2>3. \A cl \in Clients : requests'[cl] \in {requests[cl], <<>>}
    BY <1>p, <2>2
  <2>4. \A cl \in Clients : outstanding'[cl] \in {outstanding[cl], NoCall}
    BY <1>2, <1>p DEF CloseSocket
  <2>5. \A cl \in Clients : From(replies'[cl], replies[cl])
    <3>1. \A cl \in Clients : replies'[cl] = replies[cl] \/ replies'[cl] = <<>>
      BY <1>2, <1>p DEF CloseSocket
    <3> QED BY <1>f, <3>1
  <2> QED BY <1>p, <2>1, <2>3, <2>4, <2>5 DEF Quiet
<1>3. ASSUME NEW k \in Clients, CloseFlag(k) \/ ResendTimer(k)
      PROVE  Quiet
  BY <1>3, <1>p, <1>s DEF CloseFlag, ResendTimer
<1>4. ASSUME NEW k \in Clients, Discard(k)
      PROVE  Quiet
  <2>1. UNCHANGED <<callVars, history, now, server, current, outstanding, requests>>
    BY <1>4 DEF Discard
  <2>2. \A cl \in Clients : \/ replies'[cl] = replies[cl]
                            \/ replies'[cl] = Tail(replies[cl]) /\ replies[cl] # <<>>
    BY <1>4, <1>p DEF Discard
  <2>3. \A cl \in Clients : From(replies'[cl], replies[cl])
    BY <1>f, <2>2
  <2> QED BY <1>p, <2>1, <2>3 DEF Quiet
<1>5. ASSUME NEW k \in Clients, LoseConnection(k)
      PROVE  Quiet
  BY <1>5, <1>b DEF LoseConnection
<1>6. CASE ServeForever \/ ClearStopping \/ LoopTest \/ PollEnds \/ Stop \/ CloseServer \/ Restart
  <2>1. UNCHANGED <<callVars, history, now, outstanding, requests, replies>>
    BY <1>6 DEF ServeForever, ClearStopping, LoopTest, PollEnds, Stop, CloseServer, Restart
  <2>2. UNCHANGED <<server, current>> \/ server' \notin {"dispatch", "handler"}
    BY <1>6 DEF ServeForever, ClearStopping, LoopTest, PollEnds, Stop, CloseServer, Restart
  <2> QED BY <1>p, <1>s, <2>1, <2>2
<1>7. CASE CloseServerSocket \/ Crash
  BY <1>7, <1>b DEF CloseServerSocket, Crash
<1> QED BY <1>1, <1>2, <1>3, <1>4, <1>5, <1>6, <1>7 DEF OtherStep

\* A request that NNG transmits again is that of a call still waiting.
LEMMA ResendInv ==
  ASSUME IInv, TypeInv', NEW cl \in Clients, Resend(cl)
  PROVE  /\ outstanding[cl] \in Calls
         /\ pc[outstanding[cl]] = "recv"
         /\ IInv'
<1>1. outstanding[cl] # NoCall
  BY DEF Resend, IInv, TypeInv, Owed
<1>2. PICK c \in Calls : c = outstanding[cl]
  BY <1>1 DEF IInv, TypeInv, TypeOK
<1>3. ClientOf[c] = cl /\ pc[c] = "recv"
  BY <1>1, <1>2 DEF IInv, SocketInv
<1>4. /\ requests' = [requests EXCEPT ![ClientOf[c]] = Append(@, Copy(c))]
      /\ copies' = [copies EXCEPT ![c] = @ + 1]
      /\ UNCHANGED <<now, pc, until, outstanding, deadline, shape, result, timeout, lock,
                     replies, loopVars, taken, runs, answers>>
  BY <1>2, <1>3 DEF Resend, callVars
<1>5. IInv'
  BY <1>3, <1>4, TransmitInv
<1> QED BY <1>2, <1>3, <1>5

\* The invariant holds at the start.
LEMMA InitInv == Init => IInv
<1> SUFFICES ASSUME Init
             PROVE  IInv
  OBVIOUS
<1>t. TypeInv
  BY InitType
<1> USE RpcAssumption DEF Init
<1>1. LockInv /\ SocketInv /\ TimeInv /\ HandInv /\ AnswerInv
  BY DEF LockInv, SocketInv, TimeInv, HandInv, AnswerInv
<1>2. RequestInv /\ ReplyInv
  BY DEF RequestInv, ReplyInv
<1>3. CountInv
  <2>1. \A c \in Calls : InPipe(c) = 0
    BY PositionsEmpty DEF InPipe
  <2>2. \A c \in Calls : Bit(Dispatching(c)) = 0 /\ Bit(Refused(c)) = 0
    BY DEF Dispatching, Refused, Bit
  <2> SUFFICES ASSUME NEW c \in Calls
               PROVE  /\ runs[c] + Bit(Dispatching(c)) <= taken[c]
                      /\ taken[c] + InPipe(c) <= copies[c]
                      /\ runs[c] + Bit(Dispatching(c)) + InPipe(c) + Bit(Refused(c)) <= copies[c]
    BY DEF CountInv
  <2>3. runs[c] = 0 /\ taken[c] = 0 /\ copies[c] = 0
    OBVIOUS
  <2>4. InPipe(c) = 0 /\ Bit(Dispatching(c)) = 0 /\ Bit(Refused(c)) = 0
    BY <2>1, <2>2
  <2> QED BY ONLY <2>3, <2>4
<1>4. ResultInv
  BY DEF ResultInv, Failures
<1> QED BY <1>t, <1>1, <1>2, <1>3, <1>4 DEF IInv

\* And is kept by every step.
LEMMA NextInv == IInv /\ [Next]_vars => IInv'
<1> SUFFICES ASSUME IInv, [Next]_vars
             PROVE  IInv'
  OBVIOUS
<1>t. TypeInv' /\ TypeOK
  BY NextType DEF IInv, TypeInv
<1>1. CASE UNCHANGED vars
  <2>1. /\ UNCHANGED <<callVars, history, server, current, outstanding, requests, replies>>
        /\ now <= now'
    BY <1>1, <1>t, RpcAssumption DEF vars, pipeVars, loopVars, TypeOK
  <2>2. \A cl \in Clients : From(replies'[cl], replies[cl])
    BY <1>t, <2>1, FromFacts DEF TypeOK
  <2> QED BY <1>t, <2>1, <2>2, QuietInv DEF Quiet
<1>2. ASSUME NEW c \in Calls, Begin(c) \/ BeginFails(c) \/ CallStep(c)
      PROVE  IInv'
  BY <1>2, <1>t, CallInv
<1>3. CASE OtherStep
  BY <1>3, <1>t, OtherQuiet, QuietInv
<1>4. ASSUME NEW cl \in Clients, Take(cl) \/ Resend(cl)
      PROVE  IInv'
  BY <1>4, <1>t, TakeInv, ResendInv
<1>5. CASE Dispatch
  BY <1>5, <1>t, DispatchInv
<1>6. ASSUME NEW e \in HandlerEnds, HandlerEnd(e)
      PROVE  IInv'
  BY <1>6, <1>t, HandlerEndInv
<1> QED BY <1>1, <1>2, <1>3, <1>4, <1>5, <1>6 DEF Next, ServerStep, OtherStep

-----------------------------------------------------------------------------
(* What follows from the invariant.                                        *)

\* However often a request was transmitted, "ok" is told only of a call whose
\* handler ran, and a refusal only of one of which a copy did not reach it.
THEOREM OutcomesHonest == Spec => []HonestOutcome
<1>1. IInv => HonestOutcome
  <2> SUFFICES ASSUME IInv, NEW c \in Calls
               PROVE  /\ result[c] = "ok" => runs[c] > 0
                      /\ result[c] \in Refusals => runs[c] < copies[c]
    BY DEF HonestOutcome
  <2>1. result[c] \in {"ok"} \cup Failures => \E r \in answers[c] : NngOutcome(r) = result[c]
    BY DEF IInv, ResultInv
  <2>2. \A r \in answers[c] : r.status = "ok" => runs[c] > 0
    BY DEF IInv, AnswerInv
  <2>3. CASE result[c] = "ok"
    <3>1. PICK r \in answers[c] : NngOutcome(r) = "ok"
      BY <2>1, <2>3
    <3>2. r \in NngReply
      BY DEF IInv, TypeInv, TypeOK
    <3>3. r.status = "ok"
      BY <3>1, <3>2 DEF NngOutcome, Outcome
    <3> QED BY <2>2, <2>3, <3>3 DEF Refusals
  <2>4. CASE result[c] \in Refusals
    <3>1. PICK r \in answers[c] : NngOutcome(r) \in Refusals
      BY <2>1, <2>4 DEF Refusals, Failures
    <3>2. r.status \in Refusals
      BY <3>1 DEF NngOutcome, Outcome, Refusals
    <3>3. Bit(Refused(c)) = 1
      BY <3>2 DEF Refused, Bit
    <3>4. Bit(Dispatching(c)) \in {0, 1}
      BY DEF Bit
    <3>5. InPipe(c) \in Nat
      BY InPipeType DEF IInv, TypeInv
    <3>6. /\ runs[c] + Bit(Dispatching(c)) + InPipe(c) + Bit(Refused(c)) <= copies[c]
          /\ runs[c] \in Nat /\ copies[c] \in Nat
      BY DEF IInv, CountInv, TypeInv, TypeOK
    <3>7. runs[c] < copies[c]
      BY <3>3, <3>4, <3>5, <3>6
    <3> QED BY <2>4, <3>7 DEF Refusals
  <2> QED BY <2>3, <2>4
<1> QED BY <1>1, InitInv, NextInv, PTL DEF Spec

-----------------------------------------------------------------------------
(* NngRpc implements RepeatedRpc.                                          *)

\* How RepeatedRpc sees the calls.
CallView == [c \in Calls |-> IF pc[c] = "idle" THEN "idle"
                             ELSE IF pc[c] = "done" THEN result[c] ELSE "open"]

\* A call that is at work is open.
LEMMA OpenView ==
  ASSUME NEW c \in Calls
  PROVE  /\ pc[c] = "idle" => CallView[c] = "idle"
         /\ pc[c] \in {"ready", "locked", "recv"} => CallView[c] = "open"
<1> QED BY DEF CallView

\* How RepeatedRpc sees the end of a call.
LEMMA FinishView ==
  ASSUME TypeOK, NEW c \in Calls, NEW res, Finish(c, res)
  PROVE  CallView' = [CallView EXCEPT ![c] = res]
<1> QED BY DEF TypeOK, Finish, CallView

\* A call that gives up does so there too.
LEMMA FinishGivesUp ==
  ASSUME TypeOK, UNCHANGED history, NEW c \in Calls,
         pc[c] \in {"idle", "ready", "locked", "recv"},
         NEW res \in LocalErrors \cup {"raw_error"}, Finish(c, res)
  PROVE  Repeated!Next
<1>1. CallView' = [CallView EXCEPT ![c] = res]
  BY FinishView
<1>2. CallView[c] \in {"idle", "open"}
  BY OpenView
<1>3. UNCHANGED <<copies, taken, runs, answers>>
  BY DEF history
<1>4. Repeated!GiveUp(c, res)
  BY <1>1, <1>2, <1>3 DEF Repeated!GiveUp, CallView
<1> QED BY <1>4 DEF Repeated!Next

\* A request is transmitted, and transmitted again, while its call is open.
LEMMA TransmitRefines ==
  ASSUME NEW c \in Calls, pc[c] \in {"locked", "recv"}, UNCHANGED CallView,
         copies' = [copies EXCEPT ![c] = @ + 1], UNCHANGED <<taken, runs, answers>>
  PROVE  Repeated!Next
<1>1. CallView[c] = "open"
  BY OpenView
<1>2. Repeated!Transmit(c)
  BY <1>1 DEF Repeated!Transmit, CallView
<1> QED BY <1>2 DEF Repeated!Next

\* Each step of a call is a step of RepeatedRpc or none.
LEMMA CallRefines ==
  ASSUME IInv, NEW c \in Calls, Begin(c) \/ BeginFails(c) \/ CallStep(c)
  PROVE  [Repeated!Next]_(Repeated!rvars)
<1>t. TypeOK
  BY DEF IInv, TypeInv
<1>u. UNCHANGED <<CallView, history>> => UNCHANGED Repeated!rvars
  BY DEF Repeated!rvars, CallView, history
<1>e. {"timeout", "transport_error", "protocol_error"} = LocalErrors
  BY DEF LocalErrors
<1>g. ASSUME NEW label \in {"locked", "recv"}, pc' = [pc EXCEPT ![c] = label],
             pc[c] \in {"ready", "locked"}, UNCHANGED result
      PROVE  CallView' = CallView
  BY <1>g, <1>t DEF CallView, TypeOK
<1>1. CASE Begin(c)
  <2>1. pc[c] = "idle" /\ pc' = [pc EXCEPT ![c] = "ready"] /\ UNCHANGED <<result, history>>
    BY <1>1 DEF Begin
  <2>2. CallView[c] = "idle" /\ CallView' = [CallView EXCEPT ![c] = "open"]
    BY <1>t, <2>1 DEF CallView, TypeOK
  <2>3. Repeated!Issue(c)
    BY <2>1, <2>2 DEF Repeated!Issue, CallView, history
  <2> QED BY <2>3 DEF Repeated!Next
<1>2. CASE BeginFails(c) \/ SendFails(c) \/ RecvFails(c)
  <2>1. PICK res \in LocalErrors \cup {"raw_error"} : Finish(c, res)
    BY <1>2, <1>e DEF BeginFails, SendFails, RecvFails
  <2>2. pc[c] \in {"idle", "locked", "recv"} /\ UNCHANGED history
    BY <1>2 DEF BeginFails, SendFails, RecvFails
  <2> QED BY <1>t, <2>1, <2>2, FinishGivesUp
<1>3. CASE Acquire(c)
  <2>1. pc[c] = "ready" /\ UNCHANGED history
    BY <1>3 DEF Acquire
  <2>2. CASE SocketOpen(c)
    BY <1>3, <1>g, <1>u, <2>1, <2>2 DEF Acquire
  <2>3. CASE ~SocketOpen(c)
    BY <1>3, <1>t, <2>1, <2>3, FinishGivesUp DEF Acquire
  <2> QED BY <2>2, <2>3
<1>4. CASE Send(c)
  <2>1. /\ pc[c] = "locked" /\ pc' = [pc EXCEPT ![c] = "recv"]
        /\ copies' = [copies EXCEPT ![c] = @ + 1] /\ UNCHANGED <<result, taken, runs, answers>>
    BY <1>4 DEF Send
  <2> QED BY <1>g, <2>1, TransmitRefines
<1>5. CASE Receive(c)
  <2> DEFINE r == Head(replies[ClientOf[c]])
  <2>1. r \in answers[c] /\ r \in NngReply
    BY <1>5, ReceivedAnswer
  <2>2. pc[c] = "recv" /\ Finish(c, NngOutcome(r)) /\ UNCHANGED history
    BY <1>5 DEF Receive
  <2> HIDE DEF r
  <2>3. CallView' = [CallView EXCEPT ![c] = NngOutcome(r)] /\ CallView[c] = "open"
    BY <1>t, <2>2, FinishView, OpenView
  <2>4. [a \in NngReply |-> NngOutcome(a)][r] = NngOutcome(r)
    BY <2>1
  <2>5. Repeated!Return(c)
    BY <2>1, <2>2, <2>3, <2>4 DEF Repeated!Return, CallView, history
  <2> QED BY <2>5 DEF Repeated!Next
<1> QED BY <1>1, <1>2, <1>3, <1>4, <1>5 DEF CallStep

\* To respond is to answer a call whose request was transmitted, or nothing.
LEMMA RespondRefines ==
  ASSUME NEW r \in NngReply, NEW there \in BOOLEAN, Respond(r, there), copies[r.id] > 0,
         r.status = "ok" => runs[r.id] > 0,
         UNCHANGED <<CallView, copies, taken, runs>>
  PROVE  [Repeated!Next]_(Repeated!rvars)
<1>1. r.id \in Calls
  BY DEF NngReply
<1>2. CASE UNCHANGED answers
  BY <1>2 DEF Repeated!rvars, CallView
<1>3. CASE answers' = [answers EXCEPT ![r.id] = @ \cup {r}]
  <2>1. Repeated!Answer(r.id, r)
    BY <1>3 DEF Repeated!Answer, CallView
  <2> QED BY <1>1, <2>1 DEF Repeated!Next
<1> QED BY <1>2, <1>3 DEF Respond

\* Each step of the server that concerns a request is a step of RepeatedRpc or
\* none: a copy that is accepted is one whose call has not timed out.
LEMMA ServerRefines ==
  ASSUME IInv,
         \/ \E cl \in Clients : Take(cl)
         \/ Dispatch
         \/ \E e \in HandlerEnds : HandlerEnd(e)
  PROVE  [Repeated!Next]_(Repeated!rvars)
<1> USE RpcAssumption
<1>t. TypeOK
  BY DEF IInv, TypeInv
<1>v. UNCHANGED <<CallView, copies>>
  BY DEF Take, Dispatch, HandlerEnd, OthersUnchanged, callVars, CallView
<1>n. \A c \in Calls : /\ runs[c] \in Nat /\ taken[c] \in Nat /\ copies[c] \in Nat
                       /\ InPipe(c) \in Nat
                       /\ Bit(Refused(c)) \in {0, 1}
                       /\ Bit(Dispatching(c)) = IF Dispatching(c) THEN 1 ELSE 0
                       /\ runs[c] + Bit(Dispatching(c)) <= taken[c]
                       /\ taken[c] + InPipe(c) <= copies[c]
  <2>1. \A c \in Calls : Bit(Refused(c)) \in {0, 1}
                         /\ Bit(Dispatching(c)) = IF Dispatching(c) THEN 1 ELSE 0
    BY DEF Bit
  <2>2. \A c \in Calls : InPipe(c) \in Nat
    BY <1>t, InPipeType
  <2> QED BY <1>t, <2>1, <2>2 DEF IInv, CountInv, TypeOK
<1>1. ASSUME NEW cl \in Clients, Take(cl)
      PROVE  [Repeated!Next]_(Repeated!rvars)
  <2> DEFINE m == Head(requests[cl])
  <2>q. /\ requests[cl] # <<>> /\ requests[cl] \in Seq(Request)
        /\ requests' = [requests EXCEPT ![cl] = Tail(@)] /\ UNCHANGED runs
    BY <1>1, <1>t DEF Take, TypeOK
  <2>m. /\ m \in Request /\ m = requests[cl][1]
        /\ Len(requests[cl]) > 0 /\ Len(requests[cl]) \in Nat
    BY <2>q, HeadTailType
  <2>c. PICK c \in Calls : c = m.id
    BY <2>m DEF Request
  <2>w. Waiting(cl, m)
    BY <2>m DEF IInv, RequestInv
  <2>p. InPipe(c) \in Nat /\ InPipe(c)' \in Nat /\ InPipe(c)' + Bit(m.id = c) <= InPipe(c)
    BY <1>t, <2>q, <2>w, PipeTaken DEF Waiting
  <2>b. Bit(m.id = c) = 1
    BY <2>c DEF Bit
  <2>k. taken[c] < copies[c] /\ copies[c] > 0
    BY <1>n, <2>p, <2>b
  <2>1. CASE NngRejection(m) # NoReply
    <3>1. Respond(NngRejection(m), TRUE) /\ UNCHANGED taken
      BY <1>1, <2>1 DEF Take
    <3>2. /\ NngRejection(m) \in NngReply
          /\ NngRejection(m).id = c
          /\ NngRejection(m).status # "ok"
      BY <2>1, <2>m, <2>c, NngRejectionType
    <3> QED BY <1>v, <2>q, <2>k, <3>1, <3>2, RespondRefines
  <2>2. CASE NngRejection(m) = NoReply
    <3>1. taken' = [taken EXCEPT ![c] = @ + 1] /\ UNCHANGED answers
      BY <1>1, <2>2, <2>c DEF Take
    <3>2. ~Expired(m.deadline)
      <4>1. NoReply.id = NoCall
        BY DEF NoReply
      <4> QED BY <2>2, <2>c, <4>1 DEF NngRejection, TooLate, Failure
    <3>3. CallView[c] # "timeout"
      BY <2>w, <2>c, <3>2 DEF Waiting, CallView
    <3>4. Repeated!Accept(c)
      BY <1>v, <2>q, <2>k, <3>1, <3>3 DEF Repeated!Accept, CallView
    <3> QED BY <3>4 DEF Repeated!Next
  <2> QED BY <2>1, <2>2
<1>2. CASE Dispatch
  <2>h. /\ current \in Request /\ server = "dispatch" /\ UNCHANGED taken
    BY <1>2 DEF Dispatch, IInv, TypeInv, InHand
  <2>c. PICK c \in Calls : c = current.id
    BY <2>h DEF Request
  <2>k. runs[c] < taken[c] /\ copies[c] > 0
    BY <1>n, <2>h, <2>c DEF Dispatching
  <2>1. CASE current.shape = "undecodable"
    <3> DEFINE r == Failure(current, "invalid_argument")
    <3>1. Respond(r, routable) /\ routable \in BOOLEAN /\ UNCHANGED runs
      BY <1>2, <1>t, <2>1 DEF Dispatch, TypeOK
    <3>2. r \in NngReply /\ r.id = c /\ r.status = "invalid_argument"
      BY <2>c, FailureType DEF Failures, Reply, NngReply
    <3> HIDE DEF r
    <3> QED BY <1>v, <2>h, <2>k, <3>1, <3>2, RespondRefines
  <2>2. CASE current.shape # "undecodable"
    <3>1. runs' = [runs EXCEPT ![c] = @ + 1] /\ UNCHANGED answers
      BY <1>2, <2>2, <2>c DEF Dispatch
    <3>2. Repeated!Start(c)
      BY <1>v, <2>h, <2>k, <3>1 DEF Repeated!Start, CallView
    <3> QED BY <3>2 DEF Repeated!Next
  <2> QED BY <2>1, <2>2
<1>3. ASSUME NEW e \in HandlerEnds, HandlerEnd(e)
      PROVE  [Repeated!Next]_(Repeated!rvars)
  <2>h. current \in Request /\ runs[current.id] > 0 /\ UNCHANGED <<taken, runs>>
    BY <1>3 DEF HandlerEnd, IInv, TypeInv, InHand, HandInv
  <2>c. PICK c \in Calls : c = current.id
    BY <2>h DEF Request
  <2>k. copies[c] > 0
    BY <1>n, <2>h, <2>c
  <2>1. CASE Encodable(e)
    <3>1. Respond(Report(current, e), routable) /\ routable \in BOOLEAN
      BY <1>3, <1>t, <2>1 DEF HandlerEnd, TypeOK
    <3>2. Report(current, e) \in NngReply /\ Report(current, e).id = c
      BY <2>1, <2>h, <2>c, NngReportType
    <3> QED BY <1>v, <2>h, <2>c, <2>k, <3>1, <3>2, RespondRefines
  <2>2. CASE ~Encodable(e)
    <3>1. UNCHANGED answers
      BY <1>3, <2>2 DEF HandlerEnd
    <3> QED BY <1>v, <2>h, <3>1 DEF Repeated!rvars, CallView
  <2> QED BY <2>1, <2>2
<1> QED BY <1>1, <1>2, <1>3

\* No call has begun, there or here.
LEMMA InitRefines == Init => Repeated!Init
<1> QED BY DEF Init, Repeated!Init

\* Every step is a step of RepeatedRpc, or none.
LEMMA StepRefines == IInv /\ [Next]_vars => [Repeated!Next]_(Repeated!rvars)
<1> SUFFICES ASSUME IInv, [Next]_vars
             PROVE  [Repeated!Next]_(Repeated!rvars)
  OBVIOUS
<1>q. UNCHANGED <<callVars, history>> => UNCHANGED Repeated!rvars
  BY DEF callVars, history, Repeated!rvars
<1>1. CASE UNCHANGED vars
  BY <1>1, <1>q DEF vars
<1>2. CASE OtherStep
  BY <1>2, <1>q, OtherQuiet DEF IInv, TypeInv, Quiet
<1>3. ASSUME NEW cl \in Clients, Resend(cl)
      PROVE  [Repeated!Next]_(Repeated!rvars)
  <2>1. outstanding[cl] \in Calls /\ pc[outstanding[cl]] = "recv"
    BY <1>3, NextType, ResendInv DEF IInv
  <2>2. /\ copies' = [copies EXCEPT ![outstanding[cl]] = @ + 1]
        /\ UNCHANGED <<callVars, taken, runs, answers>>
    BY <1>3 DEF Resend
  <2>3. UNCHANGED CallView
    BY <2>2 DEF CallView, callVars
  <2> QED BY <2>1, <2>2, <2>3, TransmitRefines
<1> QED BY <1>1, <1>2, <1>3, CallRefines, ServerRefines DEF Next, ServerStep, OtherStep

\* NNG's clients and server do what RepeatedRpc promises, however often
\* requests are transmitted again: no copy is accepted after its call timed
\* out, no handler starts for a copy that was not accepted.
THEOREM Refinement == Spec => RefinesRepeatedRpc
<1> QED BY InitInv, NextInv, InitRefines, StepRefines, PTL
        DEF Spec, RefinesRepeatedRpc, Repeated!Spec
=============================================================================
