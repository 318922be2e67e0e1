-------------------------------- MODULE NngRpc --------------------------------
(***************************************************************************)
(* Unary RPC over NNG (_nng.py): clients with a REQ socket, shared by      *)
(* threads, and a server with a REP socket.                                *)
(*                                                                         *)
(* Unlike the other transports NNG transmits a request again: when its     *)
(* connection is lost before the reply came, and when that takes longer    *)
(* than the resend time (NNG_OPT_REQ_RESENDTIME, a minute; the code does   *)
(* not set it).  A REQ socket drops replies to requests it has given up.   *)
(*                                                                         *)
(* pc[c] follows one invocation of call(): idle, ready (arguments checked, *)
(* deadline fixed), locked (`with self._lock`, recv_timeout set), recv     *)
(* (sent), done.  server: idle, not serving, or no longer; entry:          *)
(* serve_forever called, _stopping not cleared; loop: at `while not        *)
(* _stopping`; poll: in recv(); dispatch: `current` passed the checks;     *)
(* handler.                                                                *)
(***************************************************************************)
EXTENDS RpcMessages

CONSTANTS Timeouts,       \* Timeouts[c]: the effective timeouts c may have
          SentShapes,     \* SentShapes[c]: the shapes its request may have
          HandlerEnds,    \* the ways a handler may end
          MaxFaults,      \* bound on lost connections, resend timers, restarts
          Interventions   \* what may befall the system

ASSUME NngAssumption ==
  /\ Timeouts \in [Calls -> SUBSET (Nat \cup {NoDeadline})]
  /\ SentShapes \in [Calls -> SUBSET Shapes]
  /\ HandlerEnds \subseteq AllHandlerEnds
  /\ MaxFaults \in Nat
  /\ Interventions \subseteq {"lose", "resend", "crash", "stall",
                              "close_client", "stop", "close_server"}

VARIABLES pc, deadline, shape, result,
          timeout,        \* timeout[c]: the effective timeout
          until,          \* until[c]: when recv() gives up
          lock,           \* lock[cl]: the call inside `with self._lock`
          clientLife,     \* "open", "unbound" (socket closed), "closed" (flag)
          outstanding,    \* outstanding[cl]: the request the REQ socket keeps
          owed,           \* owed[cl]: it has to be transmitted again
          requests,       \* requests[cl]: the pipe from cl to the server
          replies,        \* replies[cl]: the pipe from the server to cl
          server, current, stopping,
          routable,       \* the pipe of the request in hand still exists
          serverLife,     \* "open", "closing" (_stopping set), "closed"
          faults,
          copies,         \* history: how often c's request was transmitted
          taken,          \* history: how many of them passed the checks
          runs,           \* history: how often the handler of c started
          answers         \* history: what the server answered to c

callVars == <<pc, deadline, shape, result, timeout, until, lock>>
pipeVars == <<outstanding, owed, requests, replies>>
loopVars == <<server, current, stopping, routable>>
history == <<copies, taken, runs, answers>>
vars == <<now, callVars, clientLife, pipeVars, loopVars, serverLife, faults, history>>

\* An envelope that cannot be read has no ID to answer to: the server makes
\* one up, and the caller takes the reply for somebody else's.
NngReply == [id : Calls, status : {"ok", "unaddressed"} \cup Failures, body : Bodies]
NngOutcome(r) == IF r.status = "unaddressed" THEN "protocol_error" ELSE Outcome(r)

\* pynng.Closed, which is none of the errors of npb_rpc.
NngResults == Results \cup {"raw_error"}

TypeOK ==
  /\ now \in 0 .. MaxTime
  /\ pc \in [Calls -> {"idle", "ready", "locked", "recv", "done"}]
  /\ deadline \in [Calls -> -1 .. MaxTime]
  /\ shape \in [Calls -> Shapes]
  /\ result \in [Calls -> {"none"} \cup NngResults]
  /\ timeout \in [Calls -> -1 .. MaxTime]
  /\ until \in [Calls -> -1 .. MaxTime]
  /\ lock \in [Clients -> Calls \cup {NoCall}]
  /\ clientLife \in [Clients -> {"open", "unbound", "closed"}]
  /\ outstanding \in [Clients -> Calls \cup {NoCall}]
  /\ owed \in [Clients -> BOOLEAN]
  /\ requests \in [Clients -> Seq(Request)]
  /\ replies \in [Clients -> Seq(NngReply)]
  /\ server \in {"idle", "entry", "loop", "poll", "dispatch", "handler"}
  /\ current \in Request \cup {NoRequest}
  /\ stopping \in BOOLEAN /\ routable \in BOOLEAN
  /\ serverLife \in {"open", "closing", "closed"}
  /\ faults \in 0 .. MaxFaults
  /\ copies \in [Calls -> Nat] /\ taken \in [Calls -> Nat] /\ runs \in [Calls -> Nat]
  /\ answers \in [Calls -> SUBSET NngReply]

Init ==
  /\ now = 0
  /\ pc = [c \in Calls |-> "idle"]
  /\ deadline = [c \in Calls |-> NoDeadline]
  /\ shape = [c \in Calls |-> "good"]
  /\ result = [c \in Calls |-> "none"]
  /\ timeout = [c \in Calls |-> NoDeadline]
  /\ until = [c \in Calls |-> NoDeadline]
  /\ lock = [cl \in Clients |-> NoCall]
  /\ clientLife = [cl \in Clients |-> "open"]
  /\ outstanding = [cl \in Clients |-> NoCall]
  /\ owed = [cl \in Clients |-> FALSE]
  /\ requests = [cl \in Clients |-> <<>>]
  /\ replies = [cl \in Clients |-> <<>>]
  /\ server = "idle"
  /\ current = NoRequest
  /\ stopping = FALSE
  /\ routable = FALSE
  /\ serverLife = "open"
  /\ faults = 0
  /\ copies = [c \in Calls |-> 0]
  /\ taken = [c \in Calls |-> 0]
  /\ runs = [c \in Calls |-> 0]
  /\ answers = [c \in Calls |-> {}]

-----------------------------------------------------------------------------
(* The client.                                                             *)

SocketOpen(c) == clientLife[ClientOf[c]] = "open"
ServerSocketOpen == serverLife # "closed"

\* Mutant of Finish: the lock is released on success only.
FinishKeepingLock(c, res) == LET cl == ClientOf[c] IN
  /\ pc' = [pc EXCEPT ![c] = "done"]
  /\ result' = [result EXCEPT ![c] = res]
  /\ lock' = [lock EXCEPT ![cl] = IF @ = c /\ res = "ok" THEN NoCall ELSE @]
  /\ outstanding' = [outstanding EXCEPT ![cl] = IF @ = c THEN NoCall ELSE @]
  /\ owed' = [owed EXCEPT ![cl] = @ /\ outstanding[cl] # c]
  /\ deadline' = [deadline EXCEPT ![c] = NoDeadline]
  /\ shape' = [shape EXCEPT ![c] = "good"]
  /\ timeout' = [timeout EXCEPT ![c] = NoDeadline]
  /\ until' = [until EXCEPT ![c] = NoDeadline]

\* call() returns or raises, its locals are no more, and the lock, if it holds
\* it, is released.  A reply, or the end of recv(), ends the request in the
\* socket too.
Finish(c, res) == LET cl == ClientOf[c] IN
  /\ pc' = [pc EXCEPT ![c] = "done"]
  /\ result' = [result EXCEPT ![c] = res]
  /\ lock' = [lock EXCEPT ![cl] = IF @ = c THEN NoCall ELSE @]
  /\ outstanding' = [outstanding EXCEPT ![cl] = IF @ = c THEN NoCall ELSE @]
  /\ owed' = [owed EXCEPT ![cl] = @ /\ outstanding[cl] # c]
  /\ deadline' = [deadline EXCEPT ![c] = NoDeadline]
  /\ shape' = [shape EXCEPT ![c] = "good"]
  /\ timeout' = [timeout EXCEPT ![c] = NoDeadline]
  /\ until' = [until EXCEPT ![c] = NoDeadline]

\* The deadline that the request carries is fixed before the lock is taken.
Begin(c) ==
  /\ pc[c] = "idle"
  /\ clientLife[ClientOf[c]] # "closed"
  /\ \E t \in Timeouts[c], s \in SentShapes[c] :
       /\ t # NoDeadline => now + t <= MaxTime
       /\ timeout' = [timeout EXCEPT ![c] = t]
       /\ deadline' = [deadline EXCEPT ![c] = IF t = NoDeadline THEN t ELSE now + t]
       /\ shape' = [shape EXCEPT ![c] = s]
  /\ pc' = [pc EXCEPT ![c] = "ready"]
  /\ UNCHANGED <<now, result, until, lock, clientLife, pipeVars, loopVars, serverLife,
                 faults, history>>

\* The client is closed, or the request is above the client's own limits.
BeginFails(c) ==
  /\ pc[c] = "idle"
  /\ \/ /\ clientLife[ClientOf[c]] = "closed"
        /\ Finish(c, "transport_error")
     \/ /\ clientLife[ClientOf[c]] # "closed"
        /\ Finish(c, "protocol_error")
  /\ UNCHANGED <<now, clientLife, requests, replies, loopVars, serverLife, faults, history>>

\* Nobody looks at the deadline again.  On a closed socket the options cannot
\* be read, outside the try.
Acquire(c) ==
  /\ pc[c] = "ready"
  /\ lock[ClientOf[c]] = NoCall
  /\ \/ /\ SocketOpen(c)
        /\ lock' = [lock EXCEPT ![ClientOf[c]] = c]
        /\ pc' = [pc EXCEPT ![c] = "locked"]
        /\ UNCHANGED <<deadline, shape, result, timeout, until, outstanding, owed>>
     \/ /\ ~SocketOpen(c)
        /\ Finish(c, "raw_error")
  /\ UNCHANGED <<now, clientLife, requests, replies, loopVars, serverLife, faults, history>>

Copy(c) == [id |-> c, deadline |-> deadline[c], shape |-> shape[c]]

\* send() returns once the request is in a pipe.  recv() then has the whole
\* timeout again (here, up to the bound of the clock), however long the lock
\* and send() took.
Send(c) == LET cl == ClientOf[c]
               end == now + timeout[c] IN
  /\ pc[c] = "locked"
  /\ SocketOpen(c) /\ ServerSocketOpen
  /\ requests' = [requests EXCEPT ![cl] = Append(@, Copy(c))]
  /\ copies' = [copies EXCEPT ![c] = @ + 1]
  /\ outstanding' = [outstanding EXCEPT ![cl] = c]
  /\ owed' = [owed EXCEPT ![cl] = FALSE]
  /\ until' = [until EXCEPT ![c] = IF timeout[c] = NoDeadline THEN NoDeadline
                                   ELSE IF end < MaxTime THEN end ELSE MaxTime]
  /\ pc' = [pc EXCEPT ![c] = "recv"]
  /\ UNCHANGED <<now, deadline, shape, result, timeout, lock, clientLife, replies, loopVars,
                 serverLife, faults, taken, runs, answers>>

\* No server within send_timeout; or the socket was closed: the `finally`
\* that restores recv_timeout fails in its turn, and that error prevails.
SendFails(c) ==
  /\ pc[c] = "locked"
  /\ \/ /\ SocketOpen(c) /\ ~ServerSocketOpen
        /\ Finish(c, "timeout")
     \/ /\ ~SocketOpen(c)
        /\ Finish(c, "raw_error")
  /\ UNCHANGED <<now, clientLife, requests, replies, loopVars, serverLife, faults, history>>

\* The socket gives call() the reply to the request it keeps; what the reply
\* says is looked at after the lock is released.
Receive(c) == LET cl == ClientOf[c] IN
  /\ pc[c] = "recv"
  /\ SocketOpen(c)
  /\ replies[cl] # <<>>
  /\ Head(replies[cl]).id = outstanding[cl]
  /\ replies' = [replies EXCEPT ![cl] = Tail(@)]
  /\ Finish(c, NngOutcome(Head(replies[cl])))
  /\ UNCHANGED <<now, clientLife, requests, loopVars, serverLife, faults, history>>

RecvFails(c) ==
  /\ pc[c] = "recv"
  /\ \/ /\ SocketOpen(c) /\ Expired(until[c])
        /\ Finish(c, "timeout")
     \/ /\ ~SocketOpen(c)
        /\ Finish(c, "raw_error")
  /\ UNCHANGED <<now, clientLife, requests, replies, loopVars, serverLife, faults, history>>

\* close() does not take the lock.  What is already on its way to the server
\* may still arrive.
CloseSocket(cl) ==
  /\ "close_client" \in Interventions
  /\ clientLife[cl] = "open"
  /\ clientLife' = [clientLife EXCEPT ![cl] = "unbound"]
  /\ outstanding' = [outstanding EXCEPT ![cl] = NoCall]
  /\ owed' = [owed EXCEPT ![cl] = FALSE]
  /\ \E kept \in {<<>>, requests[cl]} : requests' = [requests EXCEPT ![cl] = kept]
  /\ replies' = [replies EXCEPT ![cl] = <<>>]
  /\ UNCHANGED <<now, callVars, loopVars, serverLife, faults, history>>

CloseFlag(cl) ==
  /\ clientLife[cl] = "unbound"
  /\ clientLife' = [clientLife EXCEPT ![cl] = "closed"]
  /\ UNCHANGED <<now, callVars, pipeVars, loopVars, serverLife, faults, history>>

-----------------------------------------------------------------------------
(* The REQ sockets and their connections.                                  *)

\* The request is transmitted again.
Resend(cl) == LET c == outstanding[cl] IN
  /\ owed[cl] /\ ServerSocketOpen
  /\ owed' = [owed EXCEPT ![cl] = FALSE]
  /\ requests' = [requests EXCEPT ![cl] = Append(@, Copy(c))]
  /\ copies' = [copies EXCEPT ![c] = @ + 1]
  /\ UNCHANGED <<now, callVars, clientLife, outstanding, replies, loopVars, serverLife,
                 faults, taken, runs, answers>>

\* A reply to a request that the socket does not keep any more is dropped.
Discard(cl) ==
  /\ replies[cl] # <<>>
  /\ Head(replies[cl]).id # outstanding[cl]
  /\ replies' = [replies EXCEPT ![cl] = Tail(@)]
  /\ UNCHANGED <<now, callVars, clientLife, outstanding, owed, requests, loopVars,
                 serverLife, faults, history>>

\* The pipes of the clients cls break.  What is in them is lost, the replies
\* to come go nowhere, and requests not answered are to be transmitted again.
Break(cls) ==
  /\ requests' = [cl \in Clients |-> IF cl \in cls THEN <<>> ELSE requests[cl]]
  /\ replies' = [cl \in Clients |-> IF cl \in cls THEN <<>> ELSE replies[cl]]
  /\ owed' = [cl \in Clients |-> IF cl \in cls THEN outstanding[cl] # NoCall ELSE owed[cl]]

LoseConnection(cl) ==
  /\ "lose" \in Interventions /\ faults < MaxFaults
  /\ ServerSocketOpen /\ clientLife[cl] = "open"
  /\ faults' = faults + 1
  /\ Break({cl})
  /\ routable' = (routable /\ ClientOf[current.id] # cl)
  /\ UNCHANGED <<now, callVars, clientLife, outstanding, server, current, stopping,
                 serverLife, history>>

\* The resend time has passed without a reply.
ResendTimer(cl) ==
  /\ "resend" \in Interventions /\ faults < MaxFaults
  /\ outstanding[cl] # NoCall
  /\ ~owed[cl]
  /\ faults' = faults + 1
  /\ owed' = [owed EXCEPT ![cl] = TRUE]
  /\ UNCHANGED <<now, callVars, clientLife, outstanding, requests, replies, loopVars,
                 serverLife, history>>

-----------------------------------------------------------------------------
(* The server.                                                             *)

\* What every step of the serving thread leaves alone.
OthersUnchanged == UNCHANGED <<now, callVars, clientLife, outstanding, owed, serverLife,
                               faults, copies>>

Jump(label) == /\ server' = label
               /\ UNCHANGED <<current, stopping, routable, requests, replies, taken, runs,
                              answers>>
               /\ OthersUnchanged

\* serve_forever on a closed server raises at once.
ServeForever == server = "idle" /\ serverLife # "closed" /\ Jump("entry")

ClearStopping ==
  /\ server = "entry"
  /\ server' = "loop"
  /\ stopping' = FALSE
  /\ OthersUnchanged
  /\ UNCHANGED <<current, routable, requests, replies, taken, runs, answers>>

\* Then serve_once: it raises when the server is closed, and when the socket
\* is, whose options can be neither read nor set.
LoopTest ==
  /\ server = "loop"
  /\ Jump(IF ~stopping /\ ServerSocketOpen THEN "poll" ELSE "idle")

\* Nothing came within the interval.  Or the socket was closed: "return False"
\* when stopping, but the `finally` that restores recv_timeout fails.
PollEnds ==
  /\ server = "poll"
  /\ \/ /\ ServerSocketOpen
        /\ \A cl \in Clients : requests[cl] = <<>>
        /\ Jump("loop")
     \/ /\ ~ServerSocketOpen
        /\ Jump("idle")

\* Mutant of NngRejection: an expired request is reported by a name that is no
\* status.
NngRejectionRaw(m) == IF TooLate(m) THEN Failure(m, "expired") ELSE NoReply

\* _unpack_message accepts the frame: the limit on payloads is a rule of it.
Unpacks(m) == Readable(m) /\ m.shape # "large"

\* The checks of serve_once, in its order.
NngRejection(m) ==
  IF ~Unpacks(m) THEN Failure(m, "unaddressed")
  ELSE IF m.shape = "unknown_method" THEN Failure(m, "unimplemented")
  ELSE IF TooLate(m) THEN Failure(m, "deadline_exceeded")
  ELSE NoReply

\* The reply r goes to where its request came from; if that pipe is no more,
\* nowhere.  A send that times out, or finds the socket closed, is raised out
\* of serve_once and serve_forever.
Respond(r, there) ==
  /\ current' = NoRequest
  /\ routable' = FALSE
  /\ \/ /\ ServerSocketOpen
        /\ server' = "loop"
        /\ IF there
           THEN /\ replies' = [replies EXCEPT ![ClientOf[r.id]] = Append(@, r)]
                /\ answers' = [answers EXCEPT ![r.id] = @ \cup {r}]
           ELSE UNCHANGED <<replies, answers>>
     \/ /\ "stall" \in Interventions \/ ~ServerSocketOpen
        /\ server' = "idle"
        /\ UNCHANGED <<replies, answers>>

\* A request is received, and answered if a check fails, or accepted.
Take(cl) == LET m == Head(requests[cl]) IN
  /\ server = "poll"
  /\ ServerSocketOpen
  /\ requests[cl] # <<>>
  /\ requests' = [requests EXCEPT ![cl] = Tail(@)]
  /\ \/ /\ NngRejection(m) # NoReply
        /\ Respond(NngRejection(m), TRUE)
        /\ UNCHANGED taken
     \/ /\ NngRejection(m) = NoReply
        /\ server' = "dispatch"
        /\ current' = m
        /\ routable' = TRUE
        /\ taken' = [taken EXCEPT ![m.id] = @ + 1]
        /\ UNCHANGED <<replies, answers>>
  /\ OthersUnchanged /\ UNCHANGED <<stopping, runs>>

\* Mutant of Dispatch: the handler decodes its own argument.
DispatchUndecoded ==
  /\ server = "dispatch"
  /\ runs' = [runs EXCEPT ![current.id] = @ + 1]
  /\ IF current.shape = "undecodable"
     THEN Respond(Failure(current, "invalid_argument"), routable)
     ELSE server' = "handler" /\ UNCHANGED <<current, routable, replies, answers>>
  /\ OthersUnchanged /\ UNCHANGED <<stopping, requests, taken>>

\* The payload is decoded, and the handler starts.
Dispatch ==
  /\ server = "dispatch"
  /\ \/ /\ current.shape = "undecodable"
        /\ Respond(Failure(current, "invalid_argument"), routable)
        /\ UNCHANGED runs
     \/ /\ current.shape # "undecodable"
        /\ server' = "handler"
        /\ runs' = [runs EXCEPT ![current.id] = @ + 1]
        /\ UNCHANGED <<current, routable, replies, answers>>
  /\ OthersUnchanged /\ UNCHANGED <<stopping, requests, taken>>

\* The handler returns or raises.  An envelope that does not encode is raised
\* out of serve_once and serve_forever, and nobody is answered.
HandlerEnd(e) ==
  /\ server = "handler"
  /\ \/ Encodable(e) /\ Respond(Report(current, e), routable)
     \/ /\ ~Encodable(e)
        /\ server' = "idle" /\ current' = NoRequest /\ routable' = FALSE
        /\ UNCHANGED <<replies, answers>>
  /\ OthersUnchanged /\ UNCHANGED <<stopping, requests, taken, runs>>

Stop ==
  /\ "stop" \in Interventions
  /\ ~stopping
  /\ stopping' = TRUE
  /\ OthersUnchanged
  /\ UNCHANGED <<server, current, routable, requests, replies, taken, runs, answers>>

\* close() of the server, from another thread: the event, then the socket.
\* (The flag, which comes last, forbids nothing that the socket does not.)
CloseServer ==
  /\ "close_server" \in Interventions
  /\ serverLife = "open"
  /\ serverLife' = "closing"
  /\ stopping' = TRUE
  /\ UNCHANGED <<now, callVars, clientLife, pipeVars, server, current, routable, faults,
                 history>>

CloseServerSocket ==
  /\ serverLife = "closing"
  /\ serverLife' = "closed"
  /\ Break(Clients)
  /\ routable' = FALSE
  /\ UNCHANGED <<now, callVars, clientLife, outstanding, server, current, stopping, faults,
                 history>>

\* The process dies.
Crash ==
  /\ "crash" \in Interventions
  /\ serverLife # "closed"
  /\ serverLife' = "closed"
  /\ Break(Clients)
  /\ server' = "idle" /\ current' = NoRequest
  /\ stopping' = FALSE /\ routable' = FALSE
  /\ UNCHANGED <<now, callVars, clientLife, outstanding, faults, history>>

\* A new server on the same endpoint; the clients reconnect.
Restart ==
  /\ serverLife = "closed" /\ server = "idle"
  /\ faults < MaxFaults
  /\ faults' = faults + 1
  /\ serverLife' = "open"
  /\ stopping' = FALSE
  /\ UNCHANGED <<now, callVars, clientLife, pipeVars, server, current, routable, history>>

-----------------------------------------------------------------------------
Tick == /\ now < MaxTime
        /\ now' = now + 1
        /\ UNCHANGED <<callVars, clientLife, pipeVars, loopVars, serverLife, faults, history>>

\* The steps of a thread inside call(), and of the serving thread.
CallStep(c) == Acquire(c) \/ Send(c) \/ SendFails(c) \/ Receive(c) \/ RecvFails(c)

ServerStep == \/ ClearStopping \/ LoopTest \/ PollEnds
              \/ \E cl \in Clients : Take(cl)
              \/ Dispatch
              \/ \E e \in HandlerEnds : HandlerEnd(e)

Next == \/ Tick
        \/ \E c \in Calls : Begin(c) \/ BeginFails(c) \/ CallStep(c)
        \/ \E cl \in Clients : \/ CloseSocket(cl) \/ CloseFlag(cl)
                               \/ Resend(cl) \/ Discard(cl)
                               \/ LoseConnection(cl) \/ ResendTimer(cl)
        \/ ServeForever \/ ServerStep
        \/ Stop \/ CloseServer \/ CloseServerSocket \/ Crash \/ Restart

Spec == Init /\ [][Next]_vars

\* Time passes; a thread inside call(), serve_forever() or a handler goes on,
\* and so does NNG.  Nobody has to serve, to stop, or to start a server.
Fairness == /\ WF_vars(Tick)
            /\ \A c \in Calls : WF_vars(CallStep(c))
            /\ WF_vars(ServerStep)
            /\ \A cl \in Clients : WF_vars(Resend(cl)) /\ WF_vars(Discard(cl))

FairSpec == Spec /\ Fairness

-----------------------------------------------------------------------------
\* However often NNG transmitted a request, a caller told "ok" had its handler
\* run; and one told that its request was refused knows of one copy that did
\* not reach the handler.
HonestOutcome ==
  \A c \in Calls : /\ result[c] = "ok" => runs[c] > 0
                   /\ result[c] \in Refusals => runs[c] < copies[c]

\* A call that holds the socket and has a deadline ends, whatever becomes of
\* the server: recv() is bounded.  One that waits for the lock ends unless a
\* call without a deadline has it.
CallsEnd ==
  \A c \in Calls :
    /\ pc[c] \in {"locked", "recv"} /\ timeout[c] # NoDeadline ~> pc[c] = "done"
    /\ pc[c] = "ready" ~> \/ pc[c] = "done"
                          \/ \E d \in Calls : /\ lock[ClientOf[c]] = d
                                             /\ pc[d] # "done"
                                             /\ timeout[d] = NoDeadline

\* Refinement of what a transport that repeats requests promises of a call.
Repeated == INSTANCE RepeatedRpc WITH
  Answers <- NngReply,
  OkAnswers <- {r \in NngReply : r.status = "ok"},
  GiveUps <- LocalErrors \cup {"raw_error"},
  Ending <- [r \in NngReply |-> NngOutcome(r)],
  call <- [c \in Calls |-> IF pc[c] = "idle" THEN "idle"
                           ELSE IF pc[c] = "done" THEN result[c] ELSE "open"],
  copies <- copies,
  accepted <- taken,
  started <- runs,
  answers <- answers

\* Each step is a step of RepeatedRpc, or none.
RefinesRepeatedRpc == Repeated!Spec
=============================================================================
