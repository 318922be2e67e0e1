----------------------------- MODULE Iceoryx2Rpc -----------------------------
(***************************************************************************)
(* Unary RPC over iceoryx2 shared memory (_iceoryx2.py): clients shared by *)
(* threads, and one server.                                                *)
(*                                                                         *)
(* A client port has one request active at a time.  Its buffer in the      *)
(* server holds one request; a pending response is alive from the send     *)
(* until the caller deletes it, and takes one reply.                       *)
(*                                                                         *)
(* pc[c] follows one invocation of call() or call_borrowed():              *)
(*   idle -> ready      arguments checked, deadline fixed                  *)
(*   ready -> loop      the client's lock taken                            *)
(*   loop -> send/recv  neither closing nor expired                        *)
(*   borrowed           call_borrowed returned; the value is in use        *)
(*   done               returned or raised (and the borrow is closed)      *)
(* server: idle, returned, raised: not serving; entry: serve_forever       *)
(* called, _stopping not cleared; loop: at `while not _stopping`; once: in *)
(* serve_once, without the lock; poll, dispatch, handler: with it.         *)
(***************************************************************************)
EXTENDS RpcMessages

CONSTANTS Borrowers,      \* the calls made with call_borrowed
          Timeouts,       \* Timeouts[c]: the effective timeouts c may have
          SentShapes,     \* SentShapes[c]: the shapes its request may have
          HandlerEnds,    \* the ways a handler may end
          MaxBetween,     \* bound on the time between a call's two clock reads
          MaxRestarts,    \* bound on the servers started after the first
          Interventions   \* what other threads and the system may do

\* The request is above the client's limits, or does not encode; the handler
\* makes a call of its own, and that fails.  A response that does not encode
\* ends like a bad abort.
Iceoryx2Shapes == Shapes \cup {"unsendable"}
Iceoryx2HandlerEnds == AllHandlerEnds \cup {"nested"}

ASSUME Iceoryx2Assumption ==
  /\ Borrowers \subseteq Calls
  /\ Timeouts \in [Calls -> SUBSET (Nat \cup {NoDeadline})]
  /\ SentShapes \in [Calls -> SUBSET Iceoryx2Shapes]
  /\ HandlerEnds \subseteq Iceoryx2HandlerEnds
  /\ MaxBetween \in Nat /\ MaxRestarts \in Nat
  /\ Interventions \subseteq {"close_client", "stop", "close_server", "crash"}

VARIABLES pc, shape, result,
          expires,        \* expires[c]: when c gives up
          deadline,       \* deadline[c]: the deadline its request carries
          lock,           \* lock[cl]: the call that holds the client's lock
          closed,         \* closed[cl]: close() of the client was called
          pending,        \* pending[cl]: the call whose pending response lives
          mail,           \* mail[cl]: the reply in it
          buffer,         \* buffer[cl]: the request the server has not received
          server, current, stopping,
          serverLife,     \* "open", "closing" (_stopping set), "closed"
          restarts,
          taken,          \* history: the calls whose request passed the checks
          runs,           \* history: how often the handler of c started
          answer          \* history: what was delivered to c

callVars == <<pc, expires, deadline, shape, result, lock>>
portVars == <<pending, mail, buffer>>
loopVars == <<server, current, stopping, serverLife, restarts>>
history == <<taken, runs, answer>>
vars == <<now, callVars, closed, portVars, loopVars, history>>

Stopped == {"idle", "returned", "raised"}
Serving == {"poll", "dispatch", "handler"}

Carried == [id : Calls, deadline : -1 .. MaxTime + MaxBetween, shape : Shapes]

TypeOK ==
  /\ now \in 0 .. MaxTime
  /\ pc \in [Calls -> {"idle", "ready", "loop", "send", "recv", "borrowed", "done"}]
  /\ expires \in [Calls -> -1 .. MaxTime]
  /\ deadline \in [Calls -> -1 .. MaxTime + MaxBetween]
  /\ shape \in [Calls -> Iceoryx2Shapes]
  /\ result \in [Calls -> {"none", "early"} \cup Results]
  /\ lock \in [Clients -> Calls \cup {NoCall}]
  /\ closed \in [Clients -> BOOLEAN]
  /\ pending \in [Clients -> Calls \cup {NoCall}]
  /\ mail \in [Clients -> Reply \cup {NoReply}]
  /\ buffer \in [Clients -> Carried \cup {NoRequest}]
  /\ server \in Stopped \cup {"entry", "loop", "once"} \cup Serving
  /\ current \in Carried \cup {NoRequest}
  /\ stopping \in BOOLEAN
  /\ serverLife \in {"open", "closing", "closed"}
  /\ restarts \in 0 .. MaxRestarts
  /\ taken \subseteq Calls
  /\ runs \in [Calls -> Nat]
  /\ answer \in [Calls -> Reply \cup {NoReply}]

Init ==
  /\ now = 0
  /\ pc = [c \in Calls |-> "idle"]
  /\ expires = [c \in Calls |-> NoDeadline]
  /\ deadline = [c \in Calls |-> NoDeadline]
  /\ shape = [c \in Calls |-> "good"]
  /\ result = [c \in Calls |-> "none"]
  /\ lock = [cl \in Clients |-> NoCall]
  /\ closed = [cl \in Clients |-> FALSE]
  /\ pending = [cl \in Clients |-> NoCall]
  /\ mail = [cl \in Clients |-> NoReply]
  /\ buffer = [cl \in Clients |-> NoRequest]
  /\ server = "idle"
  /\ current = NoRequest
  /\ stopping = FALSE
  /\ serverLife = "open"
  /\ restarts = 0
  /\ taken = {}
  /\ runs = [c \in Calls |-> 0]
  /\ answer = [c \in Calls |-> NoReply]

-----------------------------------------------------------------------------
(* The client.                                                             *)

Goto(c, label) == /\ pc' = [pc EXCEPT ![c] = label]
                  /\ UNCHANGED <<expires, deadline, shape, result, lock>>

\* Mutant of DropPending: the pending response outlives a call that failed.
KeepPending(c) == UNCHANGED <<pending, mail>>

DropPending(c) == LET cl == ClientOf[c] IN
  /\ pending' = [pending EXCEPT ![cl] = IF @ = c THEN NoCall ELSE @]
  /\ mail' = [mail EXCEPT ![cl] = IF pending[cl] = c THEN NoReply ELSE @]

\* The call returns or raises: its pending response is deleted and the lock,
\* if it holds it, released; its locals are no more.
Finish(c, res) ==
  /\ pc' = [pc EXCEPT ![c] = "done"]
  /\ result' = [result EXCEPT ![c] = res]
  /\ lock' = [lock EXCEPT ![ClientOf[c]] = IF @ = c THEN NoCall ELSE @]
  /\ DropPending(c)
  /\ expires' = [expires EXCEPT ![c] = NoDeadline]
  /\ deadline' = [deadline EXCEPT ![c] = NoDeadline]
  /\ shape' = [shape EXCEPT ![c] = "good"]

\* RpcTimeoutError, told apart by whether the deadline that the request
\* carries has passed too.
TimedOut(c) == IF Expired(deadline[c]) THEN "timeout" ELSE "early"

\* A client whose flag is set refuses at once.  The clock is read twice: the
\* deadline that the request carries may be after `expires`.
Begin(c) ==
  /\ pc[c] = "idle"
  /\ \/ /\ closed[ClientOf[c]]
        /\ Finish(c, "transport_error")
     \/ /\ ~closed[ClientOf[c]]
        /\ \E t \in Timeouts[c], between \in 0 .. MaxBetween, s \in SentShapes[c] :
             /\ t # NoDeadline => now + t <= MaxTime
             /\ expires' = [expires EXCEPT ![c] = IF t = NoDeadline THEN t ELSE now + t]
             /\ deadline' = [deadline EXCEPT ![c] = IF t = NoDeadline THEN t ELSE now + t + between]
             /\ shape' = [shape EXCEPT ![c] = s]
        /\ pc' = [pc EXCEPT ![c] = "ready"]
        /\ UNCHANGED <<result, lock, pending, mail>>
  /\ UNCHANGED <<now, closed, buffer, loopVars, history>>

Acquire(c) ==
  /\ pc[c] = "ready"
  /\ lock[ClientOf[c]] = NoCall
  /\ lock' = [lock EXCEPT ![ClientOf[c]] = c]
  /\ pc' = [pc EXCEPT ![c] = "loop"]
  /\ UNCHANGED <<now, expires, deadline, shape, result, closed, portVars, loopVars, history>>

\* Mutant of AcquireTimesOut: `with self._lock`, as over ZeroMQ.
AcquireWaits(c) ==
  /\ pc[c] = "ready"
  /\ lock[ClientOf[c]] = NoCall
  /\ Expired(expires[c])
  /\ Finish(c, TimedOut(c))
  /\ UNCHANGED <<now, closed, buffer, loopVars, history>>

\* The wait for the lock is bounded by the deadline.
AcquireTimesOut(c) ==
  /\ pc[c] = "ready"
  /\ lock[ClientOf[c]] # NoCall
  /\ Expired(expires[c])
  /\ Finish(c, TimedOut(c))
  /\ UNCHANGED <<now, closed, buffer, loopVars, history>>

\* Mutant of Closing: close() does not set the event.
ClosingUnseen(cl) == FALSE

\* self._closing.is_set()
Closing(cl) == closed[cl]

\* The head of the loop.
LoopHead(c) ==
  /\ pc[c] = "loop"
  /\ \/ /\ Closing(ClientOf[c])
        /\ Finish(c, "transport_error")
     \/ /\ ~Closing(ClientOf[c])
        /\ Expired(expires[c])
        /\ Finish(c, TimedOut(c))
     \/ /\ ~Closing(ClientOf[c])
        /\ ~Expired(expires[c])
        /\ Goto(c, IF pending[ClientOf[c]] = c THEN "recv" ELSE "send")
        /\ UNCHANGED <<pending, mail>>
  /\ UNCHANGED <<now, closed, buffer, loopVars, history>>

\* What _open_port configures: one server, one active request per client, and
\* a request that finds no room is discarded.
Receivable(cl) == serverLife # "closed" /\ buffer[cl] = NoRequest

\* Mutant of Send: a request that an idle wait left unanswered is sent anew.
SendAnew(c) == LET cl == ClientOf[c] IN
  /\ pc[c] = "send" \/ (pc[c] = "recv" /\ mail[cl] = NoReply)
  /\ ~closed[cl]
  /\ shape[c] # "unsendable"
  /\ Receivable(cl)
  /\ buffer' = [buffer EXCEPT ![cl] = [id |-> c, deadline |-> deadline[c], shape |-> shape[c]]]
  /\ pending' = [pending EXCEPT ![cl] = c]
  /\ Goto(c, "recv")
  /\ UNCHANGED <<now, closed, mail, loopVars, history>>

\* A server received the request: it is never sent again.
Send(c) == LET cl == ClientOf[c] IN
  /\ pc[c] = "send"
  /\ ~closed[cl]
  /\ shape[c] # "unsendable"
  /\ Receivable(cl)
  /\ buffer' = [buffer EXCEPT ![cl] = [id |-> c, deadline |-> deadline[c], shape |-> shape[c]]]
  /\ pending' = [pending EXCEPT ![cl] = c]
  /\ Goto(c, "recv")
  /\ UNCHANGED <<now, closed, mail, loopVars, history>>

\* No server received it: wait, and try again.
SendUnreceived(c) ==
  /\ pc[c] = "send"
  /\ ~closed[ClientOf[c]]
  /\ shape[c] # "unsendable"
  /\ ~Receivable(ClientOf[c])
  /\ Goto(c, "loop")
  /\ UNCHANGED <<now, closed, portVars, loopVars, history>>

\* close() took the port after the closing event was tested; or the request
\* does not encode.
SendFails(c) ==
  /\ pc[c] = "send"
  /\ \/ /\ closed[ClientOf[c]]
        /\ shape[c] # "unsendable"
        /\ Finish(c, "transport_error")
     \/ /\ shape[c] = "unsendable"
        /\ \E e \in {"protocol_error", "transport_error"} : Finish(c, e)
  /\ UNCHANGED <<now, closed, buffer, loopVars, history>>

\* call() copies the payload out and releases the lock; call_borrowed() keeps
\* lock and pending response for as long as its value is used.
Receive(c) == LET r == mail[ClientOf[c]] IN
  /\ pc[c] = "recv"
  /\ r # NoReply
  /\ \/ /\ c \notin Borrowers \/ Outcome(r) # "ok"
        /\ Finish(c, Outcome(r))
     \/ /\ c \in Borrowers /\ Outcome(r) = "ok"
        /\ pc' = [pc EXCEPT ![c] = "borrowed"]
        /\ result' = [result EXCEPT ![c] = "ok"]
        /\ UNCHANGED <<expires, deadline, shape, lock, pending, mail>>
  /\ UNCHANGED <<now, closed, buffer, loopVars, history>>

\* Nothing was received: an idle wait, and the loop again.
Idle(c) ==
  /\ pc[c] = "recv"
  /\ mail[ClientOf[c]] = NoReply
  /\ Goto(c, "loop")
  /\ UNCHANGED <<now, closed, portVars, loopVars, history>>

\* Iceoryx2BorrowedResponse.close(), by the end of its `with`.
CloseBorrowed(c) ==
  /\ pc[c] = "borrowed"
  /\ Finish(c, "ok")
  /\ UNCHANGED <<now, closed, buffer, loopVars, history>>

\* close() takes no lock, so that it comes between any two steps of a call.
\* Between its own steps (the event, the port, the flag) a call sees what it
\* sees before or after all of them: its next step succeeds, or it ends.
CloseClient(cl) ==
  /\ "close_client" \in Interventions
  /\ ~closed[cl]
  /\ closed' = [closed EXCEPT ![cl] = TRUE]
  /\ UNCHANGED <<now, callVars, portVars, loopVars, history>>

-----------------------------------------------------------------------------
(* The server.                                                             *)

Jump(label) == /\ server' = label
               /\ UNCHANGED <<current, stopping, serverLife, restarts>>

\* serve_forever on a closed server raises at once.
ServeForever ==
  /\ server \in Stopped
  /\ serverLife # "closed"
  /\ Jump("entry")
  /\ UNCHANGED <<now, callVars, closed, portVars, history>>

ClearStopping ==
  /\ server = "entry"
  /\ server' = "loop"
  /\ stopping' = FALSE
  /\ UNCHANGED <<now, callVars, closed, portVars, current, serverLife, restarts, history>>

\* Mutant of LoopTest: `while True`.
LoopWithoutTest ==
  /\ server = "loop"
  /\ Jump("once")
  /\ UNCHANGED <<now, callVars, closed, portVars, history>>

LoopTest ==
  /\ server = "loop"
  /\ Jump(IF stopping THEN "returned" ELSE "once")
  /\ UNCHANGED <<now, callVars, closed, portVars, history>>

\* serve_once takes the lock, and then looks whether the server is closed.
EnterServeOnce ==
  /\ server = "once"
  /\ Jump(IF serverLife = "closed" THEN "raised" ELSE "poll")
  /\ UNCHANGED <<now, callVars, closed, portVars, history>>

\* stop() was called, or nothing came within the interval.
PollEnds ==
  /\ server = "poll"
  /\ stopping \/ \A cl \in Clients : buffer[cl] = NoRequest
  /\ Jump("loop")
  /\ UNCHANGED <<now, callVars, closed, portVars, history>>

\* active.is_connected: the caller still waits for the reply.
Connected(c) == pending[ClientOf[c]] = c

\* The reply r, unless its caller has gone.
Deliver(r) == LET cl == ClientOf[r.id] IN
  IF Connected(r.id)
  THEN /\ mail' = [mail EXCEPT ![cl] = r]
       /\ answer' = [answer EXCEPT ![r.id] = r]
  ELSE UNCHANGED <<mail, answer>>

\* A request is received once, and its envelope checked: it is dropped if it
\* cannot be read, answered if a check fails, or accepted.
Take(cl) == LET m == buffer[cl] IN
  /\ server = "poll"
  /\ m # NoRequest
  /\ buffer' = [buffer EXCEPT ![cl] = NoRequest]
  /\ \/ /\ ~Readable(m)
        /\ server' = "loop"
        /\ UNCHANGED <<current, mail, taken, answer>>
     \/ /\ Readable(m)
        /\ Rejection(m) # NoReply
        /\ server' = "loop"
        /\ Deliver(Rejection(m))
        /\ UNCHANGED <<current, taken>>
     \/ /\ Readable(m)
        /\ Rejection(m) = NoReply
        /\ server' = "dispatch"
        /\ current' = m
        /\ taken' = taken \cup {m.id}
        /\ UNCHANGED <<mail, answer>>
  /\ UNCHANGED <<now, callVars, closed, pending, stopping, serverLife, restarts, runs>>

\* Mutant of Dispatch: the handler decodes its own argument.
DispatchUndecoded ==
  /\ server = "dispatch"
  /\ runs' = [runs EXCEPT ![current.id] = @ + 1]
  /\ IF current.shape = "undecodable"
     THEN /\ server' = "loop"
          /\ current' = NoRequest
          /\ Deliver(Failure(current, "invalid_argument"))
     ELSE /\ server' = "handler"
          /\ UNCHANGED <<current, mail, answer>>
  /\ UNCHANGED <<now, callVars, closed, pending, buffer, stopping, serverLife,
                 restarts, taken>>

\* The payload is decoded in place, and the handler starts.
Dispatch ==
  /\ server = "dispatch"
  /\ IF current.shape = "undecodable"
     THEN /\ server' = "loop"
          /\ current' = NoRequest
          /\ Deliver(Failure(current, "invalid_argument"))
          /\ UNCHANGED runs
     ELSE /\ server' = "handler"
          /\ runs' = [runs EXCEPT ![current.id] = @ + 1]
          /\ UNCHANGED <<current, mail, answer>>
  /\ UNCHANGED <<now, callVars, closed, pending, buffer, stopping, serverLife,
                 restarts, taken>>

HandlerEnd(e) ==
  /\ server = "handler"
  /\ Encodable(e) /\ e # "nested"
  /\ server' = "loop"
  /\ current' = NoRequest
  /\ Deliver(Report(current, e))
  /\ UNCHANGED <<now, callVars, closed, pending, buffer, stopping, serverLife,
                 restarts, taken, runs>>

\* An RpcTransportError of the handler's own call passes for one of the
\* server's port.  What does not encode is one too while the caller waits.
HandlerFails(e) ==
  /\ server = "handler"
  /\ ~Encodable(e) \/ e = "nested"
  /\ server' = IF e = "nested" \/ Connected(current.id) THEN "raised" ELSE "loop"
  /\ current' = NoRequest
  /\ UNCHANGED <<now, callVars, closed, portVars, stopping, serverLife, restarts, history>>

Stop ==
  /\ "stop" \in Interventions
  /\ ~stopping
  /\ stopping' = TRUE
  /\ UNCHANGED <<now, callVars, closed, portVars, server, current, serverLife,
                 restarts, history>>

CloseServer ==
  /\ "close_server" \in Interventions
  /\ serverLife = "open"
  /\ serverLife' = "closing"
  /\ stopping' = TRUE
  /\ UNCHANGED <<now, callVars, closed, portVars, server, current, restarts, history>>

\* close() waits until serve_once releases the lock; the requests that nobody
\* received go with the port.
DeletePort ==
  /\ serverLife = "closing"
  /\ server \notin Serving
  /\ serverLife' = "closed"
  /\ buffer' = [cl \in Clients |-> NoRequest]
  /\ UNCHANGED <<now, callVars, closed, pending, mail, server, current, stopping,
                 restarts, history>>

\* The process dies.  The callers are not told, nor do they look.
Crash ==
  /\ "crash" \in Interventions
  /\ serverLife # "closed"
  /\ serverLife' = "closed"
  /\ server' = "idle"
  /\ current' = NoRequest
  /\ stopping' = FALSE
  /\ buffer' = [cl \in Clients |-> NoRequest]
  /\ UNCHANGED <<now, callVars, closed, pending, mail, restarts, history>>

\* A new server for the same service, when the old one has gone.
Restart ==
  /\ serverLife = "closed"
  /\ server \in Stopped
  /\ restarts < MaxRestarts
  /\ restarts' = restarts + 1
  /\ serverLife' = "open"
  /\ server' = "idle"
  /\ stopping' = FALSE
  /\ UNCHANGED <<now, callVars, closed, portVars, current, history>>

-----------------------------------------------------------------------------
Tick == /\ now < MaxTime
        /\ now' = now + 1
        /\ UNCHANGED <<callVars, closed, portVars, loopVars, history>>

\* The steps of a thread inside call(), and of the serving thread.
CallStep(c) == \/ Acquire(c) \/ AcquireTimesOut(c) \/ LoopHead(c)
               \/ Send(c) \/ SendUnreceived(c) \/ SendFails(c)
               \/ Receive(c) \/ Idle(c)

ServerStep == \/ ClearStopping \/ LoopTest \/ EnterServeOnce \/ PollEnds
              \/ \E cl \in Clients : Take(cl)
              \/ Dispatch
              \/ \E e \in HandlerEnds : HandlerEnd(e) \/ HandlerFails(e)

Next == \/ Tick
        \/ \E c \in Calls : Begin(c) \/ CallStep(c) \/ CloseBorrowed(c)
        \/ \E cl \in Clients : CloseClient(cl)
        \/ ServeForever \/ ServerStep
        \/ Stop \/ CloseServer \/ DeletePort \/ Crash \/ Restart

Spec == Init /\ [][Next]_vars

\* Time passes; a thread inside call(), close() of the server, serve_forever() or a handler
\* goes on.  Nobody has to serve, to stop, or to end the use of a borrowed
\* response.
Fairness == /\ WF_vars(Tick)
            /\ \A c \in Calls : WF_vars(CallStep(c))
            /\ WF_vars(ServerStep)
            /\ WF_vars(DeletePort)

FairSpec == Spec /\ Fairness

-----------------------------------------------------------------------------
\* A caller told "ok" had its handler run once; one told that its request was
\* refused may retry: the handler did not run.
HonestOutcome ==
  \A c \in Calls : /\ result[c] = "ok" => runs[c] = 1
                   /\ result[c] \in Refusals => runs[c] = 0

\* The port, which has room for one active request, is not used for another
\* while a pending response lives, least of all a borrowed one.
PortNotReused ==
  \A c \in Calls : LET p == pending[ClientOf[c]] IN
    /\ pc[c] \in {"loop", "send", "recv"} => p \in {NoCall, c}
    /\ pc[c] = "borrowed" => p = c

\* call() has returned or raised, though its response may still be borrowed.
Ended(c) == result[c] # "none"

\* A call with a deadline ends, though the server be gone, and whoever holds
\* the client's lock: another call without a deadline, or a borrower.
CallsEnd ==
  \A c \in Calls : pc[c] = "ready" /\ deadline[c] # NoDeadline ~> Ended(c)

\* close() ends the calls that are waiting, even those without a deadline,
\* but for those that wait behind a borrowed response.
CloseEndsCalls ==
  \A cl \in Clients :
    Closing(cl) ~> \/ \A c \in Calls : ClientOf[c] = cl => pc[c] = "idle" \/ Ended(c)
                   \/ \E b \in Calls : ClientOf[b] = cl /\ pc[b] = "borrowed"

\* stop() and close() end a serving loop that is past clearing the flag, and
\* close() gets the lock unless the flag was cleared meanwhile.
StopEnds ==
  /\ stopping /\ server \notin Stopped \cup {"entry"} ~> server \in Stopped
  /\ serverLife = "closing" ~> serverLife = "closed" \/ ~stopping

\* "Serve requests until stop() is called" (_base.py): the serving loop is not
\* ended by what a handler does.
ServesUntilStopped == [][server' = "raised" => stopping]_vars

-----------------------------------------------------------------------------
\* Refinement of what every transport promises of a call.  A call that gave up
\* before the deadline that it sent has not, for the server, timed out.
Unary == INSTANCE UnaryRpc WITH
  Answers <- Reply,
  NoAnswer <- NoReply,
  OkAnswers <- {r \in Reply : r.status = "ok"},
  GiveUps <- LocalErrors \cup {"early"},
  Ending <- [r \in Reply |-> Outcome(r)],
  call <- [c \in Calls |-> IF pc[c] = "idle" THEN "idle"
                           ELSE IF Ended(c) THEN result[c] ELSE "open"],
  accepted <- taken,
  started <- {c \in Calls : runs[c] > 0},
  answer <- answer

\* Each step is a step of UnaryRpc, or none.
RefinesUnaryRpc == Unary!Spec
=============================================================================
