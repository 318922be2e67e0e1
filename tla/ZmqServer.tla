------------------------------ MODULE ZmqServer ------------------------------
(***************************************************************************)
(* ZmqRpcServer: the thread in serve_forever()/serve_once(), and stop() and*)
(* close() called by other threads.                                        *)
(*                                                                         *)
(* server follows the serving thread:                                      *)
(*   idle      not serving                                                 *)
(*   entry     serve_forever called, _stopping not yet cleared             *)
(*   loop      at `while not self._stopping.is_set()`                      *)
(*   once      in serve_once, at the closed check                          *)
(*   poll      polling the ROUTER socket                                   *)
(*   dispatch  the request `current` passed the checks; its payload is     *)
(*             being decoded                                               *)
(*   handler   method.handler runs on `current`                            *)
(*   reply     about to send `response`                                    *)
(*   returned  serve_forever returned; raised: an exception left it        *)
(***************************************************************************)
EXTENDS ZmqWire

CONSTANTS MaxRestarts,    \* bound on the crashes of the server process
          HandlerEnds     \* the ways a handler may end, of AllHandlerEnds

ASSUME ServerAssumption == MaxRestarts \in Nat /\ HandlerEnds \subseteq AllHandlerEnds

VARIABLES server, current, response, stopping,
          serverLife,     \* "open", "closing" (_stopping set by close),
                          \* "unbound" (socket closed), "closed" (flag set)
          restarts,       \* crashes so far
          taken,          \* history: the calls whose request passed the checks
          runs,           \* history: how often the handler of c started
          answer          \* history: what the server answered to c

serverVars == <<server, current, response, stopping, serverLife, restarts,
                taken, runs, answer>>

Stopped == {"idle", "returned", "raised"}

ServerTypeOK ==
  /\ server \in Stopped \cup {"entry", "loop", "once", "poll", "dispatch",
                         "handler", "reply"}
  /\ current \in Request \cup {NoRequest}
  /\ response \in Reply \cup {NoReply}
  /\ stopping \in BOOLEAN
  /\ serverLife \in {"open", "closing", "unbound", "closed"}
  /\ restarts \in 0 .. MaxRestarts
  /\ taken \subseteq Calls
  /\ runs \in [Calls -> Nat]
  /\ answer \in [Calls -> Reply \cup {NoReply}]

ServerInit == /\ server = "idle"
              /\ current = NoRequest
              /\ response = NoReply
              /\ stopping = FALSE
              /\ serverLife = "open"
              /\ restarts = 0
              /\ taken = {}
              /\ runs = [c \in Calls |-> 0]
              /\ answer = [c \in Calls |-> NoReply]

ServerSocketOpen == serverLife \in {"open", "closing"}

ServeForever ==
  /\ server \in Stopped
  /\ server' = "entry"
  /\ UNCHANGED <<current, response, stopping, serverLife, restarts, taken, runs, answer, wireVars>>

ClearStopping ==
  /\ server = "entry"
  /\ stopping' = FALSE
  /\ server' = "loop"
  /\ UNCHANGED <<current, response, serverLife, restarts, taken, runs, answer, wireVars>>

\* Mutant of LoopTest: `while True`.
LoopWithoutTest ==
  /\ server = "loop"
  /\ server' = "once"
  /\ UNCHANGED <<current, response, stopping, serverLife, restarts, taken, runs, answer, wireVars>>

LoopTest ==
  /\ server = "loop"
  /\ server' = IF stopping THEN "returned" ELSE "once"
  /\ UNCHANGED <<current, response, stopping, serverLife, restarts, taken, runs, answer, wireVars>>

EnterServeOnce ==
  /\ server = "once"
  /\ server' = IF serverLife = "closed" THEN "raised" ELSE "poll"
  /\ UNCHANGED <<current, response, stopping, serverLife, restarts, taken, runs, answer, wireVars>>

\* Nothing came within the poll interval.
PollIdle ==
  /\ server = "poll"
  /\ ServerSocketOpen
  /\ \A cl \in Clients : requests[cl] = <<>>
  /\ server' = "loop"
  /\ UNCHANGED <<current, response, stopping, serverLife, restarts, taken, runs, answer, wireVars>>

\* The socket was closed under the poll: ZMQError, excused when stopping.
PollError ==
  /\ server = "poll"
  /\ ~ServerSocketOpen
  /\ server' = IF stopping THEN "loop" ELSE "raised"
  /\ UNCHANGED <<current, response, stopping, serverLife, restarts, taken, runs, answer, wireVars>>

\* ROUTER fair-queues its peers: any nonempty pipe may be next.  A request
\* whose envelope cannot be read is dropped without an answer.
Take(cl) ==
  /\ server = "poll"
  /\ ServerSocketOpen
  /\ requests[cl] # <<>>
  /\ requests' = [requests EXCEPT ![cl] = Tail(@)]
  /\ LET m == Head(requests[cl]) IN
       \/ /\ ~Readable(m)
          /\ server' = "loop"
          /\ UNCHANGED <<current, response, taken>>
       \/ /\ Readable(m)
          /\ Rejection(m) # NoReply
          /\ server' = "reply"
          /\ response' = Rejection(m)
          /\ UNCHANGED <<current, taken>>
       \/ /\ Readable(m)
          /\ Rejection(m) = NoReply
          /\ server' = "dispatch"
          /\ current' = m
          /\ taken' = taken \cup {m.id}
          /\ UNCHANGED response
  /\ UNCHANGED <<stopping, serverLife, restarts, runs, answer, now, replies>>

\* Mutant of Dispatch: the handler decodes its own argument.
DispatchUndecoded ==
  /\ server = "dispatch"
  /\ runs' = [runs EXCEPT ![current.id] = @ + 1]
  /\ IF current.shape = "undecodable"
     THEN /\ server' = "reply"
          /\ response' = Failure(current, "invalid_argument")
          /\ current' = NoRequest
     ELSE /\ server' = "handler"
          /\ UNCHANGED <<current, response>>
  /\ UNCHANGED <<stopping, serverLife, restarts, taken, answer, wireVars>>

\* Decoding the payload takes time, and the deadline is not looked at again.
Dispatch ==
  /\ server = "dispatch"
  /\ IF current.shape = "undecodable"
     THEN /\ server' = "reply"
          /\ response' = Failure(current, "invalid_argument")
          /\ current' = NoRequest
          /\ UNCHANGED runs
     ELSE /\ server' = "handler"
          /\ runs' = [runs EXCEPT ![current.id] = @ + 1]
          /\ UNCHANGED <<current, response>>
  /\ UNCHANGED <<stopping, serverLife, restarts, taken, answer, wireVars>>

HandlerEnd(e) ==
  /\ server = "handler"
  /\ Encodable(e)
  /\ server' = "reply"
  /\ response' = Report(current, e)
  /\ current' = NoRequest
  /\ UNCHANGED <<stopping, serverLife, restarts, taken, runs, answer, wireVars>>

\* encode_envelope rejects the error envelope of an abort: RpcProtocolError
\* is raised inside the except clause and leaves serve_once.
HandlerBadAbort ==
  /\ server = "handler"
  /\ \E e \in HandlerEnds : ~Encodable(e)
  /\ server' = "raised"
  /\ current' = NoRequest
  /\ UNCHANGED <<response, stopping, serverLife, restarts, taken,
                 runs, answer, wireVars>>

\* Mutant of SendReply: no return after the reply that the response is too
\* large, so that the response follows it.
SendReplyAndResponse ==
  /\ server = "reply"
  /\ ServerSocketOpen
  /\ answer' = [answer EXCEPT ![response.id] = response]
  /\ replies' = [replies EXCEPT ![ClientOf[response.id]] = Append(@, response)]
  /\ IF response.status = "resource_exhausted"
     THEN /\ server' = "reply"
          /\ response' = [response EXCEPT !.status = "ok"]
     ELSE /\ server' = "loop"
          /\ response' = NoReply
  /\ UNCHANGED <<current, stopping, serverLife, restarts, taken,
                 runs, now, requests>>

\* ROUTER drops what a full pipe cannot take.  (What it cannot route, because
\* the client has closed, is left in a pipe that nobody reads.)
SendReply ==
  /\ server = "reply"
  /\ response' = NoReply
  /\ IF ServerSocketOpen
     THEN LET id == response.id
             cl == ClientOf[id] IN
          /\ server' = "loop"
          /\ answer' = [answer EXCEPT ![id] = response]
          /\ replies' = IF Len(replies[cl]) < Hwm
                        THEN [replies EXCEPT ![cl] = Append(@, response)]
                        ELSE replies
     ELSE /\ server' = "raised"
          /\ UNCHANGED <<answer, replies>>
  /\ UNCHANGED <<current, stopping, serverLife, restarts, taken,
                 runs, now, requests>>

Stop ==
  /\ "stop" \in Interventions
  /\ ~stopping
  /\ stopping' = TRUE
  /\ UNCHANGED <<server, current, response, serverLife, restarts, taken, runs, answer, wireVars>>

CloseSetsStopping ==
  /\ "close_server" \in Interventions
  /\ serverLife = "open"
  /\ serverLife' = "closing"
  /\ stopping' = TRUE
  /\ UNCHANGED <<server, current, response, restarts, taken, runs, answer, wireVars>>

\* LINGER 0: replies not yet transmitted are dropped with the socket.
CloseServerSocket ==
  /\ serverLife = "closing"
  /\ serverLife' = "unbound"
  /\ \E lost \in SUBSET Clients :
       replies' = [cl \in Clients |-> IF cl \in lost THEN <<>> ELSE replies[cl]]
  /\ UNCHANGED <<server, current, response, stopping, restarts, taken, runs,
                 answer, now, requests>>

CloseServerFlag ==
  /\ serverLife = "unbound"
  /\ serverLife' = "closed"
  /\ UNCHANGED <<server, current, response, stopping, restarts, taken,
                 runs, answer, wireVars>>

\* The process dies, at any point, and is started anew at its endpoint; the
\* requests it had not read are lost with it unless still in a client's pipe.
Restart ==
  /\ restarts < MaxRestarts
  /\ restarts' = restarts + 1
  /\ server' = "idle"
  /\ current' = NoRequest
  /\ response' = NoReply
  /\ stopping' = FALSE
  /\ serverLife' = "open"
  /\ \E lost \in SUBSET Clients :
       requests' = [cl \in Clients |-> IF cl \in lost THEN <<>> ELSE requests[cl]]
  /\ UNCHANGED <<taken, runs, answer, now, replies>>

\* The steps of the serving thread, the handler's included.
ServerStep ==
  \/ ClearStopping \/ LoopTest \/ EnterServeOnce
  \/ PollIdle \/ PollError \/ \E cl \in Clients : Take(cl)
  \/ Dispatch
  \/ \E e \in HandlerEnds : HandlerEnd(e)
  \/ HandlerBadAbort
  \/ SendReply

ServerNext ==
  \/ ServeForever
  \/ ServerStep
  \/ Stop \/ CloseSetsStopping \/ CloseServerSocket \/ CloseServerFlag
  \/ Restart
=============================================================================
