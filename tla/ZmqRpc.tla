------------------------------- MODULE ZmqRpc -------------------------------
(***************************************************************************)
(* Unary RPC over ZeroMQ (_zmq.py): ZmqRpcClient objects shared by threads,*)
(* and one ZmqRpcServer, exchanging messages over pipes that may break.    *)
(***************************************************************************)
EXTENDS ZmqClient, ZmqServer

vars == <<wireVars, clientVars, serverVars>>

Init == WireInit /\ ClientInit /\ ServerInit

Environment == \/ Tick
               \/ \E cl \in Clients : LoseConnection(cl)

Next == \/ ClientNext /\ UNCHANGED serverVars
        \/ ServerNext /\ UNCHANGED clientVars
        \/ Environment /\ UNCHANGED <<clientVars, serverVars>>

Spec == Init /\ [][Next]_vars

\* Threads inside call() and serve_forever() are scheduled, handlers end, and
\* time passes.  Nobody has to start, stop, close or crash anything.
Fairness == /\ WF_vars(Tick /\ UNCHANGED <<clientVars, serverVars>>)
            /\ \A c \in Calls : WF_vars(CallStep(c) /\ UNCHANGED serverVars)
            /\ WF_vars(ServerStep /\ UNCHANGED clientVars)

FairSpec == Spec /\ Fairness

-----------------------------------------------------------------------------
TypeOK == WireTypeOK /\ ClientTypeOK /\ ServerTypeOK

\* A caller never gets another call's response, though responses to calls
\* that timed out stay queued on the socket for the next call to find: the
\* outcome of a call is the outcome of the server's answer to that call.
Correlation ==
  \A c \in Calls :
    result[c] \in {"ok"} \cup Failures =>
      /\ answer[c] # NoReply
      /\ result[c] = Outcome(answer[c])

\* What call() discards from its socket, nobody is waiting for: a reply in a
\* client's pipe belongs to the call that holds the client's lock, or to one
\* that has ended.
OnlyLateDiscarded ==
  \A cl \in Clients : \A i \in 1 .. Len(replies[cl]) :
    LET id == replies[cl][i].id IN lock[cl] = id \/ pc[id] = "done"

\* No handler starts twice for a call, whatever breaks or restarts: neither
\* client nor server repeats anything.
AtMostOnce == \A c \in Calls : runs[c] <= 1

\* A caller told "ok" had its handler run once; one told that its request was
\* refused may retry: the handler did not run.  (A handler may abort with
\* any status; here its aborts are told apart as "aborted".)
HonestOutcome ==
  \A c \in Calls : /\ result[c] = "ok" => runs[c] = 1
                   /\ result[c] \in Refusals => runs[c] = 0

\* Once a caller was told its call timed out, its request may still be in the
\* pipe, but the server does not accept it.  (One it accepted before may
\* start its handler after: serve_once compares the deadline before it
\* decodes the payload.)
NoAcceptAfterTimeout ==
  [][\A c \in taken' \ taken : result[c] # "timeout"]_vars

\* Every call that passed its checks ends, when all timeouts are finite, even
\* if the server never starts, stops, dies or closes, messages are lost, the
\* client is closed under it, or it waits behind other calls for the lock.
CallsEnd == \A c \in Calls : pc[c] = "ready" ~> pc[c] = "done"

\* While nothing breaks, a call ends even without a deadline, unless the
\* serving loop stops: no request or reply is forgotten, and the client's
\* lock is always released to the calls that wait for it.
ServedCallsEnd ==
  \A c \in Calls : pc[c] = "ready" ~> pc[c] = "done" \/ server \in Stopped

\* stop() or close() ends a serving loop that is past clearing the flag,
\* whatever the loop is doing; serve_forever may raise but does not hang.
StopEnds == stopping /\ server \notin Stopped \cup {"entry"} ~> server \in Stopped

-----------------------------------------------------------------------------
(* What the documentation says and the code does not do.                   *)

\* "Stop the handler and return a structured error to the caller"
\* (_protocol.py:56): every end of a handler is reported to the caller.
HandlerEndReported ==
  [][server = "handler" /\ server' # "handler" => server' = "reply"]_vars

-----------------------------------------------------------------------------
\* Refinement of what every transport promises of a call.
Unary == INSTANCE UnaryRpc WITH
  Answers <- Reply,
  NoAnswer <- NoReply,
  OkAnswers <- {r \in Reply : r.status = "ok"},
  GiveUps <- LocalErrors,
  Ending <- [r \in Reply |-> Outcome(r)],
  call <- [c \in Calls |-> IF pc[c] = "idle" THEN "idle"
                           ELSE IF pc[c] = "done" THEN result[c] ELSE "open"],
  accepted <- taken,
  started <- {c \in Calls : runs[c] > 0},
  answer <- answer

\* Each step of client, server or network is a step of UnaryRpc, or none.
RefinesUnaryRpc == Unary!Spec
=============================================================================
