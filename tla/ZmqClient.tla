------------------------------ MODULE ZmqClient ------------------------------
(***************************************************************************)
(* ZmqRpcClient: call(), one step per point at which another thread, the   *)
(* server or the clock can intervene, and close().                         *)
(*                                                                         *)
(* pc[c] follows one invocation of call():                                 *)
(*   idle -> ready     arguments checked, deadline fixed, message encoded  *)
(*   ready -> locked   `with self._lock`                                   *)
(*   locked -> loop    send_multipart                                      *)
(*   loop -> poll      the remaining time computed                         *)
(*   poll -> loop      a response to another request was discarded         *)
(*   done              returned or raised; result[c] says which            *)
(***************************************************************************)
EXTENDS ZmqWire

CONSTANTS Timeouts,       \* the effective timeouts callers use
          SentShapes      \* the shapes of the requests they make

ASSUME ClientAssumption == /\ Timeouts \subseteq Nat \cup {NoDeadline}
                           /\ SentShapes \subseteq Shapes

VARIABLES pc, deadline, shape, result,
          lock,           \* lock[cl]: the call inside `with self._lock`
          clientLife      \* "open", "unbound" (socket closed), "closed" (flag)

clientVars == <<pc, deadline, shape, result, lock, clientLife>>

InLock == {"locked", "loop", "poll"}

ClientTypeOK ==
  /\ pc \in [Calls -> {"idle", "ready", "done"} \cup InLock]
  /\ deadline \in [Calls -> -1 .. MaxTime]
  /\ shape \in [Calls -> Shapes]
  /\ result \in [Calls -> {"none"} \cup Results]
  /\ lock \in [Clients -> Calls \cup {NoCall}]
  /\ clientLife \in [Clients -> {"open", "unbound", "closed"}]

ClientInit == /\ pc = [c \in Calls |-> "idle"]
              /\ deadline = [c \in Calls |-> NoDeadline]
              /\ shape = [c \in Calls |-> "good"]
              /\ result = [c \in Calls |-> "none"]
              /\ lock = [cl \in Clients |-> NoCall]
              /\ clientLife = [cl \in Clients |-> "open"]

SocketOpen(c) == clientLife[ClientOf[c]] = "open"

Goto(c, label) == pc' = [pc EXCEPT ![c] = label]

\* Mutant of Finish: the lock is released on success only.
FinishKeepingLock(c, res) ==
  /\ pc' = [pc EXCEPT ![c] = "done"]
  /\ result' = [result EXCEPT ![c] = res]
  /\ lock' = [lock EXCEPT ![ClientOf[c]] = IF @ = c /\ res = "ok" THEN NoCall ELSE @]
  /\ UNCHANGED <<deadline, shape, clientLife>>

\* call() returns or raises; the lock, if c holds it, is released on the way.
Finish(c, res) ==
  /\ pc' = [pc EXCEPT ![c] = "done"]
  /\ result' = [result EXCEPT ![c] = res]
  /\ lock' = [lock EXCEPT ![ClientOf[c]] = IF @ = c THEN NoCall ELSE @]
  /\ UNCHANGED <<deadline, shape, clientLife>>

\* The deadline is fixed before the lock is taken: waiting for it counts.
Begin(c) ==
  /\ pc[c] = "idle"
  /\ clientLife[ClientOf[c]] # "closed"
  /\ \E t \in Timeouts, s \in SentShapes :
       /\ t # NoDeadline => now + t <= MaxTime
       /\ deadline' = [deadline EXCEPT ![c] = IF t = NoDeadline THEN t ELSE now + t]
       /\ shape' = [shape EXCEPT ![c] = s]
  /\ Goto(c, "ready")
  /\ UNCHANGED <<result, lock, clientLife, wireVars>>

\* The client is closed, or the request is above the client's own limits.
BeginFails(c) ==
  /\ pc[c] = "idle"
  /\ \/ /\ clientLife[ClientOf[c]] = "closed"
        /\ Finish(c, "transport_error")
     \/ /\ clientLife[ClientOf[c]] # "closed"
        /\ Finish(c, "protocol_error")
  /\ UNCHANGED wireVars

\* Mutant of Acquire: call() without the lock.
AcquireUnguarded(c) ==
  /\ pc[c] = "ready"
  /\ lock' = [lock EXCEPT ![ClientOf[c]] = c]
  /\ Goto(c, "locked")
  /\ UNCHANGED <<deadline, shape, result, clientLife, wireVars>>

\* `with self._lock`: no timeout, whatever the deadline.
Acquire(c) ==
  /\ pc[c] = "ready"
  /\ lock[ClientOf[c]] = NoCall
  /\ lock' = [lock EXCEPT ![ClientOf[c]] = c]
  /\ Goto(c, "locked")
  /\ UNCHANGED <<deadline, shape, result, clientLife, wireVars>>

\* Mutant of Send: the request is sent again after a lost connection.
SendAgain(c) ==
  /\ pc[c] \in {"locked", "poll"}
  /\ SocketOpen(c)
  /\ requests[ClientOf[c]] = <<>>
  /\ requests' = [requests EXCEPT ![ClientOf[c]] =
        Append(@, [id |-> c, deadline |-> deadline[c], shape |-> shape[c]])]
  /\ Goto(c, "loop")
  /\ UNCHANGED <<deadline, shape, result, lock, clientLife, now, replies>>

\* Sent at most once, even when the deadline passed during the wait.
Send(c) ==
  /\ pc[c] = "locked"
  /\ SocketOpen(c)
  /\ Len(requests[ClientOf[c]]) < Hwm
  /\ requests' = [requests EXCEPT ![ClientOf[c]] =
        Append(@, [id |-> c, deadline |-> deadline[c], shape |-> shape[c]])]
  /\ Goto(c, "loop")
  /\ UNCHANGED <<deadline, shape, result, lock, clientLife, now, replies>>

\* The pipe stayed full for SNDTIMEO (zmq.Again), or the socket is closed.
SendFails(c) ==
  /\ pc[c] = "locked"
  /\ \/ /\ SocketOpen(c)
        /\ Len(requests[ClientOf[c]]) = Hwm
        /\ Finish(c, "timeout")
     \/ /\ ~SocketOpen(c)
        /\ Finish(c, "transport_error")
  /\ UNCHANGED wireVars

\* poll_ms == 0 at the head of the loop ends the call.
LoopHead(c) ==
  /\ pc[c] = "loop"
  /\ IF Expired(deadline[c])
     THEN Finish(c, "timeout")
     ELSE /\ Goto(c, "poll")
          /\ UNCHANGED <<deadline, shape, result, lock, clientLife>>
  /\ UNCHANGED wireVars

\* Mutant of IsResponseTo: the request ID is not compared.
IsAnyResponse(c, m) == TRUE

IsResponseTo(c, m) == m.id = c

\* A response to an earlier call that timed out is discarded.
Receive(c) ==
  /\ pc[c] = "poll"
  /\ SocketOpen(c)
  /\ replies[ClientOf[c]] # <<>>
  /\ replies' = [replies EXCEPT ![ClientOf[c]] = Tail(@)]
  /\ LET m == Head(replies[ClientOf[c]]) IN
       IF IsResponseTo(c, m)
       THEN Finish(c, Outcome(m))
       ELSE /\ Goto(c, "loop")
            /\ UNCHANGED <<deadline, shape, result, lock, clientLife>>
  /\ UNCHANGED <<now, requests>>

\* Mutant of PollExpires: poll() without a timeout.
PollNeverExpires(c) ==
  /\ pc[c] = "poll"
  /\ ~SocketOpen(c)
  /\ Finish(c, "timeout")
  /\ UNCHANGED wireVars

\* poll() returned 0.
PollExpires(c) ==
  /\ pc[c] = "poll"
  /\ Expired(deadline[c])
  /\ replies[ClientOf[c]] = <<>> \/ ~SocketOpen(c)
  /\ Finish(c, "timeout")
  /\ UNCHANGED wireVars

\* close() ran under a poll in another thread.  libzmq leaves this
\* undefined: the poll may fail, or (PollExpires, or never) go on.
PollFails(c) ==
  /\ pc[c] = "poll"
  /\ ~SocketOpen(c)
  /\ Finish(c, "transport_error")
  /\ UNCHANGED wireVars

\* close() does not take the lock.  LINGER 0 drops what was not transmitted
\* (of a message already on its way nothing is said) and the server's
\* replies to this peer become unroutable.
CloseSocket(cl) ==
  /\ "close_client" \in Interventions
  /\ clientLife[cl] = "open"
  /\ clientLife' = [clientLife EXCEPT ![cl] = "unbound"]
  /\ \E kept \in {<<>>, requests[cl]} :
       requests' = [requests EXCEPT ![cl] = kept]
  /\ replies' = [replies EXCEPT ![cl] = <<>>]
  /\ UNCHANGED <<pc, deadline, shape, result, lock, now>>

CloseFlag(cl) ==
  /\ clientLife[cl] = "unbound"
  /\ clientLife' = [clientLife EXCEPT ![cl] = "closed"]
  /\ UNCHANGED <<pc, deadline, shape, result, lock, wireVars>>

\* The steps of call() that the thread takes on its own.
CallStep(c) == \/ Acquire(c) \/ Send(c) \/ SendFails(c)
               \/ LoopHead(c) \/ Receive(c) \/ PollExpires(c)

ClientNext == \/ \E c \in Calls : \/ Begin(c) \/ BeginFails(c)
                                  \/ CallStep(c) \/ PollFails(c)
              \/ \E cl \in Clients : CloseSocket(cl) \/ CloseFlag(cl)
=============================================================================
