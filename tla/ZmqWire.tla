------------------------------- MODULE ZmqWire -------------------------------
(***************************************************************************)
(* What a DEALER client and the ROUTER server of _zmq.py share: the queues *)
(* that carry requests and replies, and the clock.                         *)
(***************************************************************************)
EXTENDS RpcMessages

CONSTANTS Hwm,            \* messages a peer's pipe holds (ZMQ_SNDHWM)
          Interventions   \* what may befall the system, of those below

\* A connection breaks, a thread closes a client that others are using, a
\* thread calls stop() or close() on the server.
AllInterventions == {"lose", "close_client", "stop", "close_server"}

ASSUME WireAssumption == Hwm \in Nat \ {0} /\ Interventions \subseteq AllInterventions

VARIABLES requests,       \* requests[cl]: the pipe from cl to the server
          replies         \* replies[cl]: the pipe from the server to cl

wireVars == <<now, requests, replies>>

WireTypeOK == /\ now \in 0 .. MaxTime
              /\ requests \in [Clients -> Seq(Request)]
              /\ replies \in [Clients -> Seq(Reply)]

WireInit == /\ now = 0
            /\ requests = [cl \in Clients |-> <<>>]
            /\ replies = [cl \in Clients |-> <<>>]

Tick == /\ now < MaxTime
        /\ now' = now + 1
        /\ UNCHANGED <<requests, replies>>

\* A connection breaks: what its pipe holds is lost.  libzmq reconnects the
\* DEALER and neither side is told.
LoseConnection(cl) == /\ "lose" \in Interventions
                      /\ requests' = [requests EXCEPT ![cl] = <<>>]
                      /\ replies' = [replies EXCEPT ![cl] = <<>>]
                      /\ UNCHANGED now
=============================================================================
