----------------------------- MODULE RpcMessages -----------------------------
(***************************************************************************)
(* What the transports share: requests and replies, reduced to what their  *)
(* checks tell apart, and the clock against which both sides compare a     *)
(* deadline (time.time_ns(); one clock, so the models are of processes     *)
(* whose clocks agree).                                                    *)
(*                                                                         *)
(* A call is named by its request ID: uuid4() makes it fresh, so an        *)
(* element of Calls stands for one invocation of RpcClient.call and for    *)
(* its ID.  ClientOf[c] is the client object it is made on.                *)
(***************************************************************************)
EXTENDS Integers, Sequences

CONSTANTS Calls,          \* invocations of call(), each with its request ID
          NoCall,         \* not a call: the client's lock is free
          Clients,        \* client objects
          ClientOf,       \* the client object a call is made on
          MaxTime         \* bound on the clock

ASSUME RpcAssumption == /\ NoCall \notin Calls
                        /\ ClientOf \in [Calls -> Clients]
                        /\ MaxTime \in Nat

VARIABLE now              \* time.time_ns(), in ticks

\* deadline_unix_ns is None.
NoDeadline == -1

\* deadline is not None and time.time_ns() >= deadline
Expired(deadline) == deadline # NoDeadline /\ now >= deadline

\* What the server's checks tell apart in a request: an envelope that
\* decode_envelope rejects, a method nobody registered, a payload above the
\* server's limit, a payload that does not decode, and a good one.
Shapes == {"good", "unreadable", "unknown_method", "large", "undecodable"}

Request == [id : Calls, deadline : -1 .. MaxTime, shape : Shapes]
NoRequest == [id |-> NoCall, deadline |-> NoDeadline, shape |-> "good"]

\* decode_envelope accepts the envelope: JSON of this version of the protocol,
\* with a UUID for an ID and the fields of its kind.
Readable(m) == m.shape # "unreadable"

\* The statuses of the failures the server reports; "aborted" stands for
\* whatever status a handler aborts with.
Failures == {"unimplemented", "deadline_exceeded", "resource_exhausted",
             "invalid_argument", "internal", "aborted"}

\* The ways for a call to end without an answer to it, and all its ends.
LocalErrors == {"timeout", "transport_error", "protocol_error"}
Results == {"ok"} \cup Failures \cup LocalErrors

\* The statuses of the checks that come before the handler.
Refusals == {"unimplemented", "deadline_exceeded", "invalid_argument"}

\* What the caller's checks tell apart in a response: one above the client's
\* limit or of another type than response_type, and one that fits.
Bodies == {"fit", "unfit"}

Reply == [id : Calls, status : {"ok"} \cup Failures, body : Bodies]
NoReply == [id |-> NoCall, status |-> "none", body |-> "unfit"]

\* How a call given the response m ends.
Outcome(m) == IF m.status # "ok" THEN m.status
              ELSE IF m.body = "fit" THEN "ok" ELSE "protocol_error"

Failure(m, status) == [id |-> m.id, status |-> status, body |-> "unfit"]

\* Mutant of TooLate: the deadline is not compared.
NeverTooLate(m) == FALSE

\* The deadline is compared once, before the payload is decoded.
TooLate(m) == Expired(m.deadline)

\* Mutant of Rejection: an expired request is reported by a name that is no
\* status.
RejectionRaw(m) == IF TooLate(m) THEN Failure(m, "expired") ELSE NoReply

\* The failure that the first failing check reports for m, in the order of
\* _zmq.py and _iceoryx2.py; NoReply when m passes them.
Rejection(m) ==
  IF m.shape = "unknown_method" THEN Failure(m, "unimplemented")
  ELSE IF TooLate(m) THEN Failure(m, "deadline_exceeded")
  ELSE IF m.shape = "large" THEN Failure(m, "resource_exhausted")
  ELSE NoReply

\* A response that fits or does not suit the caller, one above the server's
\* limit, context.abort(), an abort whose details do not fit in an envelope
\* (not JSON, or above max_envelope_bytes), and any other exception.
AllHandlerEnds == {"fit", "unfit", "oversize", "abort", "bad_abort", "exception"}

\* How the handler's end e is reported.
HandlerFailure == [oversize |-> "resource_exhausted", abort |-> "aborted",
                   exception |-> "internal"]

\* Mutant of Report: an abort is reported by a name that is no status.
ReportRaw(m, e) == [id |-> m.id, status |-> IF e = "abort" THEN e ELSE "ok", body |-> "fit"]

Report(m, e) == IF e \in Bodies
                THEN [id |-> m.id, status |-> "ok", body |-> e]
                ELSE Failure(m, HandlerFailure[e])

\* encode_envelope accepts the envelope that reports e: it is JSON, and within
\* the limit.
Encodable(e) == e # "bad_abort"
=============================================================================
