-------------------------- MODULE RpcMessagesProofs --------------------------
(***************************************************************************)
(* Lemmas about the messages of RpcMessages, and the sequences that carry  *)
(* them, for the proofs about the transports.                              *)
(***************************************************************************)
EXTENDS RpcMessages, TLAPS

\* A failure that the server reports on a request is a reply to it.
LEMMA FailureType ==
  ASSUME NEW m, m.id \in Calls, NEW status \in Failures
  PROVE  /\ Failure(m, status) \in Reply
         /\ Failure(m, status).id = m.id
         /\ Failure(m, status).status = status
<1> QED BY DEF Failure, Reply, Bodies

\* A refusal is a reply.
LEMMA RejectionType ==
  ASSUME NEW m, m.id \in Calls
  PROVE  Rejection(m) \in Reply \cup {NoReply}
<1> QED BY FailureType DEF Rejection, Failures

\* What the server reports after a handler is a reply: of a handler that
\* returned it says "ok", of any other it is a failure, and no refusal.
LEMMA ReportType ==
  ASSUME NEW m, m.id \in Calls, NEW e \in AllHandlerEnds, Encodable(e)
  PROVE  /\ Report(m, e) \in Reply
         /\ Report(m, e).id = m.id
         /\ Report(m, e).status \in {"ok", "resource_exhausted", "aborted", "internal"}
<1>1. e \in {"fit", "unfit", "oversize", "abort", "exception"}
  BY DEF AllHandlerEnds, Encodable
<1>2. CASE e \in Bodies
  BY <1>2 DEF Report, Reply
<1>3. CASE e \notin Bodies
  <2>1. \A status \in Failures : /\ Failure(m, status) \in Reply
                                 /\ Failure(m, status).id = m.id
                                 /\ Failure(m, status).status = status
    BY FailureType
  <2>2. e \in {"oversize", "abort", "exception"}
    BY <1>1, <1>3 DEF Bodies
  <2>3. HandlerFailure[e] \in {"resource_exhausted", "aborted", "internal"}
    BY <2>2 DEF HandlerFailure
  <2> QED BY <1>3, <2>1, <2>3 DEF Report, Failures
<1> QED BY <1>2, <1>3

\* What a reply tells its caller is an outcome.
LEMMA OutcomeType ==
  ASSUME NEW m \in Reply
  PROVE  Outcome(m) \in Results
<1> QED BY DEF Outcome, Reply, Results, LocalErrors, Failures, Bodies

\* The server answers with replies, never with NoReply.
LEMMA NoReplyIsNoReply == NoReply \notin Reply
<1> QED BY RpcAssumption DEF NoReply, Reply

\* Taking the first message of a pipe keeps its type.
LEMMA HeadTailType ==
  ASSUME NEW S, NEW q \in Seq(S), q # <<>>
  PROVE  /\ Head(q) \in S
         /\ Tail(q) \in Seq(S)
         /\ Len(q) > 0
         /\ Len(Tail(q)) = Len(q) - 1
         /\ Head(q) = q[1]
         /\ \A i \in 1 .. Len(Tail(q)) : Tail(q)[i] = q[i + 1]
<1> QED OBVIOUS

\* Appending adds one message behind those that are there.
LEMMA AppendFacts ==
  ASSUME NEW S, NEW q \in Seq(S), NEW e \in S
  PROVE  /\ Append(q, e) \in Seq(S)
         /\ Len(Append(q, e)) = Len(q) + 1
         /\ \A i \in 1 .. Len(q) : Append(q, e)[i] = q[i]
         /\ Append(q, e)[Len(q) + 1] = e
         /\ Len(q) \in Nat
<1> QED OBVIOUS
=============================================================================
