------------------------------ MODULE UnaryRpc ------------------------------
(***************************************************************************)
(* What every transport promises of a synchronous unary call               *)
(* (_base.py, RpcClient.call and RpcServer.serve_once), whatever carries   *)
(* the bytes:                                                              *)
(*   - a call is issued, and ends at most once;                            *)
(*   - the server accepts a call at most once, never before it was issued  *)
(*     and never after it ended by its deadline;                           *)
(*   - the handler of a call starts at most once, and only once accepted   *)
(*     (accepting compares the deadline; decoding follows, so the call may *)
(*     time out between the two);                                          *)
(*   - the server answers a call at most once, and answers "ok" only after *)
(*     its handler started;                                                *)
(*   - a call that ends with a remote outcome ends with the outcome of the *)
(*     server's answer to that very call.                                  *)
(* Nothing is promised about answers that never arrive: a call may give up *)
(* at any time.                                                            *)
(***************************************************************************)

CONSTANTS Calls,        \* the invocations of RpcClient.call
          Answers,      \* what a server can answer to a call
          NoAnswer,     \* the server has not answered
          OkAnswers,    \* the answers that carry a handler's response
          GiveUps,      \* the local ways for a call to end
          Ending        \* Ending[r]: how a call given the answer r ends

VARIABLES call,         \* call[c]: "idle", "open", or how c ended
          accepted,     \* the calls the server will hand to their handler
          started,      \* the calls whose handler has started
          answer        \* answer[c]: the server's answer to c, or NoAnswer

uvars == <<call, accepted, started, answer>>

Init == /\ call = [c \in Calls |-> "idle"]
        /\ accepted = {}
        /\ started = {}
        /\ answer = [c \in Calls |-> NoAnswer]

Issue(c) == /\ call[c] = "idle"
            /\ call' = [call EXCEPT ![c] = "open"]
            /\ UNCHANGED <<accepted, started, answer>>

\* A call that ended by its deadline is not accepted.
Accept(c) == /\ call[c] \notin {"idle", "timeout"}
             /\ c \notin accepted
             /\ answer[c] = NoAnswer
             /\ accepted' = accepted \cup {c}
             /\ UNCHANGED <<call, started, answer>>

Start(c) == /\ c \in accepted \ started
            /\ answer[c] = NoAnswer
            /\ started' = started \cup {c}
            /\ UNCHANGED <<call, accepted, answer>>

Answer(c, r) == /\ call[c] # "idle"
                /\ answer[c] = NoAnswer
                /\ r \in OkAnswers => c \in started
                /\ answer' = [answer EXCEPT ![c] = r]
                /\ UNCHANGED <<call, accepted, started>>

Return(c) == /\ call[c] = "open"
             /\ answer[c] # NoAnswer
             /\ call' = [call EXCEPT ![c] = Ending[answer[c]]]
             /\ UNCHANGED <<accepted, started, answer>>

GiveUp(c, e) == /\ call[c] \in {"idle", "open"}
                /\ call' = [call EXCEPT ![c] = e]
                /\ UNCHANGED <<accepted, started, answer>>

Next == \E c \in Calls :
          \/ Issue(c)
          \/ Accept(c)
          \/ Start(c)
          \/ \E r \in Answers : Answer(c, r)
          \/ Return(c)
          \/ \E e \in GiveUps : GiveUp(c, e)

Spec == Init /\ [][Next]_uvars
=============================================================================
