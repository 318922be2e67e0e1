----------------------------- MODULE RepeatedRpc -----------------------------
(***************************************************************************)
(* What a transport promises of a call when it may transmit a request      *)
(* again by itself, as NNG's REQ socket does (_nng.py): the handler of one *)
(* call may run several times.  Otherwise as in UnaryRpc:                  *)
(*   - a request is transmitted only while its call is open;               *)
(*   - no more copies are accepted than were transmitted, no more handlers *)
(*     started than copies accepted, none accepted after the call ended by *)
(*     its deadline;                                                       *)
(*   - "ok" is answered only after the handler started;                    *)
(*   - a call that ends with a remote outcome ends with the outcome of one *)
(*     of the server's answers to that very call.                          *)
(***************************************************************************)
EXTENDS Naturals

CONSTANTS Calls,        \* the invocations of RpcClient.call
          Answers,      \* what a server can answer to a call
          OkAnswers,    \* the answers that carry a handler's response
          GiveUps,      \* the local ways for a call to end
          Ending        \* Ending[r]: how a call given the answer r ends

VARIABLES call,         \* call[c]: "idle", "open", or how c ended
          copies,       \* copies[c]: how often the request was transmitted
          accepted,     \* accepted[c]: how many of them passed the checks
          started,      \* started[c]: how often the handler started
          answers       \* answers[c]: what the server answered to c

rvars == <<call, copies, accepted, started, answers>>

Init == /\ call = [c \in Calls |-> "idle"]
        /\ copies = [c \in Calls |-> 0]
        /\ accepted = [c \in Calls |-> 0]
        /\ started = [c \in Calls |-> 0]
        /\ answers = [c \in Calls |-> {}]

Issue(c) == /\ call[c] = "idle"
            /\ call' = [call EXCEPT ![c] = "open"]
            /\ UNCHANGED <<copies, accepted, started, answers>>

Transmit(c) == /\ call[c] = "open"
               /\ copies' = [copies EXCEPT ![c] = @ + 1]
               /\ UNCHANGED <<call, accepted, started, answers>>

Accept(c) == /\ call[c] # "timeout"
             /\ accepted[c] < copies[c]
             /\ accepted' = [accepted EXCEPT ![c] = @ + 1]
             /\ UNCHANGED <<call, copies, started, answers>>

Start(c) == /\ started[c] < accepted[c]
            /\ started' = [started EXCEPT ![c] = @ + 1]
            /\ UNCHANGED <<call, copies, accepted, answers>>

Answer(c, r) == /\ copies[c] > 0
                /\ r \in OkAnswers => started[c] > 0
                /\ answers' = [answers EXCEPT ![c] = @ \cup {r}]
                /\ UNCHANGED <<call, copies, accepted, started>>

Return(c) == /\ call[c] = "open"
             /\ \E r \in answers[c] : call' = [call EXCEPT ![c] = Ending[r]]
             /\ UNCHANGED <<copies, accepted, started, answers>>

GiveUp(c, e) == /\ call[c] \in {"idle", "open"}
                /\ call' = [call EXCEPT ![c] = e]
                /\ UNCHANGED <<copies, accepted, started, answers>>

Next == \E c \in Calls :
          \/ Issue(c)
          \/ Transmit(c)
          \/ Accept(c)
          \/ Start(c)
          \/ \E r \in Answers : Answer(c, r)
          \/ Return(c)
          \/ \E e \in GiveUps : GiveUp(c, e)

Spec == Init /\ [][Next]_rvars
=============================================================================
