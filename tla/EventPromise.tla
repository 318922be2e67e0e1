---------------------------- MODULE EventPromise ----------------------------
(***************************************************************************)
(* What completion events promise (_event.py, RpcEvent), whatever stores   *)
(* them:                                                                   *)
(*   - an event is created open, and takes one outcome at most once: the   *)
(*     one it was set to, or "abandoned" when its owner's lease ran out;   *)
(*   - only an event with an outcome loses its place to a newer one, for   *)
(*     ever;                                                               *)
(*   - a waiter is told the outcome of the event it asked about, or that   *)
(*     the event lost its place, or, if its patience was finite, nothing.  *)
(***************************************************************************)

CONSTANTS Events, Waiters,
          Outcomes,     \* what an event can be set to
          Impatient,    \* the waiters with a timeout
          NoEvent       \* the waiter has not asked yet

VARIABLES outcome,      \* outcome[e]: "unborn", "open" or how e ended
          recycled,     \* the events that lost their place
          asked,        \* asked[w]: the event w waits for
          told          \* told[w]: what w was told, or "none"

evars == <<outcome, recycled, asked, told>>

Ended(e) == outcome[e] \notin {"unborn", "open"}

Init == /\ outcome = [e \in Events |-> "unborn"]
        /\ recycled = {}
        /\ asked = [w \in Waiters |-> NoEvent]
        /\ told = [w \in Waiters |-> "none"]

\* A new event opens in a place nobody had.
Create(e) == /\ outcome[e] = "unborn"
             /\ outcome' = [outcome EXCEPT ![e] = "open"]
             /\ UNCHANGED <<recycled, asked, told>>

\* A new event opens in the place of an ended one.
Replace(e, old) == /\ outcome[e] = "unborn"
                   /\ Ended(old)
                   /\ old \notin recycled
                   /\ outcome' = [outcome EXCEPT ![e] = "open"]
                   /\ recycled' = recycled \cup {old}
                   /\ UNCHANGED <<asked, told>>

\* A new event opens in the place of one that is abandoned for it.
Evict(e, old) == /\ outcome[e] = "unborn"
                 /\ outcome[old] = "open"
                 /\ outcome' = [outcome EXCEPT ![e] = "open", ![old] = "abandoned"]
                 /\ recycled' = recycled \cup {old}
                 /\ UNCHANGED <<asked, told>>

End(e, o) == /\ outcome[e] = "open"
             /\ outcome' = [outcome EXCEPT ![e] = o]
             /\ UNCHANGED <<recycled, asked, told>>

Ask(w, e) == /\ asked[w] = NoEvent
             /\ outcome[e] # "unborn"
             /\ asked' = [asked EXCEPT ![w] = e]
             /\ UNCHANGED <<outcome, recycled, told>>

Tell(w, answer) == /\ told[w] = "none"
                   /\ told' = [told EXCEPT ![w] = answer]
                   /\ UNCHANGED <<outcome, recycled, asked>>

TellOutcome(w) == /\ asked[w] \in Events
                  /\ Ended(asked[w])
                  /\ Tell(w, outcome[asked[w]])

TellExpired(w) == asked[w] \in recycled /\ Tell(w, "expired")

TellNothing(w) == /\ asked[w] \in Events
                  /\ w \in Impatient
                  /\ Tell(w, "timeout")

\* What changes is said first: most steps of those who implement this do not.
Next == \/ /\ UNCHANGED <<asked, told>>
           /\ outcome' # outcome
           /\ \E e \in Events :
                \/ Create(e)
                \/ \E old \in Events \ {e} : Replace(e, old) \/ Evict(e, old)
                \/ \E o \in Outcomes \cup {"abandoned"} : End(e, o)
        \/ /\ UNCHANGED <<outcome, recycled>>
           /\ <<asked, told>>' # <<asked, told>>
           /\ \E w \in Waiters :
                \/ \E e \in Events : Ask(w, e)
                \/ TellOutcome(w) \/ TellExpired(w) \/ TellNothing(w)

Spec == Init /\ [][Next]_evars
=============================================================================
