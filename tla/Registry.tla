------------------------------ MODULE Registry ------------------------------
(***************************************************************************)
(* What service discovery promises (_discovery.py, DiscoveryBackend, as    *)
(* DiscoveredRpcServer uses it), for one service:                          *)
(*   - only a server that serves has itself listed, and one that left is   *)
(*     not listed any more; one that died may stay;                        *)
(*   - a listing may fade at any time: the server was late, or another     *)
(*     took its name;                                                      *)
(*   - a lookup finds a server that was listed at some moment of the       *)
(*     lookup, and finds nothing only if no server was listed and fresh    *)
(*     all along; if the backend cannot be read it says so.                *)
(***************************************************************************)

CONSTANTS Servers, Lookups

VARIABLES status,       \* status[s]: "off", "on" or "dead"
          listed,       \* the servers that have a record
          fresh,        \* those whose record is not stale
          answer,       \* answer[l]: "none", "open", "nothing", "error" or a server
          possible,     \* possible[l]: listed at some moment of the lookup
          certain       \* certain[l]: listed and fresh throughout

rvars == <<status, listed, fresh, answer, possible, certain>>

Init == /\ status = [s \in Servers |-> "off"]
        /\ listed = {}
        /\ fresh = {}
        /\ answer = [l \in Lookups |-> "none"]
        /\ possible = [l \in Lookups |-> {}]
        /\ certain = [l \in Lookups |-> {}]

Turn(s, st) == status' = [status EXCEPT ![s] = st] /\ UNCHANGED <<listed, fresh, answer>>

Join(s) == status[s] # "on" /\ Turn(s, "on")

\* The listing of s is withdrawn, with whatever else had its name.
Leave(s) == /\ status[s] = "on"
            /\ status' = [status EXCEPT ![s] = "off"]
            /\ \E others \in SUBSET (listed \ {s}) :
                 /\ listed' = others
                 /\ fresh' = fresh \cap others
            /\ UNCHANGED answer

Die(s) == status[s] = "on" /\ Turn(s, "dead")

\* s is listed, perhaps in the place of another.
Publish(s) == /\ status[s] = "on"
              /\ \E others \in SUBSET (listed \ {s}) :
                   /\ listed' = others \cup {s}
                   /\ fresh' \in {fresh \cap others, (fresh \cap others) \cup {s}}
              /\ UNCHANGED <<status, answer>>

Fade == /\ \E others \in SUBSET listed : listed' = others
        /\ \E others \in SUBSET (fresh \cap listed') : fresh' = others
        /\ UNCHANGED <<status, answer>>

Answer(l, a) == answer' = [answer EXCEPT ![l] = a] /\ UNCHANGED <<status, listed, fresh>>

Ask(l) == answer[l] = "none" /\ Answer(l, "open")

Find(l, s) == answer[l] = "open" /\ s \in possible[l] /\ Answer(l, s)

FindNothing(l) == answer[l] = "open" /\ certain[l] = {} /\ Answer(l, "nothing")

Fail(l) == answer[l] = "open" /\ Answer(l, "error")

\* What lookups in progress could see, and cannot miss.
Watch ==
  /\ possible' = [l \in Lookups |->
       IF answer'[l] # "open" THEN {}
       ELSE listed' \cup IF answer[l] = "open" THEN possible[l] ELSE {}]
  /\ certain' = [l \in Lookups |->
       IF answer'[l] # "open" THEN {}
       ELSE fresh' \cap IF answer[l] = "open" THEN certain[l] ELSE Servers]

Next == /\ \/ \E s \in Servers : Join(s) \/ Leave(s) \/ Die(s) \/ Publish(s)
           \/ Fade
           \/ \E l \in Lookups : \/ Ask(l) \/ FindNothing(l) \/ Fail(l)
                             \/ \E s \in Servers : Find(l, s)
        /\ Watch

Spec == Init /\ [][Next]_rvars
=============================================================================
