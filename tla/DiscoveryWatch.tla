--------------------------- MODULE DiscoveryWatch ---------------------------
(***************************************************************************)
(* FilesystemDiscovery with two observers that affect nothing: one notes   *)
(* what each lookup in progress could see, and cannot miss; the other      *)
(* which instances ever had a stale record.                                *)
(***************************************************************************)
EXTENDS FilesystemDiscovery

VARIABLES possible, certain,    \* as in Registry
          late                  \* the IDs that had a stale record

watchVars == <<vars, possible, certain, late>>

Fresh == {s \in Listed : file[InstanceId[s]].heartbeat >= now - Timeout}

Stale == {i \in Ids : file[i] # NoRecord /\ file[i].heartbeat < now - Timeout}

Open(l) == lpc[l] \notin {"idle", "done"}

WatchInit == /\ Init
             /\ possible = [l \in Lookups |-> {}]
             /\ certain = [l \in Lookups |-> {}]
             /\ late = {}

Watch ==
  /\ possible' = [l \in Lookups |->
       IF ~Open(l)' THEN {}
       ELSE Listed' \cup IF Open(l) THEN possible[l] ELSE {}]
  /\ certain' = [l \in Lookups |->
       IF ~Open(l)' THEN {}
       ELSE Fresh' \cap IF Open(l) THEN certain[l] ELSE Servers]
  /\ late' = late \cup Stale'

WatchNext == Next /\ Watch

WatchSpec == WatchInit /\ [][WatchNext]_watchVars

\* A server whose heartbeats were always in time, and whose ID is its own,
\* stays listed for as long as it serves: the prune of a record nobody keeps
\* fresh never hits one that somebody does.
PunctualStaysListed ==
  \A s \in Servers :
    /\ pc[Main(s)] = "serve"
    /\ InstanceId[s] \notin late
    /\ \A r \in Servers \ {s} : InstanceId[r] # InstanceId[s]
    => s \in Listed

AnswerView == [l \in Lookups |-> IF lpc[l] = "idle" THEN "none"
                                ELSE IF lpc[l] # "done" THEN "open"
                                ELSE IF found[l] = NoRecord THEN "nothing"
                                ELSE found[l].by]

Promise == INSTANCE Registry WITH
  status <- [s \in Servers |-> StatusOf(s)],
  listed <- Listed,
  fresh <- Fresh,
  answer <- AnswerView

\* Files, renames and prunes keep what a registry promises: servers that
\* left are not listed, a lookup finds what was listed at some moment of the
\* lookup, and nothing only if no server was listed and fresh all along.
RefinesRegistry == Promise!Spec
=============================================================================
