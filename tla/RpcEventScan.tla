---------------------------- MODULE RpcEventScan ----------------------------
(***************************************************************************)
(* RpcEvent watched by an observer of create(): the observer notes which   *)
(* slots could be claimed all along a scan, and does not affect it.        *)
(***************************************************************************)
EXTENDS RpcEvent

VARIABLE spare          \* spare[c]: slots claimable ever since c read the clock

scanVars == <<vars, spare>>

ScanInit == Init /\ spare = [c \in Creates |-> {}]

Observe(c) == IF cpc'[c] # "scan" THEN {}
              ELSE {s \in IF cpc[c] = "scan" THEN spare[c] ELSE Slots :
                      Claimable(s, seen[c])'}

ScanNext == Next /\ spare' = [c \in Creates |-> Observe(c)]

ScanSpec == ScanInit /\ [][ScanNext]_scanVars

\* create() raises RpcEventPoolExhausted only if no slot could be claimed
\* throughout its scan, wherever in the pool the scan started and whatever
\* other creates, sets and releases did behind it.
ExhaustedMeansBusy ==
  [][\A c \in Creates :
       cpc[c] = "scan" /\ cpc'[c] = "exhausted" => spare[c] = {}]_scanVars
=============================================================================
