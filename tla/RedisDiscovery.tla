---------------------------- MODULE RedisDiscovery ----------------------------
(***************************************************************************)
(* RedisDiscovery (_discovery.py): one key per instance of the service,    *)
(* with a time to live; servers that keep it alive; and lookups.  Every    *)
(* command to Redis is atomic, and a step.                                 *)
(*                                                                         *)
(* heartbeat_at is written and never read: only Redis measures time, so    *)
(* that `now` stands still here, and Elapse lets the keys grow old.        *)
(*                                                                         *)
(* lpc[l] follows one resolve(): idle -> scan -> mget -> pick -> done,     *)
(* or failed.                                                              *)
(***************************************************************************)
EXTENDS DiscoveredServer, FiniteSets

CONSTANTS InstanceId,     \* InstanceId[s]: a number, for its place in order
          Ttl,            \* heartbeat_timeout, as the keys' time to live
          Lookups

Ids == {InstanceId[s] : s \in Servers}

ASSUME RedisAssumption == /\ InstanceId \in [Servers -> Nat]
                          /\ Ttl \in Nat \ {0}

VARIABLES key,            \* key[i]: the record of instance i, and its rest of life
          adrift,         \* history: the servers that left with a command that
                          \* failed, and have not withdrawn since
          lpc,
          toScan,         \* toScan[l]: the keys SCAN has still to come to
          keys,           \* keys[l]: the keys it returned
          healthy,        \* healthy[l]: the instances that MGET gave
          found,          \* found[l]: what resolve() gave
          robin,          \* _round_robin of the service
          possible, certain  \* history: as in Registry

lookupVars == <<lpc, toScan, keys, healthy, found, robin>>
vars == <<now, serverVars, key, adrift, lookupVars, possible, certain>>

Entry == [by : Servers, ttl : 1 .. Ttl]
NoEntry == [by |-> "nobody", ttl |-> 0]

TypeOK == /\ ServerTypeOK
          /\ key \in [Ids -> Entry \cup {NoEntry}]
          /\ adrift \subseteq Servers
          /\ lpc \in [Lookups -> {"idle", "scan", "mget", "pick", "done", "failed"}]
          /\ toScan \in [Lookups -> SUBSET Ids]
          /\ keys \in [Lookups -> SUBSET Ids]
          /\ healthy \in [Lookups -> SUBSET Servers]
          /\ found \in [Lookups -> Servers \cup {"nobody"}]
          /\ robin \in Nat
          /\ possible \in [Lookups -> SUBSET Servers]
          /\ certain \in [Lookups -> SUBSET Servers]

Init == /\ ServerInit
        /\ key = [i \in Ids |-> NoEntry]
        /\ adrift = {}
        /\ lpc = [l \in Lookups |-> "idle"]
        /\ toScan = [l \in Lookups |-> {}]
        /\ keys = [l \in Lookups |-> {}]
        /\ healthy = [l \in Lookups |-> {}]
        /\ found = [l \in Lookups |-> "nobody"]
        /\ robin = 0
        /\ possible = [l \in Lookups |-> {}]
        /\ certain = [l \in Lookups |-> {}]

-----------------------------------------------------------------------------
(* Redis.  A key that was set without a time to live (ttl 0) does not age. *)

Aged(k) == IF k.ttl = 1 THEN NoEntry
           ELSE IF k.ttl = 0 THEN k ELSE [k EXCEPT !.ttl = @ - 1]

Elapse == /\ \E i \in Ids : key[i].ttl > 0
          /\ key' = [i \in Ids |-> Aged(key[i])]
          /\ UNCHANGED <<now, serverVars, adrift, lookupVars>>

Present == {i \in Ids : key[i] # NoEntry}
Listed == {s \in Servers : key[InstanceId[s]].by = s}

-----------------------------------------------------------------------------
(* register(), heartbeat() and unregister().                               *)

\* Mutant of Written: SET without px.
WrittenForever(t) == [key EXCEPT ![InstanceId[Owner(t)]] = [by |-> Owner(t), ttl |-> 0]]

\* SET of the record's key, with its time to live: both anew.
Written(t) == [key EXCEPT ![InstanceId[Owner(t)]] = [by |-> Owner(t), ttl |-> Ttl]]

Register(t) == /\ PublishReturns(t)
               /\ key' = Written(t)
               /\ UNCHANGED <<adrift, lookupVars>>

\* The command had its effect, but its reply is lost: redis-py sends it again,
\* or gives up.
RegisterUnheard(t) == /\ "backend" \in Troubles
                      /\ pc[t] = "publish"
                      /\ key' = Written(t)
                      /\ UNCHANGED <<now, serverVars, adrift, lookupVars>>

\* serve_forever() does not take back a registration that failed.
RegisterFails(t) == /\ "backend" \in Troubles
                    /\ PublishRaises(t)
                    /\ adrift' = IF t = Main(Owner(t)) THEN adrift \cup {Owner(t)} ELSE adrift
                    /\ UNCHANGED <<key, lookupVars>>

\* DEL by name, whoever wrote the record.
Without(s) == [key EXCEPT ![InstanceId[s]] = NoEntry]

Unregister(s) == /\ WithdrawReturns(s)
                 /\ key' = Without(s)
                 /\ adrift' = adrift \ {s}
                 /\ UNCHANGED lookupVars

UnregisterUnheard(s) == /\ "backend" \in Troubles
                        /\ pc[Main(s)] = "withdraw"
                        /\ key' = Without(s)
                        /\ UNCHANGED <<now, serverVars, adrift, lookupVars>>

\* serve_forever() logs the error, and returns.
UnregisterFails(s) == /\ "backend" \in Troubles
                      /\ WithdrawReturns(s)
                      /\ adrift' = adrift \cup {s}
                      /\ UNCHANGED <<key, lookupVars>>

-----------------------------------------------------------------------------
(* resolve(), and list_instances() in it.                                  *)

Outside == <<now, serverVars, key, adrift>>

LookupGoto(l, label) == lpc' = [lpc EXCEPT ![l] = label]

Look(l) == /\ lpc[l] = "idle"
           /\ LookupGoto(l, "scan")
           /\ toScan' = [toScan EXCEPT ![l] = Ids]
           /\ UNCHANGED <<Outside, keys, healthy, found, robin>>

\* Mutant of Scan: only the first page of the SCAN.
ScanFirst(l) ==
  /\ lpc[l] = "scan"
  /\ \E i \in toScan[l] : keys' = [keys EXCEPT ![l] = @ \cup ({i} \cap Present)]
  /\ toScan' = [toScan EXCEPT ![l] = {}]
  /\ LookupGoto(l, "mget")
  /\ UNCHANGED <<Outside, healthy, found, robin>>

\* SCAN returns, in any order, the keys that are there all the time, and of
\* the others those that it comes to while they are there.
Scan(l) ==
  /\ lpc[l] = "scan"
  /\ \E i \in toScan[l] :
       /\ toScan' = [toScan EXCEPT ![l] = @ \ {i}]
       /\ keys' = [keys EXCEPT ![l] = @ \cup ({i} \cap Present)]
  /\ LookupGoto(l, IF toScan'[l] = {} THEN "mget" ELSE "scan")
  /\ UNCHANGED <<Outside, healthy, found, robin>>

\* The keys that expired since are passed over.
MGet(l) ==
  /\ lpc[l] = "mget"
  /\ LookupGoto(l, "pick")
  /\ healthy' = [healthy EXCEPT ![l] = {key[i].by : i \in keys[l] \cap Present}]
  /\ keys' = [keys EXCEPT ![l] = {}]
  /\ UNCHANGED <<Outside, toScan, found, robin>>

\* DiscoveryError, at SCAN or MGET.
LookFails(l) ==
  /\ "backend" \in Troubles
  /\ lpc[l] \in {"scan", "mget"}
  /\ LookupGoto(l, "failed")
  /\ toScan' = [toScan EXCEPT ![l] = {}]
  /\ keys' = [keys EXCEPT ![l] = {}]
  /\ UNCHANGED <<Outside, healthy, found, robin>>

\* Those before s in the order of instance IDs.
Before(l, s) == {q \in healthy[l] : InstanceId[q] < InstanceId[s]}

\* The counter is read and advanced under a lock.
Pick(l) ==
  /\ lpc[l] = "pick"
  /\ LookupGoto(l, "done")
  /\ \/ healthy[l] = {} /\ UNCHANGED <<found, robin>>
     \/ /\ \E s \in healthy[l] :
             /\ Cardinality(Before(l, s)) = robin % Cardinality(healthy[l])
             /\ found' = [found EXCEPT ![l] = s]
        /\ robin' = robin + 1
  /\ healthy' = [healthy EXCEPT ![l] = {}]
  /\ UNCHANGED <<Outside, toScan, keys>>

-----------------------------------------------------------------------------
Open(l) == lpc[l] \in {"scan", "mget", "pick"}

Watch ==
  /\ possible' = [l \in Lookups |->
       IF ~Open(l)' THEN {} ELSE Listed' \cup IF Open(l) THEN possible[l] ELSE {}]
  /\ certain' = [l \in Lookups |->
       IF ~Open(l)' THEN {} ELSE Listed' \cap IF Open(l) THEN certain[l] ELSE Servers]

RegisterStep(t) == Register(t) \/ RegisterFails(t)
UnregisterStep(s) == Unregister(s) \/ UnregisterFails(s)
OwnStep(A) == A /\ UNCHANGED <<key, adrift, lookupVars>>

Next == /\ \/ Elapse
           \/ \E s \in Servers :
                \/ OwnStep(ServeForever(s) \/ MainStep(s) \/ HeartStep(s) \/ Crash(s))
                \/ UnregisterStep(s) \/ UnregisterUnheard(s)
           \/ \E t \in Threads : RegisterStep(t) \/ RegisterUnheard(t)
           \/ \E l \in Lookups : Look(l) \/ Scan(l) \/ MGet(l) \/ LookFails(l) \/ Pick(l)
        /\ Watch

Spec == Init /\ [][Next]_vars

\* Time passes, and threads inside serve_forever() and the heartbeat loop are
\* scheduled.  Servers need not be started, end or die.
Fairness ==
  /\ WF_vars(Elapse /\ Watch)
  /\ \A t \in Threads : WF_vars(RegisterStep(t) /\ Watch)
  /\ \A s \in Servers :
       /\ WF_vars(OwnStep(Spawn(s) \/ Joined(s)) /\ Watch)
       /\ WF_vars(OwnStep(HeartStep(s)) /\ Watch)
       /\ WF_vars(UnregisterStep(s) /\ Watch)

FairSpec == Spec /\ Fairness

-----------------------------------------------------------------------------
\* A server whose last command failed counts as one that died.
StatusHere(s) == IF StatusOf(s) = "off" /\ s \in adrift THEN "dead" ELSE StatusOf(s)

\* The key of a server that died, or could not take its registration back,
\* is gone in time, if it is not started again.
GhostsExpire == \A s \in Servers :
  StatusHere(s) = "dead" ~> s \notin Listed \/ StatusHere(s) # "dead"

AnswerView == [l \in Lookups |-> IF lpc[l] = "idle" THEN "none"
                                ELSE IF Open(l) THEN "open"
                                ELSE IF lpc[l] = "failed" THEN "error"
                                ELSE IF found[l] = "nobody" THEN "nothing"
                                ELSE found[l]]

Promise == INSTANCE Registry WITH
  status <- [s \in Servers |-> StatusHere(s)],
  listed <- Listed,
  fresh <- Listed,
  answer <- AnswerView

\* The commands and expiry keep what a registry promises: a server that left in
\* order is not listed, for its heartbeat thread was joined before the DEL and no
\* late SET brings the key back; and a lookup finds what was listed at some
\* moment of it, nothing only if no server was listed all along, and does not
\* take an error for nothing.
RefinesRegistry == Promise!Spec
=============================================================================
