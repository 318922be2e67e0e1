------------------------ MODULE RedisDiscoveryProofs ------------------------
(***************************************************************************)
(* Theorems about RedisDiscovery, for every number of servers and lookups, *)
(* and every time to live.                                                 *)
(***************************************************************************)
EXTENDS RedisDiscovery, DiscoveredServerProofs

-----------------------------------------------------------------------------
(* The inductive invariant.                                                *)

\* A record is kept under its own instance's key.
KeyInv == \A i \in Ids : key[i] # NoEntry => InstanceId[key[i].by] = i

\* What lookup l has read so far, against what was listed meanwhile: a server
\* listed all along is still to be scanned, or was found, ...
Progress(l) ==
  /\ certain[l] \subseteq Listed
  /\ lpc[l] = "scan" => \A s \in certain[l] : InstanceId[s] \in toScan[l] \cup keys[l]
  /\ lpc[l] = "mget" => \A s \in certain[l] : InstanceId[s] \in keys[l]
  /\ lpc[l] = "pick" => certain[l] = {} \/ healthy[l] # {}

\* ... and one that was found was listed.
Sees(l) == /\ Open(l) => Progress(l)
           /\ lpc[l] = "pick" => healthy[l] \subseteq possible[l]
           /\ lpc[l] # "done" => found[l] = "nobody"

LookupInv == \A l \in Lookups : Sees(l)

IInv == TypeOK /\ ServerInv /\ KeyInv /\ LookupInv

-----------------------------------------------------------------------------
(* Keys.                                                                   *)

LEMMA Nobody == /\ "nobody" \notin Servers /\ NoEntry.by = "nobody" /\ NoEntry \notin Entry
                /\ \A s \in Servers : s \notin NoNames
<1>1. "nobody" \notin Servers /\ \A s \in Servers : s \notin NoNames
  BY ServiceAssumption DEF NoNames
<1> QED BY <1>1 DEF NoEntry, Entry

LEMMA IdFacts == /\ InstanceId \in [Servers -> Nat]
                 /\ \A s \in Servers : InstanceId[s] \in Ids
<1> QED BY RedisAssumption DEF Ids

\* A listed server has a key.
LEMMA ListedHasKey ==
  ASSUME TypeOK, NEW s \in Listed
  PROVE  s \in Servers /\ InstanceId[s] \in Present /\ key[InstanceId[s]].by = s
<1>1. s \in Servers /\ key[InstanceId[s]].by = s
  BY DEF Listed
<1> QED BY <1>1, Nobody, IdFacts DEF Present

\* What becomes of the keys and the listings when keys grow old, ...
LEMMA AgedListed ==
  ASSUME TypeOK, KeyInv, key' = [i \in Ids |-> Aged(key[i])]
  PROVE  /\ key' \in [Ids -> Entry \cup {NoEntry}] /\ KeyInv'
         /\ Listed' \subseteq Listed
<1>1. ASSUME NEW i \in Ids
      PROVE  /\ key'[i] \in Entry \cup {NoEntry}
             /\ key'[i] = NoEntry \/ (key[i] # NoEntry /\ key'[i].by = key[i].by)
  <2>1. key'[i] = Aged(key[i]) /\ key[i] \in Entry \cup {NoEntry}
    BY DEF TypeOK
  <2>2. CASE key[i] = NoEntry
    BY <2>1, <2>2 DEF Aged, NoEntry
  <2>3. CASE key[i] \in Entry /\ key[i].ttl = 1
    BY <2>1, <2>3 DEF Aged
  <2>4. CASE key[i] \in Entry /\ key[i].ttl # 1
    <3>1. key[i].ttl \in 1 .. Ttl /\ key[i].ttl - 1 \in 1 .. Ttl /\ key[i].by \in Servers
      BY <2>4, RedisAssumption DEF Entry
    <3>2. key'[i] = [key[i] EXCEPT !.ttl = @ - 1]
      BY <2>1, <2>4, <3>1 DEF Aged
    <3>3. key'[i] = [by |-> key[i].by, ttl |-> key[i].ttl - 1]
      BY <2>4, <3>2 DEF Entry
    <3>4. key'[i] \in Entry /\ key'[i].by = key[i].by
      BY <3>1, <3>3 DEF Entry
    <3> QED BY <2>4, <3>4, Nobody
  <2> QED BY <2>1, <2>2, <2>3, <2>4
<1>2. KeyInv'
  BY <1>1 DEF KeyInv
<1>3. Listed' \subseteq Listed
  BY <1>1, IdFacts, Nobody DEF Listed
<1> QED BY <1>1, <1>2, <1>3

\* ... when a record is written, ...
LEMMA WrittenListed ==
  ASSUME TypeOK, KeyInv, NEW t \in Threads, key' = Written(t)
  PROVE  /\ key' \in [Ids -> Entry \cup {NoEntry}] /\ KeyInv'
         /\ Owner(t) \in Servers /\ Owner(t) \in Listed' /\ Listed' \ {Owner(t)} \subseteq Listed
<1> DEFINE s == Owner(t)
           e == [by |-> s, ttl |-> Ttl]
<1>1. s \in Servers /\ InstanceId[s] \in Ids
  BY ThreadFacts, IdFacts
<1>2. e \in Entry /\ e.by = s
  BY <1>1, RedisAssumption DEF Entry
<1>3. key' = [key EXCEPT ![InstanceId[s]] = e] /\ key \in [Ids -> Entry \cup {NoEntry}]
  BY DEF Written, TypeOK
<1> HIDE DEF e, s
<1>4. \A i \in Ids : key'[i] = IF i = InstanceId[s] THEN e ELSE key[i]
  BY <1>3
<1>5. KeyInv'
  BY <1>2, <1>4 DEF KeyInv
<1>6. s \in Listed' /\ Listed' \ {s} \subseteq Listed
  BY <1>1, <1>2, <1>4, IdFacts DEF Listed
<1> QED BY <1>1, <1>2, <1>3, <1>5, <1>6 DEF s

\* ... and when one is deleted.
LEMMA WithoutListed ==
  ASSUME TypeOK, KeyInv, NEW s \in Servers, key' = Without(s)
  PROVE  /\ key' \in [Ids -> Entry \cup {NoEntry}] /\ KeyInv'
         /\ Listed' \subseteq Listed \ {s}
<1>1. \A i \in Ids : key'[i] = IF i = InstanceId[s] THEN NoEntry ELSE key[i]
  BY IdFacts DEF Without, TypeOK
<1>2. KeyInv'
  BY <1>1 DEF KeyInv
<1>3. Listed' \subseteq Listed \ {s}
  BY <1>1, IdFacts, Nobody DEF Listed
<1> QED BY <1>2, <1>3, IdFacts DEF Without, TypeOK

-----------------------------------------------------------------------------
(* What the steps of servers do.                                           *)

\* How a registry sees the servers here.
HereView == [s \in Servers |-> StatusHere(s)]

LEMMA HereChanges ==
  ASSUME NEW s \in Servers, NEW st, StatusView' = [StatusView EXCEPT ![s] = st],
         \A r \in Servers : r # s => (r \in adrift' <=> r \in adrift)
  PROVE  HereView' = [HereView EXCEPT ![s] = IF st = "off" /\ s \in adrift' THEN "dead" ELSE st]
<1>1. \A r \in Servers : StatusOf(r)' = IF r = s THEN st ELSE StatusOf(r)
  BY DEF StatusView
<1> QED BY <1>1 DEF HereView, StatusHere

LEMMA HereKept == UNCHANGED <<StatusView, adrift>> => UNCHANGED HereView
<1>1. UNCHANGED StatusView => \A r \in Servers : StatusOf(r)' = StatusOf(r)
  BY DEF StatusView
<1> QED BY <1>1 DEF HereView, StatusHere

\* The steps that are not of lookups.
ServerSide == \/ Elapse
              \/ \E s \in Servers :
                   \/ OwnStep(ServeForever(s) \/ MainStep(s) \/ HeartStep(s) \/ Crash(s))
                   \/ UnregisterStep(s) \/ UnregisterUnheard(s)
              \/ \E t \in Threads : RegisterStep(t) \/ RegisterUnheard(t)

\* What such a step may be to a registry.
Fades == UNCHANGED HereView /\ Listed' \subseteq Listed
Joins == \E s \in Servers : /\ HereView[s] # "on"
                            /\ HereView' = [HereView EXCEPT ![s] = "on"]
                            /\ UNCHANGED Listed
Leaves == \E s \in Servers : /\ HereView[s] = "on"
                             /\ HereView' = [HereView EXCEPT ![s] = "off"]
                             /\ Listed' \subseteq Listed \ {s}
Dies == \E s \in Servers : /\ HereView[s] = "on"
                           /\ HereView' = [HereView EXCEPT ![s] = "dead"]
                           /\ UNCHANGED Listed
Publishes == \E s \in Servers : /\ HereView[s] = "on" /\ UNCHANGED HereView
                                /\ s \in Listed' /\ Listed' \ {s} \subseteq Listed

ServerSideView == Fades \/ Joins \/ Leaves \/ Dies \/ Publishes

\* A thread that publishes is of a server that is on.
LEMMA PublisherIsOn ==
  ASSUME ServerInv, NEW t \in Threads, pc[t] = "publish"
  PROVE  Owner(t) \in Servers /\ HereView[Owner(t)] = "on"
<1>1. Owner(t) \in Servers /\ (t = Main(Owner(t)) \/ t = Heart(Owner(t)))
  BY ThreadFacts
<1>2. pc[Main(Owner(t))] \in {"publish", "serve", "join"}
  BY <1>1 DEF ServerInv, ThreadInv
<1> QED BY <1>1, <1>2 DEF HereView, StatusHere, StatusOf

\* Every step of a server is something that a registry allows, and keeps the
\* invariant of servers and keys.
LEMMA ServerSideStep ==
  ASSUME TypeOK, ServerInv, KeyInv, ServerSide
  PROVE  /\ ServerInv' /\ KeyInv'
         /\ key' \in [Ids -> Entry \cup {NoEntry}] /\ adrift' \subseteq Servers
         /\ UNCHANGED lookupVars
         /\ ServerSideView
<1>k. /\ key \in [Ids -> Entry \cup {NoEntry}] /\ adrift \subseteq Servers
      /\ UNCHANGED key => KeyInv' /\ UNCHANGED Listed
  BY DEF TypeOK, KeyInv, Listed
<1>u. ASSUME UNCHANGED <<now, serverVars>>
      PROVE  ServerInv' /\ UNCHANGED StatusView
  BY <1>u DEF ServerInv, ServerTypeOK, ThreadInv, serverVars, StatusView, StatusOf
<1>1. CASE Elapse
  <2>1. key' = [i \in Ids |-> Aged(key[i])] /\ UNCHANGED <<now, serverVars, adrift, lookupVars>>
    BY <1>1 DEF Elapse
  <2>2. Fades
    BY <1>u, <2>1, AgedListed, HereKept DEF Fades
  <2> QED BY <1>k, <1>u, <2>1, <2>2, AgedListed DEF ServerSideView
<1>2. ASSUME NEW s \in Servers,
             OwnStep(ServeForever(s) \/ MainStep(s) \/ HeartStep(s) \/ Crash(s))
      PROVE  /\ ServerInv' /\ UNCHANGED <<key, adrift, lookupVars>>
             /\ ServerSideView
  <2>1. UNCHANGED <<key, adrift, lookupVars>>
    BY <1>2 DEF OwnStep
  <2>2. ServerInv'
    BY <1>2, MainInv, HeartInv, CrashInv DEF OwnStep
  <2>3. CASE ServeForever(s)
    <3>1. /\ StatusView[s] # "on" /\ StatusView' = [StatusView EXCEPT ![s] = "on"]
      BY <2>3, ServeForeverStatus
    <3>2. HereView' = [HereView EXCEPT ![s] = "on"]
      BY <2>1, <3>1, HereChanges
    <3>3. HereView[s] # "on"
      BY <3>1 DEF HereView, StatusHere, StatusView
    <3> QED BY <1>k, <2>1, <2>2, <3>2, <3>3 DEF Joins, ServerSideView
  <2>4. CASE Spawn(s) \/ ServeEnds(s) \/ Joined(s) \/ HeartStep(s)
    <3>1. UNCHANGED HereView
      BY <2>1, <2>4, StatusKept, HereKept
    <3> QED BY <1>k, <2>1, <2>2, <3>1 DEF Fades, ServerSideView
  <2>5. CASE SpawnFails(s) \/ Crash(s)
    <3>1. /\ StatusView[s] \in {"on", "dead"}
          /\ StatusView' = [StatusView EXCEPT ![s] = "dead"]
      BY <2>5, DeathStatus
    <3>2. HereView' = [HereView EXCEPT ![s] = "dead"]
      BY <2>1, <3>1, HereChanges
    <3>3. HereView[s] \in {"on", "dead"}
      BY <3>1 DEF HereView, StatusHere, StatusView
    <3>4. CASE HereView[s] = "on"
      BY <1>k, <2>1, <2>2, <3>2, <3>4 DEF Dies, ServerSideView
    <3>5. CASE HereView[s] = "dead"
      <4>1. UNCHANGED HereView
        BY <3>2, <3>5 DEF HereView
      <4> QED BY <1>k, <2>1, <2>2, <4>1 DEF Fades, ServerSideView
    <3> QED BY <3>3, <3>4, <3>5
  <2> QED BY <1>2, <2>3, <2>4, <2>5 DEF OwnStep, MainStep
<1>3. ASSUME NEW s \in Servers, Unregister(s)
      PROVE  /\ ServerInv' /\ key' = Without(s) /\ adrift' \subseteq Servers
             /\ UNCHANGED lookupVars /\ ServerSideView
  <2>1. WithdrawReturns(s) /\ key' = Without(s) /\ adrift' = adrift \ {s} /\ UNCHANGED lookupVars
    BY <1>3 DEF Unregister
  <2>2. StatusView[s] = "on" /\ StatusView' = [StatusView EXCEPT ![s] = "off"]
    BY <2>1, WithdrawStatus
  <2>3. HereView' = [HereView EXCEPT ![s] = "off"]
    BY <2>1, <2>2, HereChanges
  <2>4. HereView[s] = "on"
    BY <2>2 DEF HereView, StatusHere, StatusView
  <2>5. Leaves
    BY <2>1, <2>3, <2>4, WithoutListed DEF Leaves
  <2> QED BY <1>k, <2>1, <2>5, MainInv DEF ServerSideView
<1>4. ASSUME NEW s \in Servers, UnregisterFails(s)
      PROVE  /\ ServerInv' /\ UNCHANGED <<key, lookupVars>> /\ adrift' \subseteq Servers
             /\ ServerSideView
  <2>1. WithdrawReturns(s) /\ adrift' = adrift \cup {s} /\ UNCHANGED <<key, lookupVars>>
    BY <1>4 DEF UnregisterFails
  <2>2. StatusView[s] = "on" /\ StatusView' = [StatusView EXCEPT ![s] = "off"]
    BY <2>1, WithdrawStatus
  <2>3. HereView' = [HereView EXCEPT ![s] = "dead"]
    BY <2>1, <2>2, HereChanges
  <2>4. HereView[s] = "on"
    BY <2>2 DEF HereView, StatusHere, StatusView
  <2> QED BY <1>k, <2>1, <2>3, <2>4, MainInv DEF Dies, ServerSideView
<1>5. ASSUME NEW s \in Servers, UnregisterUnheard(s)
      PROVE  /\ ServerInv' /\ key' = Without(s) /\ UNCHANGED <<adrift, lookupVars>>
             /\ ServerSideView
  <2>1. key' = Without(s) /\ UNCHANGED <<now, serverVars, adrift, lookupVars>>
    BY <1>5 DEF UnregisterUnheard
  <2>2. Fades
    BY <1>u, <2>1, HereKept, WithoutListed DEF Fades
  <2> QED BY <1>u, <2>1, <2>2 DEF ServerSideView
<1>6. ASSUME NEW t \in Threads, Register(t) \/ RegisterUnheard(t)
      PROVE  /\ ServerInv' /\ key' = Written(t) /\ UNCHANGED <<adrift, lookupVars>>
             /\ ServerSideView
  <2>1. /\ pc[t] = "publish" /\ key' = Written(t) /\ UNCHANGED <<adrift, lookupVars>>
        /\ PublishReturns(t) \/ UNCHANGED <<now, serverVars>>
    BY <1>6 DEF Register, RegisterUnheard, PublishReturns
  <2>2. ServerInv' /\ UNCHANGED StatusView
    <3>1. t = Main(Owner(t)) \/ t = Heart(Owner(t))
      BY ThreadFacts
    <3>2. CASE PublishReturns(t)
      <4>1. Owner(t) \in Servers
        BY ThreadFacts
      <4>2. PublishReturns(Main(Owner(t))) \/ PublishReturns(Heart(Owner(t)))
        BY <3>1, <3>2
      <4> QED BY <3>2, <4>1, <4>2, PublishEndsInv, StatusKept
    <3> QED BY <1>u, <2>1, <3>2
  <2>3. Publishes
    BY <2>1, <2>2, PublisherIsOn, HereKept, WrittenListed DEF Publishes
  <2> QED BY <2>1, <2>2, <2>3 DEF ServerSideView
<1>7. ASSUME NEW t \in Threads, RegisterFails(t)
      PROVE  /\ ServerInv' /\ UNCHANGED <<key, lookupVars>> /\ adrift' \subseteq Servers
             /\ ServerSideView
  <2> DEFINE s == Owner(t)
  <2>1. /\ PublishRaises(t) /\ UNCHANGED <<key, lookupVars>>
        /\ adrift' = IF t = Main(s) THEN adrift \cup {s} ELSE adrift
    BY <1>7 DEF RegisterFails
  <2>2. /\ s \in Servers /\ Main(s) # Heart(s)
        /\ t = Main(s) \/ t = Heart(s)
    BY ThreadFacts
  <2>3. ServerInv' /\ adrift' \subseteq Servers
    BY <1>k, <2>1, <2>2, PublishEndsInv
  <2>4. CASE t = Main(s)
    <3>1. /\ StatusView[s] = "on"
          /\ StatusView' = [StatusView EXCEPT ![s] = IF s \in untidy THEN "dead" ELSE "off"]
      BY <2>1, <2>2, <2>4, RaisesStatus
    <3>2. HereView' = [HereView EXCEPT ![s] = "dead"]
      <4>1. CASE s \in untidy
        BY <2>1, <2>2, <2>4, <3>1, <4>1, HereChanges
      <4>2. CASE s \notin untidy
        BY <2>1, <2>2, <2>4, <3>1, <4>2, HereChanges
      <4> QED BY <4>1, <4>2
    <3>3. HereView[s] = "on"
      BY <2>2, <3>1 DEF HereView, StatusHere, StatusView
    <3> QED BY <1>k, <2>1, <2>2, <2>3, <3>2, <3>3 DEF Dies, ServerSideView
  <2>5. CASE t = Heart(s)
    <3>1. UNCHANGED HereView
      BY <2>1, <2>2, <2>5, StatusKept, HereKept
    <3> QED BY <1>k, <2>1, <2>3, <3>1 DEF Fades, ServerSideView
  <2> QED BY <2>2, <2>4, <2>5
<1>8. CASE \E s \in Servers :
             \/ OwnStep(ServeForever(s) \/ MainStep(s) \/ HeartStep(s) \/ Crash(s))
             \/ UnregisterFails(s)
  BY <1>k, <1>2, <1>4, <1>8
<1>9. CASE \E s \in Servers : Unregister(s) \/ UnregisterUnheard(s)
  BY <1>k, <1>3, <1>5, <1>9, WithoutListed
<1>10. CASE \E t \in Threads : Register(t) \/ RegisterUnheard(t)
  BY <1>k, <1>6, <1>10, WrittenListed
<1>11. CASE \E t \in Threads : RegisterFails(t)
  BY <1>k, <1>7, <1>11
<1> QED BY <1>1, <1>8, <1>9, <1>10, <1>11 DEF ServerSide, UnregisterStep, RegisterStep

-----------------------------------------------------------------------------
(* What the steps of lookups do.                                           *)

LookupTypes == /\ lpc \in [Lookups -> {"idle", "scan", "mget", "pick", "done", "failed"}]
               /\ toScan \in [Lookups -> SUBSET Ids]
               /\ keys \in [Lookups -> SUBSET Ids]
               /\ healthy \in [Lookups -> SUBSET Servers]
               /\ found \in [Lookups -> Servers \cup {"nobody"}]
               /\ robin \in Nat

\* What the observer notes.
LEMMA Watched ==
  ASSUME Watch
  PROVE  /\ possible \in [Lookups -> SUBSET Servers] => possible' \in [Lookups -> SUBSET Servers]
         /\ certain' \in [Lookups -> SUBSET Servers]
         /\ \A l \in Lookups : Open(l)' =>
              /\ Listed' \subseteq possible'[l] /\ certain'[l] \subseteq Listed'
              /\ Open(l) => possible[l] \subseteq possible'[l] /\ certain'[l] \subseteq certain[l]
<1>1. Listed' \subseteq Servers
  BY DEF Listed
<1>2. ASSUME NEW l \in Lookups
      PROVE  certain'[l] \subseteq Servers
  BY <1>1, <1>2 DEF Watch
<1>3. certain' \in [Lookups -> SUBSET Servers]
  BY <1>2 DEF Watch
<1>4. ASSUME possible \in [Lookups -> SUBSET Servers], NEW l \in Lookups
      PROVE  possible'[l] \subseteq Servers
  BY <1>1, <1>4 DEF Watch
<1>5. possible \in [Lookups -> SUBSET Servers] => possible' \in [Lookups -> SUBSET Servers]
  BY <1>4 DEF Watch
<1>6. \A l \in Lookups : Open(l)' =>
              /\ Listed' \subseteq possible'[l] /\ certain'[l] \subseteq Listed'
              /\ Open(l) => possible[l] \subseteq possible'[l] /\ certain'[l] \subseteq certain[l]
  BY DEF Watch
<1> QED BY <1>3, <1>5, <1>6

\* A step of another leaves lookup l where it is.
Resting(l) == /\ lpc'[l] = lpc[l] /\ toScan'[l] = toScan[l] /\ keys'[l] = keys[l]
              /\ healthy'[l] = healthy[l] /\ found'[l] = found[l]

LEMMA RestingSees ==
  ASSUME LookupInv, Watch, NEW l \in Lookups, Resting(l)
  PROVE  Sees(l)'
<1>1. Sees(l)
  BY DEF LookupInv
<1>2. Open(l)' <=> Open(l)
  BY DEF Resting, Open
<1>3. Open(l) => /\ possible[l] \subseteq possible'[l]
                 /\ certain'[l] \subseteq certain[l] /\ certain'[l] \subseteq Listed'
  BY <1>2, Watched
<1>4. CASE Open(l)
  BY <1>1, <1>2, <1>3, <1>4 DEF Sees, Progress, Resting
<1>5. CASE ~Open(l)
  BY <1>1, <1>2, <1>5 DEF Sees, Resting, Open
<1> QED BY <1>4, <1>5

\* The lookups' types, and the rest of the others, when l goes on.
LEMMA LookupMoves ==
  ASSUME TypeOK, NEW l \in Lookups,
         Look(l) \/ Scan(l) \/ MGet(l) \/ LookFails(l) \/ Pick(l)
  PROVE  /\ LookupTypes' /\ UNCHANGED Outside
         /\ \A r \in Lookups : r # l => Resting(r)
<1>t. LookupTypes
  BY DEF TypeOK, LookupTypes
<1>k. \A i \in Ids : i \in Present => key[i].by \in Servers
  <2>1. \A i \in Ids : i \in Present => key[i] \in Entry
    BY DEF TypeOK, Present
  <2> QED BY <2>1 DEF Entry
<1>u. UNCHANGED Outside
  BY DEF Look, Scan, MGet, LookFails, Pick
<1>1. CASE Look(l)
  BY <1>1, <1>t, <1>u DEF Look, LookupGoto, LookupTypes, Resting
<1>2. CASE Scan(l)
  <2>1. PICK i \in toScan[l] : /\ toScan' = [toScan EXCEPT ![l] = @ \ {i}]
                               /\ keys' = [keys EXCEPT ![l] = @ \cup ({i} \cap Present)]
    BY <1>2 DEF Scan
  <2>2. i \in Ids
    BY <1>t DEF LookupTypes
  <2>3. PICK label \in {"mget", "scan"} : lpc' = [lpc EXCEPT ![l] = label]
    BY <1>2 DEF Scan, LookupGoto
  <2>4. UNCHANGED <<healthy, found, robin>>
    BY <1>2 DEF Scan
  <2>5. toScan' \in [Lookups -> SUBSET Ids] /\ keys' \in [Lookups -> SUBSET Ids]
    BY <1>t, <2>1, <2>2 DEF LookupTypes
  <2>6. \A r \in Lookups : r # l => Resting(r)
    BY <1>t, <2>1, <2>3, <2>4 DEF LookupTypes, Resting
  <2> QED BY <1>t, <1>u, <2>3, <2>4, <2>5, <2>6 DEF LookupTypes
<1>3. CASE MGet(l)
  <2>1. {key[i].by : i \in keys[l] \cap Present} \in SUBSET Servers
    BY <1>t, <1>k DEF LookupTypes
  <2>2. healthy' \in [Lookups -> SUBSET Servers]
    BY <1>3, <1>t, <2>1 DEF MGet, LookupTypes
  <2>3. \A r \in Lookups : r # l => Resting(r)
    BY <1>3, <1>t DEF MGet, LookupGoto, LookupTypes, Resting
  <2> QED BY <1>3, <1>t, <1>u, <2>2, <2>3 DEF MGet, LookupGoto, LookupTypes
<1>4. CASE LookFails(l)
  BY <1>4, <1>t, <1>u DEF LookFails, LookupGoto, LookupTypes, Resting
<1>5. CASE Pick(l)
  <2>1. /\ lpc' = [lpc EXCEPT ![l] = "done"] /\ healthy' = [healthy EXCEPT ![l] = {}]
        /\ UNCHANGED <<toScan, keys>>
    BY <1>5 DEF Pick, LookupGoto
  <2>2. \/ UNCHANGED <<found, robin>>
        \/ (\E s \in healthy[l] : found' = [found EXCEPT ![l] = s]) /\ robin' = robin + 1
    BY <1>5 DEF Pick
  <2>3. /\ found' \in [Lookups -> Servers \cup {"nobody"}] /\ robin' \in Nat
        /\ \A r \in Lookups : r # l => found'[r] = found[r]
    BY <1>t, <2>2 DEF LookupTypes
  <2> QED BY <1>t, <1>u, <2>1, <2>3 DEF LookupTypes, Resting
<1> QED BY <1>1, <1>2, <1>3, <1>4, <1>5

\* What l reads is what was listed.
LEMMA LookupSees ==
  ASSUME TypeOK, KeyInv, LookupInv, Watch, NEW l \in Lookups,
         Look(l) \/ Scan(l) \/ MGet(l) \/ LookFails(l) \/ Pick(l)
  PROVE  Sees(l)'
<1>t. LookupTypes /\ LookupTypes'
  BY LookupMoves DEF TypeOK, LookupTypes
<1>k. UNCHANGED key /\ Listed' = Listed
  BY DEF Look, Scan, MGet, LookFails, Pick, Outside, Listed
<1>s. Sees(l)
  BY DEF LookupInv
<1>w. Open(l)' => /\ Listed' \subseteq possible'[l] /\ certain'[l] \subseteq Listed'
                  /\ Open(l) => /\ possible[l] \subseteq possible'[l]
                                /\ certain'[l] \subseteq certain[l]
  BY Watched
<1>1. CASE Look(l)
  <2>1. /\ lpc'[l] = "scan" /\ toScan'[l] = Ids /\ found'[l] = "nobody" /\ Open(l)'
    BY <1>1, <1>t, <1>s DEF Look, LookupGoto, LookupTypes, Sees, Open
  <2>2. \A s \in certain'[l] : InstanceId[s] \in toScan'[l]
    BY <1>w, <2>1, IdFacts DEF Listed
  <2> QED BY <1>w, <2>1, <2>2 DEF Sees, Progress
<1>2. CASE Scan(l)
  <2>1. PICK i \in toScan[l] : /\ toScan' = [toScan EXCEPT ![l] = @ \ {i}]
                               /\ keys' = [keys EXCEPT ![l] = @ \cup ({i} \cap Present)]
    BY <1>2 DEF Scan
  <2>2. /\ toScan'[l] = toScan[l] \ {i} /\ keys'[l] = keys[l] \cup ({i} \cap Present)
    BY <1>t, <2>1 DEF LookupTypes
  <2>3. /\ lpc[l] = "scan" /\ found'[l] = "nobody"
        /\ lpc'[l] = IF toScan'[l] = {} THEN "mget" ELSE "scan"
    BY <1>2, <1>t, <1>s DEF Scan, LookupGoto, LookupTypes, Sees
  <2>4. Open(l) /\ Open(l)'
    BY <2>3 DEF Open
  <2>5. ASSUME NEW s \in certain'[l]
        PROVE  InstanceId[s] \in toScan'[l] \cup keys'[l]
    <3>1. s \in certain[l] /\ s \in Listed
      BY <1>k, <1>w, <2>4
    <3>2. InstanceId[s] \in toScan[l] \cup keys[l]
      BY <1>s, <2>3, <2>4, <3>1 DEF Sees, Progress
    <3>3. InstanceId[s] \in Present
      BY <3>1, ListedHasKey
    <3> QED BY <2>2, <3>2, <3>3
  <2> QED BY <1>w, <2>3, <2>4, <2>5 DEF Sees, Progress
<1>3. CASE MGet(l)
  <2>1. /\ lpc[l] = "mget" /\ lpc'[l] = "pick" /\ found'[l] = "nobody"
        /\ healthy'[l] = {key[i].by : i \in keys[l] \cap Present}
    BY <1>3, <1>t, <1>s DEF MGet, LookupGoto, LookupTypes, Sees
  <2>2. Open(l) /\ Open(l)'
    BY <2>1 DEF Open
  <2>3. healthy'[l] \subseteq Listed
    <3> SUFFICES ASSUME NEW i \in keys[l] \cap Present
                 PROVE  key[i].by \in Listed
      BY <2>1
    <3>1. key[i] \in Entry /\ InstanceId[key[i].by] = i
      BY DEF TypeOK, KeyInv, Present
    <3> QED BY <3>1 DEF Listed, Entry
  <2>4. ASSUME NEW s \in certain'[l]
        PROVE  healthy'[l] # {}
    <3>1. s \in certain[l] /\ s \in Listed
      BY <1>k, <1>w, <2>2
    <3>2. InstanceId[s] \in keys[l]
      BY <1>s, <2>1, <2>2, <3>1 DEF Sees, Progress
    <3>3. InstanceId[s] \in Present
      BY <3>1, ListedHasKey
    <3> QED BY <2>1, <3>2, <3>3
  <2>5. healthy'[l] \subseteq possible'[l] /\ (certain'[l] = {} \/ healthy'[l] # {})
    BY <1>k, <1>w, <2>2, <2>3, <2>4
  <2> QED BY <1>w, <2>1, <2>2, <2>5 DEF Sees, Progress
<1>4. CASE LookFails(l)
  <2>1. lpc'[l] = "failed" /\ found'[l] = "nobody" /\ ~Open(l)'
    BY <1>4, <1>t, <1>s DEF LookFails, LookupGoto, LookupTypes, Sees, Open
  <2> QED BY <2>1 DEF Sees
<1>5. CASE Pick(l)
  <2>1. lpc'[l] = "done" /\ ~Open(l)'
    BY <1>5, <1>t DEF Pick, LookupGoto, LookupTypes, Open
  <2> QED BY <2>1 DEF Sees
<1> QED BY <1>1, <1>2, <1>3, <1>4, <1>5

-----------------------------------------------------------------------------
(* The invariant.                                                          *)

LEMMA InitInv == Init => IInv
<1> SUFFICES ASSUME Init
             PROVE  IInv
  OBVIOUS
<1>1. ServerInv
  BY ServerInitInv DEF Init
<1>2. TypeOK
  BY <1>1 DEF Init, TypeOK, ServerInv
<1>3. KeyInv
  BY DEF Init, KeyInv
<1>4. LookupInv
  BY DEF Init, LookupInv, Sees, Open
<1> QED BY <1>1, <1>2, <1>3, <1>4 DEF IInv

LEMMA NextInv == IInv /\ [Next]_vars => IInv'
<1> SUFFICES ASSUME IInv, [Next]_vars
             PROVE  IInv'
  OBVIOUS
<1>i. TypeOK /\ ServerInv /\ KeyInv /\ LookupInv
  BY DEF IInv
<1>t. TypeOK' <=> /\ ServerTypeOK' /\ LookupTypes'
                  /\ key' \in [Ids -> Entry \cup {NoEntry}] /\ adrift' \subseteq Servers
                  /\ possible' \in [Lookups -> SUBSET Servers]
                  /\ certain' \in [Lookups -> SUBSET Servers]
  BY DEF TypeOK, LookupTypes
<1>l. /\ LookupTypes /\ key \in [Ids -> Entry \cup {NoEntry}] /\ adrift \subseteq Servers
      /\ possible \in [Lookups -> SUBSET Servers]
  BY <1>i DEF TypeOK, LookupTypes
<1>1. CASE UNCHANGED vars
  BY <1>1 DEF IInv, vars, serverVars, lookupVars, TypeOK, ServerTypeOK, ServerInv, ThreadInv,
              KeyInv, LookupInv, Sees, Progress, Open, Listed
<1>2. CASE ServerSide /\ Watch
  <2>1. /\ ServerInv' /\ KeyInv' /\ key' \in [Ids -> Entry \cup {NoEntry}]
        /\ adrift' \subseteq Servers /\ UNCHANGED lookupVars
    BY <1>2, <1>i, ServerSideStep
  <2>2. LookupTypes' /\ \A l \in Lookups : Resting(l)
    BY <1>l, <2>1 DEF lookupVars, LookupTypes, Resting
  <2>3. LookupInv'
    BY <1>2, <1>i, <2>2, RestingSees DEF LookupInv
  <2> QED BY <1>2, <1>l, <1>t, <2>1, <2>2, <2>3, Watched DEF IInv, ServerInv
<1>3. ASSUME NEW l \in Lookups, Watch,
             Look(l) \/ Scan(l) \/ MGet(l) \/ LookFails(l) \/ Pick(l)
      PROVE  IInv'
  <2>1. /\ LookupTypes' /\ UNCHANGED Outside
        /\ \A r \in Lookups : r # l => Resting(r)
    BY <1>3, <1>i, LookupMoves
  <2>2. ServerInv' /\ KeyInv' /\ UNCHANGED <<key, adrift>>
    BY <1>i, <2>1 DEF Outside, serverVars, ServerInv, ServerTypeOK, ThreadInv, KeyInv
  <2>3. LookupInv'
    <3> SUFFICES ASSUME NEW r \in Lookups
                 PROVE  Sees(r)'
      BY DEF LookupInv
    <3> QED BY <1>3, <1>i, <2>1, RestingSees, LookupSees
  <2> QED BY <1>3, <1>l, <1>t, <2>1, <2>2, <2>3, Watched DEF IInv, ServerInv
<1> QED BY <1>1, <1>2, <1>3 DEF Next, ServerSide

\* Every variable has its type: records are of servers, and live no longer
\* than their time to live.
THEOREM TypeCorrect == Spec => []TypeOK
<1>1. IInv => TypeOK
  BY DEF IInv
<1> QED BY <1>1, InitInv, NextInv, PTL DEF Spec

-----------------------------------------------------------------------------
(* RedisDiscovery implements Registry.                                     *)

\* How a registry sees the lookups.
LEMMA AnswerFacts ==
  TypeOK => \A l \in Lookups :
    /\ AnswerView[l] = "open" <=> Open(l)
    /\ lpc[l] = "idle" => AnswerView[l] = "none"
    /\ lpc[l] = "failed" => AnswerView[l] = "error"
    /\ lpc[l] = "done" => AnswerView[l] = IF found[l] = "nobody" THEN "nothing" ELSE found[l]
<1> SUFFICES ASSUME TypeOK, NEW l \in Lookups
             PROVE  /\ AnswerView[l] = "open" <=> Open(l)
                    /\ lpc[l] = "idle" => AnswerView[l] = "none"
                    /\ lpc[l] = "failed" => AnswerView[l] = "error"
                    /\ lpc[l] = "done" => AnswerView[l] = IF found[l] = "nobody" THEN "nothing"
                                                          ELSE found[l]
  OBVIOUS
<1>1. found[l] \in Servers \cup {"nobody"} /\ "open" \notin Servers
  BY Nobody DEF TypeOK, NoNames
<1>2. CASE Open(l)
  BY <1>2 DEF AnswerView, Open
<1>3. CASE ~Open(l)
  <2>1. AnswerView[l] # "open"
    BY <1>1, <1>3 DEF AnswerView
  <2> QED BY <1>3, <2>1 DEF AnswerView, Open
<1> QED BY <1>2, <1>3

\* The observer here is the one there.
LEMMA WatchRefines ==
  ASSUME TypeOK, TypeOK', Watch
  PROVE  Promise!Watch
<1>1. \A l \in Lookups : /\ AnswerView[l] = "open" <=> Open(l)
                         /\ AnswerView'[l] = "open" <=> Open(l)'
  <2>1. \A l \in Lookups : AnswerView[l] = "open" <=> Open(l)
    BY AnswerFacts
  <2>2. (\A l \in Lookups : AnswerView[l] = "open" <=> Open(l))'
    BY Nobody DEF AnswerView, Open, TypeOK, NoNames
  <2> QED BY <2>1, <2>2
<1>2. possible' = [l \in Lookups |->
         IF AnswerView'[l] # "open" THEN {}
         ELSE Listed' \cup IF AnswerView[l] = "open" THEN possible[l] ELSE {}]
  BY <1>1 DEF Watch
<1>3. certain' = [l \in Lookups |->
         IF AnswerView'[l] # "open" THEN {}
         ELSE Listed' \cap IF AnswerView[l] = "open" THEN certain[l] ELSE Servers]
  BY <1>1 DEF Watch
<1> QED BY <1>2, <1>3 DEF Promise!Watch

\* A step of a server is a step of the registry.
LEMMA ServersRefine ==
  ASSUME ServerSideView, UNCHANGED AnswerView, Promise!Watch
  PROVE  Promise!Next
<1>1. CASE Fades
  <2>1. Promise!Fade
    BY <1>1 DEF Fades, Promise!Fade, HereView
  <2> QED BY <2>1 DEF Promise!Next
<1>2. CASE Joins
  <2>1. PICK s \in Servers : /\ HereView[s] # "on"
                             /\ HereView' = [HereView EXCEPT ![s] = "on"] /\ UNCHANGED Listed
    BY <1>2 DEF Joins
  <2>2. Promise!Join(s)
    BY <2>1 DEF Promise!Join, Promise!Turn, HereView
  <2> QED BY <2>2 DEF Promise!Next
<1>3. CASE Leaves
  <2>1. PICK s \in Servers : /\ HereView[s] = "on"
                             /\ HereView' = [HereView EXCEPT ![s] = "off"]
                             /\ Listed' \subseteq Listed \ {s}
    BY <1>3 DEF Leaves
  <2>2. Listed' \in SUBSET (Listed \ {s}) /\ Listed' = Listed \cap Listed'
    BY <2>1
  <2>3. Promise!Leave(s)
    BY <2>1, <2>2 DEF Promise!Leave, HereView
  <2> QED BY <2>3 DEF Promise!Next
<1>4. CASE Dies
  <2>1. PICK s \in Servers : /\ HereView[s] = "on"
                             /\ HereView' = [HereView EXCEPT ![s] = "dead"] /\ UNCHANGED Listed
    BY <1>4 DEF Dies
  <2>2. Promise!Die(s)
    BY <2>1 DEF Promise!Die, Promise!Turn, HereView
  <2> QED BY <2>2 DEF Promise!Next
<1>5. CASE Publishes
  <2>1. PICK s \in Servers : /\ HereView[s] = "on" /\ UNCHANGED HereView
                             /\ s \in Listed' /\ Listed' \ {s} \subseteq Listed
    BY <1>5 DEF Publishes
  <2> DEFINE others == Listed' \ {s}
  <2>2. /\ others \in SUBSET (Listed \ {s}) /\ Listed' = others \cup {s}
        /\ Listed' = (Listed \cap others) \cup {s}
    BY <2>1
  <2> HIDE DEF others
  <2>3. Promise!Publish(s)
    BY <2>1, <2>2 DEF Promise!Publish, HereView
  <2> QED BY <2>3 DEF Promise!Next
<1> QED BY <1>1, <1>2, <1>3, <1>4, <1>5 DEF ServerSideView

\* A lookup asks, and is answered, for nothing only if it could.
LEMMA LookupRefines ==
  ASSUME IInv, IInv', Watch, NEW l \in Lookups,
         Look(l) \/ Scan(l) \/ MGet(l) \/ LookFails(l) \/ Pick(l)
  PROVE  Promise!Next
<1>t. TypeOK /\ TypeOK' /\ Sees(l)
  BY DEF IInv, LookupInv
<1>w. Promise!Watch
  BY <1>t, WatchRefines
<1>m. UNCHANGED Outside /\ \A r \in Lookups : r # l => Resting(r)
  BY <1>t, LookupMoves
<1>h. UNCHANGED <<HereView, Listed>>
  BY <1>m DEF Outside, serverVars, HereView, StatusHere, StatusOf, Listed
<1>a. ASSUME NEW a, AnswerView'[l] = a
      PROVE  AnswerView' = [AnswerView EXCEPT ![l] = a]
  <2>1. \A r \in Lookups : r # l => AnswerView'[r] = AnswerView[r]
    BY <1>m DEF AnswerView, Resting, Open
  <2> QED BY <1>a, <2>1 DEF AnswerView
<1>f. /\ lpc'[l] = "done" => AnswerView'[l] = IF found'[l] = "nobody" THEN "nothing" ELSE found'[l]
      /\ lpc'[l] = "failed" => AnswerView'[l] = "error"
      /\ AnswerView'[l] = "open" <=> Open(l)'
  <2>1. /\ lpc'[l] \in {"idle", "scan", "mget", "pick", "done", "failed"}
        /\ found'[l] \in Servers \cup {"nobody"} /\ "open" \notin Servers
    BY <1>t, Nobody DEF TypeOK, NoNames
  <2> QED BY <2>1 DEF AnswerView, Open
<1>1. CASE Look(l)
  <2>1. lpc[l] = "idle" /\ Open(l)'
    BY <1>1, <1>t DEF Look, LookupGoto, TypeOK, Open
  <2>2. AnswerView[l] = "none" /\ AnswerView' = [AnswerView EXCEPT ![l] = "open"]
    BY <1>a, <1>f, <1>t, <2>1, AnswerFacts
  <2>3. Promise!Ask(l)
    BY <1>h, <2>2 DEF Promise!Ask, Promise!Answer, HereView
  <2> QED BY <1>w, <2>3 DEF Promise!Next
<1>2. CASE Scan(l) \/ MGet(l)
  <2>1. Open(l) /\ Open(l)'
    BY <1>2, <1>t DEF Scan, MGet, LookupGoto, TypeOK, Open
  <2>2. AnswerView[l] = "open" /\ AnswerView' = [AnswerView EXCEPT ![l] = "open"]
    BY <1>a, <1>f, <1>t, <2>1, AnswerFacts
  <2>3. UNCHANGED AnswerView
    BY <2>2 DEF AnswerView
  <2>4. Promise!Fade
    BY <1>h, <2>3 DEF Promise!Fade, HereView
  <2> QED BY <1>w, <2>4 DEF Promise!Next
<1>3. CASE LookFails(l)
  <2>1. Open(l) /\ lpc'[l] = "failed"
    BY <1>3, <1>t DEF LookFails, LookupGoto, TypeOK, Open
  <2>2. AnswerView[l] = "open" /\ AnswerView' = [AnswerView EXCEPT ![l] = "error"]
    BY <1>a, <1>f, <1>t, <2>1, AnswerFacts
  <2>3. Promise!Fail(l)
    BY <1>h, <2>2 DEF Promise!Fail, Promise!Answer, HereView
  <2> QED BY <1>w, <2>3 DEF Promise!Next
<1>4. CASE Pick(l)
  <2>1. lpc[l] = "pick" /\ lpc'[l] = "done"
    BY <1>4, <1>t DEF Pick, LookupGoto, TypeOK
  <2>2. Open(l) /\ AnswerView[l] = "open" /\ found[l] = "nobody"
    BY <1>t, <2>1, AnswerFacts DEF Open, Sees
  <2>3. CASE healthy[l] = {}
    <3>1. AnswerView'[l] = "nothing"
      BY <1>4, <1>f, <2>1, <2>2, <2>3 DEF Pick
    <3>2. certain[l] = {}
      BY <1>t, <2>1, <2>2, <2>3 DEF Sees, Progress
    <3>3. AnswerView' = [AnswerView EXCEPT ![l] = "nothing"]
      BY <1>a, <3>1
    <3>4. Promise!FindNothing(l)
      BY <1>h, <2>2, <3>2, <3>3 DEF Promise!FindNothing, Promise!Answer, HereView
    <3> QED BY <1>w, <3>4 DEF Promise!Next
  <2>4. CASE healthy[l] # {}
    <3>1. PICK s \in healthy[l] : found' = [found EXCEPT ![l] = s]
      BY <1>4, <2>4 DEF Pick
    <3>2. s \in Servers /\ s \in possible[l] /\ s # "nobody"
      BY <1>t, <2>1, <3>1, Nobody DEF TypeOK, Sees
    <3>3. found'[l] = s
      BY <1>t, <3>1 DEF TypeOK
    <3>4. AnswerView' = [AnswerView EXCEPT ![l] = s]
      BY <1>a, <1>f, <2>1, <3>2, <3>3
    <3>5. Promise!Find(l, s)
      BY <1>h, <2>2, <3>2, <3>4 DEF Promise!Find, Promise!Answer, HereView
    <3> QED BY <1>w, <3>2, <3>5 DEF Promise!Next
  <2> QED BY <2>3, <2>4
<1> QED BY <1>1, <1>2, <1>3, <1>4

\* No server has joined, and nobody has asked, there or here.
LEMMA InitRefines == Init => Promise!Init
<1> SUFFICES ASSUME Init
             PROVE  Promise!Init
  OBVIOUS
<1>1. ServerInv
  BY ServerInitInv DEF Init
<1>2. \A s \in Servers : StatusHere(s) = "off"
  BY ThreadFacts DEF Init, ServerInit, StatusHere, StatusOf, Main
<1>3. Listed = {}
  BY IdFacts, Nobody DEF Init, Listed
<1>4. AnswerView = [l \in Lookups |-> "none"]
  BY DEF Init, AnswerView
<1> QED BY <1>2, <1>3, <1>4 DEF Init, Promise!Init

\* Every step is a step of the registry, or none.
LEMMA StepRefines == IInv /\ IInv' /\ [Next]_vars => [Promise!Next]_(Promise!rvars)
<1> SUFFICES ASSUME IInv, IInv', [Next]_vars
             PROVE  [Promise!Next]_(Promise!rvars)
  OBVIOUS
<1>1. CASE UNCHANGED vars
  BY <1>1 DEF vars, serverVars, lookupVars, Promise!rvars, StatusHere, StatusOf, Listed,
              AnswerView, Open
<1>2. CASE ServerSide /\ Watch
  <2>1. ServerSideView /\ UNCHANGED lookupVars
    BY <1>2, ServerSideStep DEF IInv
  <2>2. UNCHANGED AnswerView
    BY <2>1 DEF lookupVars, AnswerView, Open
  <2> QED BY <1>2, <2>1, <2>2, WatchRefines, ServersRefine DEF IInv
<1> QED BY <1>1, <1>2, LookupRefines DEF Next, ServerSide

\* Keys with a time to live, and lookups that scan them, keep the promises of a
\* registry: a server that left in order is not listed, a lookup finds only
\* what was listed while it looked, and nothing only if nothing was.
THEOREM Refinement == Spec => RefinesRegistry
<1> QED BY InitInv, NextInv, InitRefines, StepRefines, PTL
        DEF Spec, RefinesRegistry, Promise!Spec

\* A server that left in order has no key: the heartbeat thread was joined
\* before the DEL, and so no late SET brings the key back.
NoGhostKey == \A s \in Servers : HereView[s] = "off" => s \notin Listed

\* It follows from what a registry promises alone.
THEOREM NoGhostKeys == Spec => []NoGhostKey
<1>1. Promise!Init => NoGhostKey
  BY DEF Promise!Init, NoGhostKey, HereView
<1>2. NoGhostKey /\ [Promise!Next]_(Promise!rvars) => NoGhostKey'
  <2> SUFFICES ASSUME NoGhostKey, [Promise!Next]_(Promise!rvars)
               PROVE  NoGhostKey'
    OBVIOUS
  <2>1. CASE UNCHANGED Promise!rvars
    BY <2>1 DEF Promise!rvars, NoGhostKey, HereView
  <2>2. ASSUME NEW s \in Servers, Promise!Join(s) \/ Promise!Die(s)
        PROVE  NoGhostKey'
    BY <2>2 DEF Promise!Join, Promise!Die, Promise!Turn, NoGhostKey, HereView
  <2>3. ASSUME NEW s \in Servers, Promise!Leave(s) \/ Promise!Publish(s)
        PROVE  NoGhostKey'
    <3>1. CASE Promise!Leave(s)
      BY <3>1 DEF Promise!Leave, NoGhostKey, HereView
    <3>2. CASE Promise!Publish(s)
      BY <3>2 DEF Promise!Publish, NoGhostKey, HereView
    <3> QED BY <2>3, <3>1, <3>2
  <2>4. CASE Promise!Fade
    BY <2>4 DEF Promise!Fade, NoGhostKey, HereView
  <2>5. ASSUME NEW l \in Lookups,
               \/ Promise!Ask(l) \/ Promise!FindNothing(l) \/ Promise!Fail(l)
               \/ \E s \in Servers : Promise!Find(l, s)
        PROVE  NoGhostKey'
    BY <2>5 DEF Promise!Ask, Promise!FindNothing, Promise!Fail, Promise!Find, Promise!Answer,
                NoGhostKey, HereView
  <2> QED BY <2>1, <2>2, <2>3, <2>4, <2>5 DEF Promise!Next
<1> QED BY <1>1, <1>2, Refinement, PTL DEF RefinesRegistry, Promise!Spec
=============================================================================
