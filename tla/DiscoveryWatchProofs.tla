------------------------ MODULE DiscoveryWatchProofs ------------------------
(***************************************************************************)
(* Theorems about FilesystemDiscovery and DiscoveryWatch, for every number *)
(* of servers and lookups, any IDs, shared or not, and every timeout.      *)
(***************************************************************************)
EXTENDS DiscoveryWatch, DiscoveredServerProofs

-----------------------------------------------------------------------------
(* The inductive invariant of the files.                                   *)

FileTypes == /\ directory \in BOOLEAN
             /\ file \in [Ids -> Record \cup {NoRecord}]
             /\ temps \subseteq Threads
             /\ litter \in BOOLEAN
             /\ step \in [Threads -> {"start", "temporary", "replace", "rmdir"}]

Serving == {"spawn", "serve", "join"}

\* A thread is inside _atomic_write or unregister only while its server is, and
\* its temporary file is there when it renames it.
Steps(t) == /\ step[t] \in {"temporary", "replace"} => pc[t] = "publish"
            /\ step[t] = "rmdir" => pc[t] = "withdraw"
            /\ step[t] = "replace" => t \in temps

\* A server that was never interrupted is listed from its first rename until
\* its unlink only.
Tidy(s) == /\ s \in Listed =>
                \/ s \in untidy
                \/ pc[Main(s)] \in Serving
                \/ pc[Main(s)] = "withdraw" /\ step[Main(s)] = "start"
           /\ step[Main(s)] = "rmdir" => s \notin Listed

ServersInv == \A s \in Servers : Tidy(s) /\ Steps(Main(s)) /\ Steps(Heart(s))

\* A record is kept under its own instance's name, and in the directory.
FileInv == /\ \A i \in Ids : file[i] # NoRecord => InstanceId[file[i].by] = i /\ directory
           /\ temps # {} => directory

FilesInv == ServerInv /\ FileTypes /\ ServersInv /\ FileInv

-----------------------------------------------------------------------------
(* That of the lookups, and of servers whose heartbeats are in time.       *)

LookupTypes == /\ lpc \in [Lookups -> {"idle", "glob", "read", "recheck", "unlink",
                                       "pick", "done"}]
               /\ cutoff \in [Lookups -> -Timeout .. MaxTime]
               /\ todo \in [Lookups -> SUBSET Ids]
               /\ reading \in [Lookups -> SUBSET Ids]
               /\ healthy \in [Lookups -> SUBSET Record]
               /\ found \in [Lookups -> Record \cup {NoRecord}]
               /\ robin \in Nat

\* What lookup l has read so far, against what was listed meanwhile: a server
\* listed and fresh all along is still to be read, or one was found, ...
Progress(l) ==
  /\ cutoff[l] <= now - Timeout
  /\ certain[l] \subseteq Fresh
  /\ lpc[l] = "glob" => healthy[l] = {}
  /\ lpc[l] \in {"read", "recheck", "unlink"} =>
       healthy[l] # {} \/ \A s \in certain[l] : InstanceId[s] \in todo[l]
  /\ lpc[l] = "pick" => healthy[l] # {} \/ certain[l] = {}

\* ... one that was found was listed, and a record it may unlink was stale once.
Sees(l) == /\ Open(l) => Progress(l)
           /\ lpc[l] = "idle" => healthy[l] = {}
           /\ lpc[l] # "done" => /\ found[l] = NoRecord
                                 /\ \A r \in healthy[l] : r.by \in possible[l]
           /\ reading[l] \subseteq late

LookupInv == \A l \in Lookups : Sees(l)

Alone(s) == \A r \in Servers \ {s} : InstanceId[r] # InstanceId[s]

PunctualInv == \A s \in Servers :
  pc[Main(s)] \in Serving /\ InstanceId[s] \notin late /\ Alone(s) => s \in Listed

WatchTypes == /\ possible \in [Lookups -> SUBSET Servers]
              /\ certain \in [Lookups -> SUBSET Servers]

IInv == FilesInv /\ LookupTypes /\ WatchTypes /\ LookupInv /\ PunctualInv

-----------------------------------------------------------------------------
(* Files.                                                                  *)

LEMMA Nobody == /\ "nobody" \notin Servers /\ NoRecord.by = "nobody" /\ NoRecord \notin Record
                /\ \A s \in Servers : s \notin NoNames
                /\ \A r \in Record : r.by \in Servers /\ r.heartbeat \in 0 .. MaxTime
<1>1. "nobody" \notin Servers /\ \A s \in Servers : s \notin NoNames
  BY ServiceAssumption DEF NoNames
<1> QED BY <1>1 DEF NoRecord, Record

LEMMA IdFacts == /\ InstanceId \in [Servers -> Nat]
                 /\ \A s \in Servers : InstanceId[s] \in Ids
<1> QED BY FilesAssumption DEF Ids

\* A listed server has a record.
LEMMA ListedHasRecord ==
  ASSUME FileTypes, NEW s \in Listed
  PROVE  /\ s \in Servers /\ file[InstanceId[s]] \in Record
         /\ file[InstanceId[s]] # NoRecord /\ file[InstanceId[s]].by = s
<1>1. s \in Servers /\ file[InstanceId[s]].by = s
  BY DEF Listed
<1> QED BY <1>1, Nobody, IdFacts DEF FileTypes

\* What becomes of the listings when no file changes, ...
LEMMA SameFiles ==
  ASSUME FileTypes, UNCHANGED file
  PROVE  Listed' = Listed /\ (UNCHANGED now => Fresh' = Fresh)
<1> QED BY DEF Listed, Fresh

\* ... when files are unlinked, ...
LEMMA FewerFiles ==
  ASSUME FileTypes, UNCHANGED now, NEW gone \in SUBSET Ids,
         file' = [i \in Ids |-> IF i \in gone THEN NoRecord ELSE file[i]]
  PROVE  /\ file' \in [Ids -> Record \cup {NoRecord}]
         /\ Listed' = {s \in Listed : InstanceId[s] \notin gone}
         /\ Fresh' = Fresh \cap Listed'
         /\ FileInv /\ UNCHANGED <<directory, temps>> => FileInv'
<1>1. \A s \in Servers : file'[InstanceId[s]] = IF InstanceId[s] \in gone THEN NoRecord
                                                ELSE file[InstanceId[s]]
  BY IdFacts
<1>2. Listed' = {s \in Listed : InstanceId[s] \notin gone}
  BY <1>1, Nobody DEF Listed
<1>3. Fresh' = Fresh \cap Listed'
  BY <1>1, <1>2 DEF Fresh, Listed
<1>4. file' \in [Ids -> Record \cup {NoRecord}]
  BY DEF FileTypes
<1>5. ASSUME FileInv, UNCHANGED <<directory, temps>>
      PROVE  FileInv'
  BY <1>5 DEF FileInv
<1> QED BY <1>2, <1>3, <1>4, <1>5

\* ... and when a record is renamed to its place.
LEMMA RenamedFile ==
  ASSUME FileTypes, UNCHANGED now, NEW s \in Servers, NEW r \in Record, r.by = s,
         file' = [file EXCEPT ![InstanceId[s]] = r]
  PROVE  /\ file' \in [Ids -> Record \cup {NoRecord}]
         /\ s \in Listed' /\ Listed' \ {s} \subseteq Listed
         /\ \A q \in Listed : InstanceId[q] # InstanceId[s] => q \in Listed'
         /\ Fresh' \ {s} = (Fresh \cap Listed') \ {s}
         /\ Fresh' \subseteq Listed'
<1>1. \A q \in Servers : file'[InstanceId[q]] = IF InstanceId[q] = InstanceId[s] THEN r
                                                ELSE file[InstanceId[q]]
  BY IdFacts DEF FileTypes
<1>2. s \in Listed'
  BY <1>1 DEF Listed
<1>3. \A q \in Servers : q # s => (q \in Listed' <=> q \in Listed /\ InstanceId[q] # InstanceId[s])
  BY <1>1 DEF Listed
<1>4. \A q \in Servers : q # s => (q \in Fresh' <=> q \in Fresh /\ q \in Listed')
  BY <1>1, <1>3 DEF Fresh, Listed
<1>5. Fresh \subseteq Servers /\ Fresh' \subseteq Servers /\ Fresh' \subseteq Listed'
      /\ Listed \subseteq Servers /\ Listed' \subseteq Servers
  BY DEF Fresh, Listed
<1>6. file' \in [Ids -> Record \cup {NoRecord}]
  BY IdFacts DEF FileTypes
<1>7. Fresh' \ {s} = (Fresh \cap Listed') \ {s}
  BY <1>4, <1>5
<1>8. Listed' \ {s} \subseteq Listed
  BY <1>3, <1>5
<1>9. \A q \in Listed : InstanceId[q] # InstanceId[s] => q \in Listed'
  BY <1>2, <1>3, <1>5
<1> QED BY <1>2, <1>5, <1>6, <1>7, <1>8, <1>9

\* Where a thread stands in its calls.
LEMMA StepToLabels ==
  ASSUME FileTypes, NEW t \in Threads,
         NEW label \in {"start", "temporary", "replace", "rmdir"}, StepTo(t, label)
  PROVE  /\ step' \in [Threads -> {"start", "temporary", "replace", "rmdir"}]
         /\ \A u \in Threads : step'[u] = IF u = t THEN label ELSE step[u]
<1> QED BY DEF FileTypes, StepTo

-----------------------------------------------------------------------------
(* A step of one server.                                                   *)

\* The others are as they were, but may have lost a record to it.
Aside(s) == \A r \in Servers : r # s =>
              /\ pc'[Main(r)] = pc[Main(r)] /\ pc'[Heart(r)] = pc[Heart(r)]
              /\ r \in untidy' <=> r \in untidy
              /\ step'[Main(r)] = step[Main(r)] /\ step'[Heart(r)] = step[Heart(r)]
              /\ Main(r) \in temps => Main(r) \in temps'
              /\ Heart(r) \in temps => Heart(r) \in temps'
              /\ r \in Listed' => r \in Listed

\* A server with an ID of its own is not delisted while it serves.
Lasting == \A r \in Servers :
  Alone(r) /\ pc'[Main(r)] \in Serving => r \in Listed' \/ (pc[Main(r)] \in Serving /\ r \notin Listed)

\* What has to be shown of s when s takes a step.
LEMMA OneServer ==
  ASSUME FilesInv, NEW s \in Servers, Aside(s),
         ServerInv', FileTypes', FileInv',
         Tidy(s)', Steps(Main(s))', Steps(Heart(s))',
         \A r \in Listed : InstanceId[r] # InstanceId[s] => r \in Listed',
         pc'[Main(s)] \in Serving => s \in Listed' \/ (pc[Main(s)] \in Serving /\ s \notin Listed)
  PROVE  FilesInv' /\ Lasting
<1>1. ASSUME NEW r \in Servers, r # s
      PROVE  Tidy(r)' /\ Steps(Main(r))' /\ Steps(Heart(r))'
  BY <1>1 DEF Aside, FilesInv, ServersInv, Tidy, Steps
<1>2. ServersInv'
  BY <1>1 DEF ServersInv
<1>3. ASSUME NEW r \in Servers, Alone(r), pc'[Main(r)] \in Serving, r # s
      PROVE  r \in Listed' \/ (pc[Main(r)] \in Serving /\ r \notin Listed)
  <2>1. pc'[Main(r)] = pc[Main(r)]
    BY <1>3 DEF Aside
  <2>2. InstanceId[r] # InstanceId[s]
    BY <1>3 DEF Alone
  <2> QED BY <1>3, <2>1, <2>2
<1>4. Lasting
  BY <1>3 DEF Lasting
<1> QED BY <1>2, <1>4 DEF FilesInv

\* What a step that is not of a lookup may be to a registry.
Fades == UNCHANGED StatusView /\ Listed' \subseteq Listed /\ Fresh' \subseteq Fresh
Joins == \E s \in Servers : /\ StatusView[s] # "on"
                            /\ StatusView' = [StatusView EXCEPT ![s] = "on"]
                            /\ UNCHANGED <<Listed, Fresh>>
Leaves == \E s \in Servers : /\ StatusView[s] = "on"
                             /\ StatusView' = [StatusView EXCEPT ![s] = "off"]
                             /\ s \notin Listed /\ UNCHANGED <<Listed, Fresh>>
Dies == \E s \in Servers : /\ StatusView[s] = "on"
                           /\ StatusView' = [StatusView EXCEPT ![s] = "dead"]
                           /\ UNCHANGED <<Listed, Fresh>>
Publishes == \E s \in Servers : /\ StatusView[s] = "on" /\ UNCHANGED StatusView
                                /\ s \in Listed' /\ Listed' \ {s} \subseteq Listed
                                /\ Fresh' \ {s} = (Fresh \cap Listed') \ {s}
                                /\ Fresh' \subseteq Listed'

ServerSideView == Fades \/ Joins \/ Leaves \/ Dies \/ Publishes

\* The threads of s, when the labels of one change, or of both.
LEMMA TwoThreads ==
  ASSUME NEW s \in Servers
  PROVE  /\ Main(s) \in Threads /\ Heart(s) \in Threads /\ Main(s) # Heart(s)
         /\ Owner(Main(s)) = s /\ Owner(Heart(s)) = s
         /\ \A r \in Servers : r # s => /\ Main(r) # Main(s) /\ Main(r) # Heart(s)
                                        /\ Heart(r) # Main(s) /\ Heart(r) # Heart(s)
                                        /\ Main(r) \in Threads /\ Heart(r) \in Threads
<1> QED BY ThreadFacts

\* Steps of serve_forever() and of the heartbeat loop that write nothing.
LEMMA QuietStep ==
  ASSUME FilesInv, NEW s \in Servers, ServeForever(s) \/ MainStep(s) \/ HeartStep(s),
         UNCHANGED fileVars
  PROVE  FilesInv' /\ Lasting /\ ServerSideView
<1>f. UNCHANGED <<directory, file, temps, litter, step, now, Listed, Fresh>>
  <2>1. UNCHANGED <<directory, file, temps, litter, step, now>>
    BY DEF fileVars, ServeForever, MainStep, HeartStep, Spawn, SpawnFails, ServeEnds, Joined,
           Beat, HeartStops
  <2> QED BY <2>1, SameFiles DEF FilesInv
<1>i. ServerInv /\ Tidy(s) /\ Steps(Main(s)) /\ Steps(Heart(s))
  BY DEF FilesInv, ServersInv
<1>t. /\ pc[Heart(s)] # "none" => pc[Main(s)] \in {"serve", "join"}
      /\ pc[Main(s)] \in MainLabels /\ pc[Heart(s)] \in HeartLabels
  BY <1>i DEF ServerInv, ThreadInv
<1>s. /\ step[Main(s)] \in {"start", "temporary", "replace", "rmdir"}
      /\ step[Heart(s)] \in {"start", "temporary", "replace", "rmdir"}
  BY TwoThreads DEF FilesInv, FileTypes
<1>1. ServerInv'
  BY <1>i, MainInv, HeartInv
<1>2. FileTypes' /\ FileInv'
  BY <1>f DEF FilesInv, FileTypes, FileInv
<1>3. Aside(s)
  BY <1>f, <1>i, OthersKept DEF Aside
<1>4. /\ pc'[Main(s)] = pc[Main(s)] \/ step[Main(s)] = "start"
      /\ pc'[Heart(s)] = pc[Heart(s)] \/ step[Heart(s)] = "start"
      /\ pc'[Main(s)] \in Serving => pc[Main(s)] \in Serving
      /\ Tidy(s)'
  <2>1. CASE ServeForever(s)
    <3>1. pc[Main(s)] = "idle" /\ Goto(Main(s), "publish") /\ UNCHANGED untidy
      BY <2>1 DEF ServeForever, Publish
    <3>2. pc'[Main(s)] = "publish" /\ pc'[Heart(s)] = pc[Heart(s)]
      BY <1>i, <3>1, GotoLabels, TwoThreads
    <3>3. step[Main(s)] = "start"
      BY <1>i, <1>s, <3>1 DEF Steps
    <3> QED BY <1>f, <1>i, <3>1, <3>2, <3>3 DEF Tidy, Serving
  <2>2. CASE Spawn(s)
    <3>1. /\ pc[Main(s)] = "spawn" /\ pc'[Main(s)] = "serve" /\ UNCHANGED untidy
          /\ pc[Heart(s)] = "none"
      BY <2>2, <1>i, <1>t, TwoThreads DEF Spawn, ServerInv, ServerTypeOK
    <3>2. step[Main(s)] = "start" /\ step[Heart(s)] = "start"
      BY <1>i, <1>s, <3>1 DEF Steps
    <3> QED BY <1>f, <1>i, <3>1, <3>2 DEF Tidy, Serving
  <2>3. CASE SpawnFails(s)
    <3>1. pc[Main(s)] = "spawn" /\ Goto(Main(s), "broken") /\ untidy' = untidy \cup {s}
      BY <2>3 DEF SpawnFails
    <3>2. pc'[Main(s)] = "broken" /\ pc'[Heart(s)] = pc[Heart(s)]
      BY <1>i, <3>1, GotoLabels, TwoThreads
    <3>3. step[Main(s)] = "start"
      BY <1>i, <1>s, <3>1 DEF Steps
    <3> QED BY <1>f, <1>i, <3>1, <3>2, <3>3 DEF Tidy, Serving
  <2>4. CASE ServeEnds(s) \/ Joined(s)
    <3>1. PICK label \in {"join", "withdraw"} : Goto(Main(s), label)
      BY <2>4 DEF ServeEnds, Joined
    <3>2. pc'[Main(s)] = label /\ pc'[Heart(s)] = pc[Heart(s)]
      BY <1>i, <3>1, GotoLabels, TwoThreads
    <3>3. pc[Main(s)] \in {"serve", "join"} /\ UNCHANGED untidy
      BY <2>4 DEF ServeEnds, Joined
    <3>4. step[Main(s)] = "start"
      BY <1>i, <1>s, <3>3 DEF Steps
    <3> QED BY <1>f, <1>i, <3>2, <3>3, <3>4 DEF Tidy, Serving
  <2>5. CASE HeartStep(s)
    <3>1. PICK label \in {"publish", "none"} : Goto(Heart(s), label)
      BY <2>5 DEF HeartStep, Beat, HeartStops, Publish
    <3>2. pc'[Main(s)] = pc[Main(s)]
      BY <1>i, <3>1, GotoLabels, TwoThreads
    <3>3. pc[Heart(s)] = "wait" /\ UNCHANGED untidy
      BY <2>5 DEF HeartStep, Beat, HeartStops
    <3>4. step[Heart(s)] = "start"
      BY <1>i, <1>s, <3>3 DEF Steps
    <3> QED BY <1>f, <1>i, <3>2, <3>3, <3>4 DEF Tidy, Serving
  <2> QED BY <2>1, <2>2, <2>3, <2>4, <2>5 DEF MainStep
<1>5. Steps(Main(s))' /\ Steps(Heart(s))'
  BY <1>f, <1>i, <1>4 DEF Steps
<1>6. FilesInv' /\ Lasting
  BY <1>f, <1>1, <1>2, <1>3, <1>4, <1>5, OneServer
<1>7. ServerSideView
  <2>1. CASE ServeForever(s)
    BY <2>1, <1>f, <1>i, ServeForeverStatus DEF Joins, ServerSideView
  <2>2. CASE Spawn(s) \/ ServeEnds(s) \/ Joined(s) \/ HeartStep(s)
    BY <2>2, <1>f, <1>i, StatusKept DEF Fades, ServerSideView
  <2>3. CASE SpawnFails(s)
    <3>1. StatusView[s] = "on"
      BY <2>3 DEF SpawnFails, StatusView, StatusOf
    <3> QED BY <2>3, <3>1, <1>f, <1>i, DeathStatus DEF Dies, ServerSideView
  <2> QED BY <2>1, <2>2, <2>3 DEF MainStep
<1> QED BY <1>6, <1>7

\* _atomic_write makes the directory, and the temporary file.
LEMMA MakeStep ==
  ASSUME FilesInv, NEW t \in Threads, MakeDirectory(t) \/ MakeTemporary(t)
  PROVE  FilesInv' /\ Lasting /\ ServerSideView
<1>1. PICK s \in Servers : t = Main(s) \/ t = Heart(s)
  BY ThreadFacts
<1>2. PICK label \in {"temporary", "replace"} :
        /\ StepTo(t, label) /\ directory' = TRUE /\ directory' \in BOOLEAN
        /\ pc[t] = "publish" /\ UNCHANGED <<now, serverVars, file, litter>>
        /\ temps \subseteq temps' /\ temps' \subseteq temps \cup {t}
        /\ label = "replace" => t \in temps'
  <2>1. pc[t] = "publish"
    <3>1. Steps(t)
      BY <1>1 DEF FilesInv, ServersInv
    <3> QED BY <3>1 DEF MakeDirectory, MakeTemporary, Steps
  <2>2. CASE MakeDirectory(t)
    BY <2>1, <2>2 DEF MakeDirectory
  <2>3. CASE MakeTemporary(t)
    BY <2>1, <2>3 DEF MakeTemporary, FilesInv, FileTypes
  <2> QED BY <2>2, <2>3
<1>3. UNCHANGED <<now, pc, untidy, Listed, Fresh, StatusView>> /\ ServerInv'
  <2>1. UNCHANGED <<now, serverVars, file>>
    BY <1>2
  <2>2. Listed' = Listed /\ Fresh' = Fresh
    BY <2>1, SameFiles DEF FilesInv
  <2> QED BY <2>1, <2>2 DEF FilesInv, ServerInv, ServerTypeOK, ThreadInv, serverVars,
                            StatusView, StatusOf
<1>4. /\ step' \in [Threads -> {"start", "temporary", "replace", "rmdir"}]
      /\ \A u \in Threads : step'[u] = IF u = t THEN label ELSE step[u]
  BY <1>2, StepToLabels DEF FilesInv
<1>5. FileTypes' /\ FileInv'
  BY <1>2, <1>4 DEF FilesInv, FileTypes, FileInv
<1>6. Aside(s)
  BY <1>1, <1>2, <1>3, <1>4, TwoThreads DEF Aside
<1>7. \A u \in {Main(s), Heart(s)} : Steps(u)'
  BY <1>1, <1>2, <1>3, <1>4, TwoThreads DEF Steps, FilesInv, ServersInv
<1>8. Tidy(s)'
  <2>1. step'[Main(s)] # step[Main(s)] => pc[Main(s)] = "publish" /\ step'[Main(s)] # "rmdir"
    BY <1>1, <1>2, <1>4, TwoThreads
  <2>2. Tidy(s)
    BY DEF FilesInv, ServersInv
  <2> QED BY <1>3, <2>1, <2>2 DEF Tidy
<1>9. Steps(Main(s))' /\ Steps(Heart(s))'
  BY <1>7
<1>10. FilesInv' /\ Lasting
  BY <1>3, <1>5, <1>6, <1>8, <1>9, OneServer
<1> QED BY <1>3, <1>10 DEF Fades, ServerSideView

\* The directory is gone: serve_forever() raises, or the heartbeat is missed.
LEMMA MakeTemporaryFailsStep ==
  ASSUME FilesInv, NEW t \in Threads, MakeTemporaryFails(t)
  PROVE  FilesInv' /\ Lasting /\ ServerSideView
<1>1. PICK s \in Servers : t = Main(s) \/ t = Heart(s)
  BY ThreadFacts
<1>2. /\ PublishRaises(t) /\ StepTo(t, "start") /\ pc[t] = "publish"
      /\ UNCHANGED <<now, untidy, directory, file, temps, litter>>
  BY DEF MakeTemporaryFails, PublishRaises
<1>3. UNCHANGED <<Listed, Fresh>> /\ ServerInv'
  BY <1>2, SameFiles, PublishEndsInv DEF FilesInv
<1>4. /\ step' \in [Threads -> {"start", "temporary", "replace", "rmdir"}]
      /\ \A u \in Threads : step'[u] = IF u = t THEN "start" ELSE step[u]
  BY <1>2, StepToLabels DEF FilesInv
<1>5. FileTypes' /\ FileInv'
  BY <1>2, <1>4 DEF FilesInv, FileTypes, FileInv
<1>p. \/ PublishRaises(Main(s)) \/ PublishRaises(Heart(s))
  BY <1>1, <1>2
<1>o. \A r \in Servers : r # s => /\ pc'[Main(r)] = pc[Main(r)]
                                  /\ pc'[Heart(r)] = pc[Heart(r)]
                                  /\ r \in untidy' <=> r \in untidy
  BY <1>p, OthersKept DEF FilesInv
<1>6. Aside(s)
  BY <1>1, <1>2, <1>3, <1>4, <1>o, TwoThreads DEF Aside
<1>i. Tidy(s) /\ Steps(Main(s)) /\ Steps(Heart(s))
  BY DEF FilesInv, ServersInv
<1>7. PICK label \in {"idle", "wait"} : Goto(t, label) /\ (t = Main(s) => label = "idle")
  BY <1>1, <1>2, TwoThreads DEF PublishRaises
<1>8. \A u \in Threads : pc'[u] = IF u = t THEN label ELSE pc[u]
  BY <1>7, GotoLabels DEF FilesInv
<1>9. Steps(Main(s))' /\ Steps(Heart(s))'
  BY <1>1, <1>2, <1>4, <1>8, <1>i, TwoThreads DEF Steps
<1>10. /\ t = Main(s) => s \notin Listed \/ s \in untidy
       /\ t = Heart(s) => pc'[Main(s)] = pc[Main(s)] /\ step'[Main(s)] = step[Main(s)]
       /\ t = Main(s) => pc'[Main(s)] = "idle" /\ step'[Main(s)] = "start"
  BY <1>1, <1>2, <1>4, <1>7, <1>8, <1>i, TwoThreads DEF Tidy, Serving
<1>11. Tidy(s)'
  BY <1>1, <1>2, <1>3, <1>10, <1>i DEF Tidy
<1>12. pc'[Main(s)] \in Serving => pc[Main(s)] \in Serving
  BY <1>1, <1>10 DEF Serving
<1>13. FilesInv' /\ Lasting
  BY <1>3, <1>5, <1>6, <1>9, <1>11, <1>12, OneServer
<1>14. ServerSideView
  <2>1. CASE t = Main(s)
    <3>1. /\ StatusView[s] = "on"
          /\ StatusView' = [StatusView EXCEPT ![s] = IF s \in untidy THEN "dead" ELSE "off"]
      BY <1>2, <2>1, RaisesStatus DEF FilesInv
    <3>2. CASE s \in untidy
      BY <1>3, <3>1, <3>2 DEF Dies, ServerSideView
    <3>3. CASE s \notin untidy
      BY <1>3, <1>10, <2>1, <3>1, <3>3 DEF Leaves, ServerSideView
    <3> QED BY <3>2, <3>3
  <2>2. CASE t = Heart(s)
    <3>1. UNCHANGED StatusView
      BY <1>2, <2>2, StatusKept DEF FilesInv
    <3> QED BY <1>3, <3>1 DEF Fades, ServerSideView
  <2> QED BY <1>1, <2>1, <2>2
<1> QED BY <1>13, <1>14

\* The record is renamed to its place.
LEMMA ReplaceStep ==
  ASSUME FilesInv, NEW t \in Threads, Replace(t)
  PROVE  FilesInv' /\ Lasting /\ ServerSideView
<1>1. PICK s \in Servers : Owner(t) = s /\ (t = Main(s) \/ t = Heart(s))
  BY ThreadFacts
<1>2. /\ PublishReturns(t) /\ StepTo(t, "start") /\ pc[t] = "publish" /\ step[t] = "replace"
      /\ UNCHANGED <<now, untidy, directory, litter>> /\ temps' = temps \ {t}
      /\ file' = [file EXCEPT ![InstanceId[s]] = RecordOf(t)]
  BY <1>1 DEF Replace, PublishReturns
<1>i. Tidy(s) /\ Steps(Main(s)) /\ Steps(Heart(s))
  BY DEF FilesInv, ServersInv
<1>r. RecordOf(t) \in Record /\ RecordOf(t).by = s
  BY <1>1 DEF RecordOf, Record, FilesInv, ServerInv, ServerTypeOK
<1>3. /\ file' \in [Ids -> Record \cup {NoRecord}]
      /\ s \in Listed' /\ Listed' \ {s} \subseteq Listed
      /\ \A q \in Listed : InstanceId[q] # InstanceId[s] => q \in Listed'
      /\ Fresh' \ {s} = (Fresh \cap Listed') \ {s}
      /\ Fresh' \subseteq Listed'
  BY <1>2, <1>r, RenamedFile DEF FilesInv
<1>4. /\ step' \in [Threads -> {"start", "temporary", "replace", "rmdir"}]
      /\ \A u \in Threads : step'[u] = IF u = t THEN "start" ELSE step[u]
  BY <1>2, StepToLabels DEF FilesInv
<1>d. t \in temps /\ directory
  BY <1>1, <1>2, <1>i DEF Steps, FilesInv, FileInv
<1>5. FileTypes' /\ FileInv'
  <2>1. \A i \in Ids : file'[i] = IF i = InstanceId[s] THEN RecordOf(t) ELSE file[i]
    BY <1>2 DEF FilesInv, FileTypes
  <2>2. FileInv'
    BY <1>2, <1>d, <1>r, <2>1 DEF FilesInv, FileInv
  <2> QED BY <1>2, <1>3, <1>4, <2>2 DEF FilesInv, FileTypes
<1>p. PublishReturns(Main(s)) \/ PublishReturns(Heart(s))
  BY <1>1, <1>2
<1>o. \A r \in Servers : r # s => /\ pc'[Main(r)] = pc[Main(r)]
                                  /\ pc'[Heart(r)] = pc[Heart(r)]
                                  /\ r \in untidy' <=> r \in untidy
  BY <1>p, OthersKept DEF FilesInv
<1>6. Aside(s)
  BY <1>1, <1>2, <1>3, <1>4, <1>o, TwoThreads DEF Aside, Listed
<1>7. PICK label \in {"spawn", "wait"} : Goto(t, label) /\ (t = Main(s) => label = "spawn")
  BY <1>1, <1>2 DEF PublishReturns
<1>8. \A u \in Threads : pc'[u] = IF u = t THEN label ELSE pc[u]
  BY <1>7, GotoLabels DEF FilesInv
<1>9. Steps(Main(s))' /\ Steps(Heart(s))'
  BY <1>1, <1>2, <1>4, <1>8, <1>i, TwoThreads DEF Steps
<1>10. pc'[Main(s)] \in Serving /\ step'[Main(s)] # "rmdir"
  <2>1. CASE t = Main(s)
    BY <1>4, <1>7, <1>8, <2>1, TwoThreads DEF Serving
  <2>2. CASE t = Heart(s)
    <3>1. pc'[Main(s)] = pc[Main(s)] /\ step'[Main(s)] = step[Main(s)]
      BY <1>4, <1>8, <2>2, TwoThreads
    <3>2. pc[Main(s)] \in {"serve", "join"}
      BY <1>2, <2>2 DEF FilesInv, ServerInv, ThreadInv
    <3> QED BY <1>i, <3>1, <3>2 DEF Serving, Steps
  <2> QED BY <1>1, <2>1, <2>2
<1>11. Tidy(s)'
  BY <1>10 DEF Tidy
<1>12. ServerInv'
  BY <1>2, PublishEndsInv DEF FilesInv
<1>13. FilesInv' /\ Lasting
  BY <1>3, <1>5, <1>6, <1>9, <1>11, <1>12, OneServer
<1>14. StatusView[s] = "on"
  <2>1. pc[Main(s)] \in {"publish", "serve", "join"}
    BY <1>1, <1>2 DEF FilesInv, ServerInv, ThreadInv
  <2> QED BY <2>1 DEF StatusView, StatusOf
<1>15. UNCHANGED StatusView
  BY <1>p, StatusKept DEF FilesInv
<1>16. Publishes
  BY <1>3, <1>14, <1>15 DEF Publishes
<1> QED BY <1>13, <1>16 DEF ServerSideView

\* unregister() unlinks the record, whoever wrote it.
LEMMA UnlinkStep ==
  ASSUME FilesInv, NEW s \in Servers, Unlink(s)
  PROVE  FilesInv' /\ Lasting /\ ServerSideView
<1>1. /\ pc[Main(s)] = "withdraw" /\ StepTo(Main(s), "rmdir")
      /\ file' = [file EXCEPT ![InstanceId[s]] = NoRecord]
      /\ UNCHANGED <<now, serverVars, directory, temps, litter>>
  BY DEF Unlink
<1>2. file' = [i \in Ids |-> IF i \in {InstanceId[s]} THEN NoRecord ELSE file[i]]
  <2>1. file \in [Ids -> Record \cup {NoRecord}]
    BY DEF FilesInv, FileTypes
  <2>2. file' = [file EXCEPT ![InstanceId[s]] = NoRecord]
    BY <1>1
  <2> QED BY ONLY <2>1, <2>2
<1>3. /\ file' \in [Ids -> Record \cup {NoRecord}] /\ FileInv'
      /\ Listed' = {r \in Listed : InstanceId[r] \notin {InstanceId[s]}}
      /\ Fresh' = Fresh \cap Listed'
  <2>1. {InstanceId[s]} \in SUBSET Ids
    BY IdFacts
  <2>2. FileTypes /\ FileInv /\ UNCHANGED <<now, directory, temps>>
    BY <1>1 DEF FilesInv
  <2> QED BY ONLY <1>2, <2>1, <2>2, FewerFiles
<1>4. /\ step' \in [Threads -> {"start", "temporary", "replace", "rmdir"}]
      /\ \A u \in Threads : step'[u] = IF u = Main(s) THEN "rmdir" ELSE step[u]
  BY <1>1, TwoThreads, StepToLabels DEF FilesInv
<1>5. UNCHANGED <<pc, untidy, StatusView>> /\ ServerInv'
  BY <1>1 DEF FilesInv, ServerInv, ServerTypeOK, ThreadInv, serverVars, StatusView, StatusOf
<1>6. FileTypes'
  BY <1>1, <1>3, <1>4 DEF FilesInv, FileTypes
<1>7. Aside(s)
  BY <1>1, <1>3, <1>4, <1>5, TwoThreads DEF Aside
<1>8. Steps(Main(s))' /\ Steps(Heart(s))' /\ Tidy(s)'
  BY <1>1, <1>3, <1>4, <1>5, TwoThreads DEF FilesInv, ServersInv, Steps, Tidy
<1>9. FilesInv' /\ Lasting
  BY <1>1, <1>3, <1>5, <1>6, <1>7, <1>8, OneServer DEF Serving
<1> QED BY <1>3, <1>5, <1>9 DEF Fades, ServerSideView

\* unregister() returns: the record is gone, and the directory if it is empty.
LEMMA WithdrawStep ==
  ASSUME FilesInv, NEW s \in Servers, UnlinkFindsNothing(s) \/ RemoveDirectory(s)
  PROVE  FilesInv' /\ Lasting /\ ServerSideView
<1>i. Tidy(s) /\ Steps(Main(s)) /\ Steps(Heart(s)) /\ FileInv /\ FileTypes
  BY DEF FilesInv, ServersInv
<1>1. /\ WithdrawReturns(s) /\ UNCHANGED <<now, file, temps, litter>>
      /\ pc[Main(s)] = "withdraw" /\ untidy' = untidy \ {s} /\ Goto(Main(s), "idle")
  BY DEF UnlinkFindsNothing, RemoveDirectory, WithdrawReturns, fileVars
<1>2. Listed' = Listed /\ Fresh' = Fresh
  BY <1>1, <1>i, SameFiles
<1>3. s \notin Listed
  <2>1. CASE UnlinkFindsNothing(s)
    BY <2>1, <1>i, ListedHasRecord DEF UnlinkFindsNothing
  <2>2. CASE RemoveDirectory(s)
    BY <2>2, <1>i DEF RemoveDirectory, Tidy
  <2> QED BY <2>1, <2>2
<1>4. /\ step' \in [Threads -> {"start", "temporary", "replace", "rmdir"}]
      /\ \A u \in Threads : step'[u] = IF u = Main(s) THEN "start" ELSE step[u]
  <2>1. CASE UnlinkFindsNothing(s)
    BY <2>1, <1>i DEF UnlinkFindsNothing, fileVars, FileTypes
  <2>2. CASE RemoveDirectory(s)
    BY <2>2, <1>i, TwoThreads, StepToLabels DEF RemoveDirectory
  <2> QED BY <2>1, <2>2
<1>5. \/ UNCHANGED directory
      \/ directory' = FALSE /\ temps = {} /\ \A i \in Ids : file[i] = NoRecord
      \/ directory' = FALSE /\ directory = FALSE
  <2>1. CASE UnlinkFindsNothing(s)
    BY <2>1 DEF UnlinkFindsNothing, fileVars
  <2>2. CASE RemoveDirectory(s)
    <3>1. directory' = (directory /\ ~Empty)
      BY <2>2 DEF RemoveDirectory
    <3> QED BY <1>i, <3>1 DEF Empty, FileTypes
  <2> QED BY <2>1, <2>2
<1>6. directory' \in BOOLEAN /\ FileInv'
  BY <1>1, <1>5, <1>i DEF FileTypes, FileInv
<1>7. FileTypes'
  BY <1>1, <1>4, <1>6, <1>i DEF FileTypes
<1>8. \A u \in Threads : pc'[u] = IF u = Main(s) THEN "idle" ELSE pc[u]
  BY <1>1, TwoThreads, GotoLabels DEF FilesInv
<1>9. Aside(s)
  BY <1>1, <1>2, <1>4, <1>8, TwoThreads DEF Aside
<1>10. Steps(Main(s))' /\ Steps(Heart(s))' /\ Tidy(s)'
  BY <1>1, <1>2, <1>3, <1>4, <1>8, <1>i, TwoThreads DEF Steps, Tidy
<1>11. ServerInv'
  BY <1>1, MainInv DEF FilesInv
<1>12. pc'[Main(s)] \notin Serving
  BY <1>8, TwoThreads DEF Serving
<1>13. FilesInv' /\ Lasting
  BY <1>2, <1>6, <1>7, <1>9, <1>10, <1>11, <1>12, OneServer
<1>14. StatusView[s] = "on" /\ StatusView' = [StatusView EXCEPT ![s] = "off"]
  BY <1>1, WithdrawStatus DEF FilesInv
<1> QED BY <1>2, <1>3, <1>13, <1>14 DEF Leaves, ServerSideView

\* A process dies, and leaves its files.
LEMMA DieStep ==
  ASSUME FilesInv, NEW s \in Servers, Die(s)
  PROVE  FilesInv' /\ Lasting /\ ServerSideView
<1>i. FileInv /\ FileTypes /\ ServerInv
  BY DEF FilesInv
<1>1. /\ Crash(s) /\ UNCHANGED <<now, directory, file>> /\ untidy' = untidy \cup {s}
      /\ litter' = (litter \/ \E t \in temps : Owner(t) = s)
      /\ temps' = {t \in temps : Owner(t) # s}
      /\ step' = [t \in Threads |-> IF Owner(t) = s THEN "start" ELSE step[t]]
      /\ pc' = [pc EXCEPT ![Main(s)] = "idle", ![Heart(s)] = "none"]
  BY DEF Die, Crash
<1>2. Listed' = Listed /\ Fresh' = Fresh
  BY <1>1, <1>i, SameFiles
<1>3. litter' \in BOOLEAN
  BY <1>1, <1>i DEF FileTypes
<1>4. step' \in [Threads -> {"start", "temporary", "replace", "rmdir"}]
  BY <1>1, <1>i DEF FileTypes
<1>5. FileTypes' /\ FileInv'
  BY <1>1, <1>3, <1>4, <1>i DEF FileTypes, FileInv
<1>6. \A u \in Threads : pc'[u] = IF u = Heart(s) THEN "none"
                                  ELSE IF u = Main(s) THEN "idle" ELSE pc[u]
  BY <1>1, <1>i DEF ServerInv, ServerTypeOK
<1>7. Aside(s)
  <2> SUFFICES ASSUME NEW r \in Servers, r # s
               PROVE  /\ pc'[Main(r)] = pc[Main(r)] /\ pc'[Heart(r)] = pc[Heart(r)]
                      /\ r \in untidy' <=> r \in untidy
                      /\ step'[Main(r)] = step[Main(r)] /\ step'[Heart(r)] = step[Heart(r)]
                      /\ Main(r) \in temps => Main(r) \in temps'
                      /\ Heart(r) \in temps => Heart(r) \in temps'
                      /\ r \in Listed' => r \in Listed
    BY DEF Aside
  <2>1. /\ Main(r) \in Threads /\ Heart(r) \in Threads /\ Owner(Main(r)) = r /\ Owner(Heart(r)) = r
        /\ Main(r) # Main(s) /\ Main(r) # Heart(s) /\ Heart(r) # Main(s) /\ Heart(r) # Heart(s)
    BY TwoThreads
  <2> QED BY <1>1, <1>2, <1>6, <2>1
<1>8. step'[Main(s)] = "start" /\ step'[Heart(s)] = "start" /\ s \in untidy'
      /\ pc'[Main(s)] = "idle"
  BY <1>1, <1>6, TwoThreads
<1>9. Steps(Main(s))' /\ Steps(Heart(s))' /\ Tidy(s)'
  BY <1>8 DEF Steps, Tidy
<1>10. ServerInv'
  BY <1>1, <1>i, CrashInv
<1>11. FilesInv' /\ Lasting
  BY <1>2, <1>5, <1>7, <1>8, <1>9, <1>10, OneServer DEF Serving
<1>12. /\ StatusView[s] \in {"on", "dead"}
       /\ StatusView' = [StatusView EXCEPT ![s] = "dead"]
  BY <1>1, <1>i, DeathStatus
<1>13. ServerSideView
  <2>1. CASE StatusView[s] = "on"
    BY <1>2, <1>12, <2>1 DEF Dies, ServerSideView
  <2>2. CASE StatusView[s] = "dead"
    <3>1. UNCHANGED StatusView
      BY <1>12, <2>2 DEF StatusView
    <3> QED BY <1>2, <3>1 DEF Fades, ServerSideView
  <2> QED BY <1>12, <2>1, <2>2
<1> QED BY <1>11, <1>13

\* Time passes: records go stale.
LEMMA TickStep ==
  ASSUME FilesInv, Tick, UNCHANGED fileVars
  PROVE  FilesInv' /\ Lasting /\ ServerSideView
<1>1. /\ now \in Int /\ now' = now + 1 /\ Timeout \in Nat
      /\ UNCHANGED <<serverVars, directory, file, temps, litter, step>>
  BY FilesAssumption, ServiceAssumption DEF Tick, fileVars, FilesInv, ServerInv, ServerTypeOK
<1>2. ServerInv' /\ UNCHANGED <<pc, untidy>>
  BY <1>1, TickInv DEF FilesInv, serverVars
<1>3. Listed' = Listed
  BY <1>1, SameFiles DEF FilesInv
<1>4. Fresh' \subseteq Fresh
  <2> SUFFICES ASSUME NEW s \in Fresh'
               PROVE  s \in Fresh
    OBVIOUS
  <2>1. s \in Listed /\ file[InstanceId[s]].heartbeat >= now + 1 - Timeout
    BY <1>1, <1>3 DEF Fresh
  <2>2. file[InstanceId[s]].heartbeat \in Int
    BY <2>1, ListedHasRecord, Nobody DEF FilesInv
  <2>3. file[InstanceId[s]].heartbeat >= now - Timeout
    BY <1>1, <2>1, <2>2
  <2> QED BY <2>1, <2>3 DEF Fresh
<1>5. UNCHANGED StatusView
  BY <1>2 DEF StatusView, StatusOf
<1>6. FileTypes' /\ FileInv' /\ ServersInv'
  BY <1>1, <1>2, <1>3 DEF FilesInv, FileTypes, FileInv, ServersInv, Tidy, Steps
<1>7. Lasting
  BY <1>2, <1>3 DEF Lasting
<1> QED BY <1>2, <1>3, <1>4, <1>5, <1>6, <1>7 DEF FilesInv, Fades, ServerSideView

\* The steps that are not of lookups.
ServerSide == \/ Tick /\ UNCHANGED fileVars
              \/ \E s \in Servers :
                   \/ (ServeForever(s) \/ MainStep(s) \/ HeartStep(s)) /\ UNCHANGED fileVars
                   \/ UnregisterStep(s) \/ Die(s)
              \/ \E t \in Threads : WriteStep(t)

LEMMA ServerSideStep ==
  ASSUME FilesInv, ServerSide
  PROVE  FilesInv' /\ Lasting /\ ServerSideView
<1> QED BY QuietStep, MakeStep, MakeTemporaryFailsStep, ReplaceStep, UnlinkStep, WithdrawStep,
           DieStep, TickStep
        DEF ServerSide, UnregisterStep, WriteStep

\* The lookups rest meanwhile.
LEMMA ServerSideRest ==
  ASSUME ServerSide, now \in Int
  PROVE  now' \in Int /\ now <= now'
<1> QED BY DEF ServerSide, Tick, ServeForever, MainStep, HeartStep, Spawn, SpawnFails, ServeEnds,
               Joined, Beat, HeartStops, UnregisterStep, Unlink, UnlinkFindsNothing,
               RemoveDirectory, WithdrawReturns, Die, Crash, WriteStep, MakeDirectory,
               MakeTemporary, MakeTemporaryFails, Replace, PublishReturns, PublishRaises

-----------------------------------------------------------------------------
(* A step of one lookup.                                                   *)

LookupSide(l) == Look(l) \/ LookupStep(l)

\* A lookup may unlink a record that it read as stale, and touches nothing else.
LEMMA LookupFiles ==
  ASSUME FilesInv, LookupTypes, NEW l \in Lookups, LookupSide(l)
  PROVE  /\ FilesInv' /\ UNCHANGED <<now, pc, StatusView>>
         /\ Listed' \subseteq Listed /\ Fresh' = Fresh \cap Listed'
         /\ \A s \in Listed : InstanceId[s] \notin reading[l] => s \in Listed'
<1>1. UNCHANGED Outside
  BY DEF LookupSide, LookupStep, Look, Glob, Read, Recheck, PruneUnlink, AllRead, Pick
<1>2. PICK gone \in SUBSET reading[l] :
        file' = [i \in Ids |-> IF i \in gone THEN NoRecord ELSE file[i]]
  <2>1. CASE PruneUnlink(l)
    BY <2>1 DEF PruneUnlink
  <2>2. CASE ~PruneUnlink(l)
    <3>1. UNCHANGED file
      BY <2>2 DEF LookupSide, LookupStep, Look, Glob, Read, Recheck, AllRead, Pick
    <3>2. file' = [i \in Ids |-> IF i \in {} THEN NoRecord ELSE file[i]]
      BY <3>1 DEF FilesInv, FileTypes
    <3> WITNESS {} \in SUBSET reading[l]
    <3> QED BY <3>2
  <2> QED BY <2>1, <2>2
<1>3. gone \in SUBSET Ids /\ UNCHANGED <<now, directory, temps, litter, step, pc, untidy>>
  BY <1>1 DEF LookupTypes, Outside, serverVars
<1>4. /\ file' \in [Ids -> Record \cup {NoRecord}] /\ FileInv'
      /\ Listed' = {s \in Listed : InstanceId[s] \notin gone}
      /\ Fresh' = Fresh \cap Listed'
  BY <1>2, <1>3, FewerFiles DEF FilesInv
<1>5. ServerInv' /\ UNCHANGED StatusView
  BY <1>1 DEF FilesInv, ServerInv, ServerTypeOK, ThreadInv, Outside, serverVars, StatusView,
              StatusOf
<1>6. FileTypes'
  BY <1>3, <1>4 DEF FilesInv, FileTypes
<1>7. ServersInv'
  BY <1>3, <1>4 DEF FilesInv, ServersInv, Tidy, Steps
<1> QED BY <1>3, <1>4, <1>5, <1>6, <1>7 DEF FilesInv

\* A step of another leaves lookup l where it is.
Resting(l) == /\ lpc'[l] = lpc[l] /\ cutoff'[l] = cutoff[l] /\ todo'[l] = todo[l]
              /\ reading'[l] = reading[l] /\ healthy'[l] = healthy[l] /\ found'[l] = found[l]

\* The lookups' types, and the rest of the others, when l goes on.
LEMMA LookupMoves ==
  ASSUME FilesInv, LookupTypes, NEW l \in Lookups, LookupSide(l)
  PROVE  LookupTypes' /\ \A r \in Lookups : r # l => Resting(r)
<1>f. /\ file \in [Ids -> Record \cup {NoRecord}]
      /\ now \in 0 .. MaxTime /\ MaxTime \in Nat /\ Timeout \in Nat
  BY FilesAssumption, ServiceAssumption DEF FilesInv, FileTypes, ServerInv, ServerTypeOK
<1>1. CASE Look(l)
  <2>1. now - Timeout \in -Timeout .. MaxTime
    BY <1>f
  <2>2. cutoff' \in [Lookups -> -Timeout .. MaxTime]
    BY <1>1, <2>1 DEF Look, LookupTypes
  <2>3. PICK label \in {"glob", "pick"} : lpc' = [lpc EXCEPT ![l] = label]
    BY <1>1 DEF Look, LookupGoto
  <2> QED BY <1>1, <2>2, <2>3 DEF Look, LookupTypes, Resting
<1>2. CASE Glob(l)
  BY <1>2 DEF Glob, LookupGoto, LookupTypes, Resting
<1>3. CASE Read(l)
  <2>1. PICK i \in todo[l] :
          /\ todo' = [todo EXCEPT ![l] = @ \ {i}]
          /\ \/ /\ file[i] # NoRecord
                /\ healthy' = [healthy EXCEPT ![l] = @ \cup {file[i]}]
                /\ UNCHANGED <<lpc, reading>>
             \/ /\ LookupGoto(l, "recheck")
                /\ reading' = [reading EXCEPT ![l] = {i}]
                /\ UNCHANGED healthy
             \/ UNCHANGED <<lpc, reading, healthy>>
    BY <1>3 DEF Read
  <2>2. i \in Ids /\ UNCHANGED <<cutoff, found, robin>>
    BY <1>3 DEF Read, LookupTypes
  <2>3. todo' \in [Lookups -> SUBSET Ids] /\ \A r \in Lookups : r # l => todo'[r] = todo[r]
    BY <2>1 DEF LookupTypes
  <2>4. CASE /\ file[i] # NoRecord
             /\ healthy' = [healthy EXCEPT ![l] = @ \cup {file[i]}]
             /\ UNCHANGED <<lpc, reading>>
    <3>1. file[i] \in Record
      BY <1>f, <2>2, <2>4
    <3> QED BY <2>2, <2>3, <2>4, <3>1 DEF LookupTypes, Resting
  <2>5. CASE /\ LookupGoto(l, "recheck")
             /\ reading' = [reading EXCEPT ![l] = {i}]
             /\ UNCHANGED healthy
    BY <2>2, <2>3, <2>5 DEF LookupGoto, LookupTypes, Resting
  <2>6. CASE UNCHANGED <<lpc, reading, healthy>>
    BY <2>2, <2>3, <2>6 DEF LookupTypes, Resting
  <2> QED BY <2>1, <2>4, <2>5, <2>6
<1>4. CASE Recheck(l)
  <2>1. PICK label \in {"unlink", "read"} : lpc' = [lpc EXCEPT ![l] = label]
    BY <1>4 DEF Recheck, LookupGoto
  <2>2. UNCHANGED reading \/ reading' = [reading EXCEPT ![l] = {}]
    BY <1>4 DEF Recheck
  <2>3. /\ reading' \in [Lookups -> SUBSET Ids]
        /\ \A r \in Lookups : r # l => reading'[r] = reading[r]
    BY <2>2 DEF LookupTypes
  <2> QED BY <1>4, <2>1, <2>3 DEF Recheck, LookupTypes, Resting
<1>5. CASE PruneUnlink(l)
  BY <1>5 DEF PruneUnlink, LookupGoto, LookupTypes, Resting
<1>6. CASE AllRead(l)
  BY <1>6 DEF AllRead, LookupGoto, LookupTypes, Resting
<1>7. CASE Pick(l)
  <2>1. /\ lpc' = [lpc EXCEPT ![l] = "done"] /\ healthy' = [healthy EXCEPT ![l] = {}]
        /\ cutoff' = [cutoff EXCEPT ![l] = 0] /\ UNCHANGED <<todo, reading>>
    BY <1>7 DEF Pick, LookupGoto
  <2>2. \/ UNCHANGED <<found, robin>>
        \/ (\E r \in healthy[l] : found' = [found EXCEPT ![l] = r]) /\ robin' = robin + 1
    BY <1>7 DEF Pick
  <2>3. found' \in [Lookups -> Record \cup {NoRecord}] /\ robin' \in Nat
        /\ \A r \in Lookups : r # l => found'[r] = found[r]
    BY <2>2 DEF LookupTypes
  <2>4. 0 \in -Timeout .. MaxTime
    BY <1>f
  <2> QED BY <2>1, <2>3, <2>4 DEF LookupTypes, Resting
<1> QED BY <1>1, <1>2, <1>3, <1>4, <1>5, <1>6, <1>7 DEF LookupSide, LookupStep

-----------------------------------------------------------------------------
(* The files, whoever watches.                                             *)

SpecInv == FilesInv /\ LookupTypes

LEMMA InitFiles == Init => SpecInv
<1> SUFFICES ASSUME Init
             PROVE  SpecInv
  OBVIOUS
<1>1. ServerInv
  BY ServerInitInv DEF Init
<1>2. Listed = {}
  BY IdFacts, Nobody DEF Init, Listed
<1>3. \A s \in Servers : step[Main(s)] = "start" /\ step[Heart(s)] = "start"
  BY TwoThreads DEF Init
<1>4. ServersInv
  BY <1>2, <1>3 DEF ServersInv, Tidy, Steps
<1>5. FileTypes /\ FileInv
  BY DEF Init, FileTypes, FileInv
<1>6. 0 \in -Timeout .. MaxTime
  BY FilesAssumption, ServiceAssumption
<1>7. LookupTypes
  BY <1>6 DEF Init, LookupTypes
<1> QED BY <1>1, <1>4, <1>5, <1>7 DEF SpecInv, FilesInv

LEMMA NextCases ==
  ASSUME Next
  PROVE  \/ ServerSide /\ UNCHANGED lookupVars
         \/ \E l \in Lookups : LookupSide(l)
<1>1. ASSUME NEW s \in Servers, UnregisterStep(s) \/ Die(s)
      PROVE  UNCHANGED lookupVars
  BY <1>1 DEF UnregisterStep, Unlink, UnlinkFindsNothing, RemoveDirectory, Die
<1>2. ASSUME NEW t \in Threads, WriteStep(t)
      PROVE  UNCHANGED lookupVars
  BY <1>2 DEF WriteStep, MakeDirectory, MakeTemporary, MakeTemporaryFails, Replace
<1> QED BY <1>1, <1>2 DEF Next, ServerSide, LookupSide

LEMMA NextFiles == SpecInv /\ [Next]_vars => SpecInv'
<1> SUFFICES ASSUME SpecInv, [Next]_vars
             PROVE  SpecInv'
  OBVIOUS
<1>1. CASE UNCHANGED vars
  BY <1>1 DEF vars, serverVars, fileVars, lookupVars, SpecInv, FilesInv, ServerInv, ServerTypeOK,
              ThreadInv, FileTypes, ServersInv, Tidy, Steps, Listed, FileInv, LookupTypes
<1>2. CASE ServerSide /\ UNCHANGED lookupVars
  BY <1>2, ServerSideStep DEF SpecInv, LookupTypes, lookupVars
<1>3. ASSUME NEW l \in Lookups, LookupSide(l)
      PROVE  SpecInv'
  BY <1>3, LookupFiles, LookupMoves DEF SpecInv
<1> QED BY <1>1, <1>2, <1>3, NextCases

\* Every variable has its type, whatever the observers.
THEOREM TypeCorrect == Spec => []TypeOK
<1>1. SpecInv => TypeOK
  BY DEF SpecInv, FilesInv, ServerInv, FileTypes, LookupTypes, TypeOK
<1> QED BY <1>1, InitFiles, NextFiles, PTL DEF Spec

\* A server that left in order has no record: the heartbeat thread was joined
\* before the unlink, so no late rename brings the record back.
THEOREM NoGhosts == Spec => []NoGhost
<1>1. SpecInv => NoGhost
  <2> SUFFICES ASSUME SpecInv, NEW s \in Servers, StatusOf(s) = "off"
               PROVE  s \notin Listed
    BY DEF NoGhost
  <2>1. pc[Main(s)] \in {"idle", "broken"} /\ s \notin untidy
    BY DEF StatusOf
  <2> QED BY <2>1 DEF SpecInv, FilesInv, ServersInv, Tidy, Serving
<1> QED BY <1>1, InitFiles, NextFiles, PTL DEF Spec

-----------------------------------------------------------------------------
(* What lookups see.                                                       *)

\* What the observers note.
LEMMA Watched ==
  ASSUME Watch
  PROVE  /\ possible \in [Lookups -> SUBSET Servers] => WatchTypes'
         /\ late \subseteq late' /\ Stale' \subseteq late'
         /\ \A l \in Lookups : Open(l)' =>
              /\ Listed' \subseteq possible'[l] /\ certain'[l] \subseteq Fresh'
              /\ Open(l) => possible[l] \subseteq possible'[l] /\ certain'[l] \subseteq certain[l]
<1>1. Listed' \subseteq Servers /\ Fresh' \subseteq Servers
  BY DEF Listed, Fresh
<1>2. ASSUME NEW l \in Lookups
      PROVE  certain'[l] \subseteq Servers
  BY <1>1, <1>2 DEF Watch
<1>3. certain' \in [Lookups -> SUBSET Servers]
  BY <1>2 DEF Watch
<1>4. ASSUME possible \in [Lookups -> SUBSET Servers], NEW l \in Lookups
      PROVE  possible'[l] \subseteq Servers
  BY <1>1, <1>4 DEF Watch
<1>5. possible \in [Lookups -> SUBSET Servers] => possible' \in [Lookups -> SUBSET Servers]
  BY <1>4 DEF Watch
<1>6. \A l \in Lookups : Open(l)' =>
              /\ Listed' \subseteq possible'[l] /\ certain'[l] \subseteq Fresh'
              /\ Open(l) => possible[l] \subseteq possible'[l] /\ certain'[l] \subseteq certain[l]
  BY DEF Watch
<1>7. late \subseteq late' /\ Stale' \subseteq late'
  BY DEF Watch
<1> QED BY <1>3, <1>5, <1>6, <1>7 DEF WatchTypes

\* The clock and its bounds.
LEMMA ClockFacts ==
  ASSUME FilesInv, LookupTypes
  PROVE  /\ now \in Int /\ Timeout \in Nat \ {0}
         /\ \A l \in Lookups : cutoff[l] \in Int
         /\ \A r \in Record : r.heartbeat \in Int
<1> QED BY FilesAssumption, ServiceAssumption, Nobody
        DEF FilesInv, ServerInv, ServerTypeOK, LookupTypes

LEMMA RestingSees ==
  ASSUME FilesInv, LookupTypes, LookupInv, Watch, now' \in Int, now <= now',
         NEW l \in Lookups, Resting(l)
  PROVE  Sees(l)'
<1>1. Sees(l)
  BY DEF LookupInv
<1>2. Open(l)' <=> Open(l)
  BY DEF Resting, Open
<1>3. /\ late \subseteq late'
      /\ Open(l) => /\ possible[l] \subseteq possible'[l]
                    /\ certain'[l] \subseteq certain[l] /\ certain'[l] \subseteq Fresh'
  BY <1>2, Watched
<1>4. reading'[l] \subseteq late'
  BY <1>1, <1>3 DEF Sees, Resting
<1>5. CASE Open(l)
  <2>1. cutoff'[l] <= now' - Timeout
    BY <1>1, <1>5, ClockFacts DEF Sees, Progress, Resting
  <2>2. Progress(l)'
    BY <1>1, <1>3, <1>5, <2>1 DEF Sees, Progress, Resting
  <2>3. lpc'[l] \notin {"idle", "done"}
    BY <1>2, <1>5 DEF Open
  <2>4. found'[l] = NoRecord /\ \A r \in healthy'[l] : r.by \in possible'[l]
    BY <1>1, <1>3, <1>5 DEF Sees, Resting, Open
  <2> QED BY <1>4, <2>2, <2>3, <2>4 DEF Sees
<1>6. CASE ~Open(l)
  BY <1>1, <1>2, <1>4, <1>6 DEF Sees, Resting, Open
<1> QED BY <1>5, <1>6

\* What l reads is what was listed.
LEMMA LookupSees ==
  ASSUME FilesInv, LookupTypes, LookupInv, Watch, NEW l \in Lookups, LookupSide(l)
  PROVE  Sees(l)'
<1>t. LookupTypes' /\ FilesInv' /\ UNCHANGED now
  BY LookupMoves, LookupFiles
<1>c. /\ now \in Int /\ Timeout \in Nat \ {0} /\ cutoff[l] \in Int
      /\ \A r \in Record : r.heartbeat \in Int
  BY ClockFacts
<1>s. Sees(l)
  BY DEF LookupInv
<1>w. /\ late \subseteq late' /\ Stale' \subseteq late'
      /\ Open(l)' => /\ Listed' \subseteq possible'[l] /\ certain'[l] \subseteq Fresh'
                     /\ Open(l) => /\ possible[l] \subseteq possible'[l]
                                   /\ certain'[l] \subseteq certain[l]
  BY Watched
<1>1. CASE Look(l)
  <2>1. /\ lpc[l] = "idle" /\ lpc'[l] = IF directory THEN "glob" ELSE "pick"
        /\ cutoff'[l] = now - Timeout /\ healthy'[l] = {} /\ found'[l] = NoRecord
        /\ reading'[l] \subseteq late'
    BY <1>1, <1>s, <1>w DEF Look, LookupGoto, LookupTypes, Sees
  <2>2. Open(l)'
    BY <2>1 DEF Open
  <2>3. cutoff'[l] <= now' - Timeout
    BY <1>t, <1>c, <2>1
  <2>4. ~directory => Fresh' = {}
    <3> SUFFICES ASSUME ~directory, NEW s \in Listed
                 PROVE  FALSE
      BY LookupFiles DEF Fresh
    <3>1. InstanceId[s] \in Ids /\ file[InstanceId[s]] # NoRecord
      BY ListedHasRecord, IdFacts DEF FilesInv
    <3> QED BY <3>1 DEF FilesInv, FileInv
  <2>5. lpc'[l] = "pick" => certain'[l] = {}
    BY <1>w, <2>1, <2>2, <2>4
  <2> QED BY <1>w, <2>1, <2>2, <2>3, <2>5 DEF Sees, Progress
<1>2. CASE Glob(l)
  <2>1. /\ lpc[l] = "glob" /\ lpc'[l] = "read" /\ UNCHANGED <<file, cutoff, healthy, found, reading>>
        /\ todo'[l] = {i \in Ids : file[i] # NoRecord}
    BY <1>2 DEF Glob, LookupGoto, LookupTypes
  <2>2. Open(l) /\ Open(l)' /\ found'[l] = NoRecord /\ healthy'[l] = {}
    BY <1>s, <2>1 DEF Open, Sees, Progress
  <2>3. cutoff'[l] <= now' - Timeout /\ reading'[l] \subseteq late'
    BY <1>s, <1>t, <1>w, <2>1, <2>2 DEF Sees, Progress
  <2>4. \A s \in certain'[l] : InstanceId[s] \in todo'[l]
    <3>1. certain'[l] \subseteq Listed
      BY <1>w, <2>2, LookupFiles DEF Fresh
    <3> QED BY <2>1, <3>1, ListedHasRecord, IdFacts DEF FilesInv
  <2> QED BY <1>w, <2>1, <2>2, <2>3, <2>4 DEF Sees, Progress
<1>3. CASE Read(l)
  <2>1. PICK i \in todo[l] :
          /\ todo' = [todo EXCEPT ![l] = @ \ {i}]
          /\ \/ /\ file[i] # NoRecord
                /\ Healthy(l, file[i])
                /\ healthy' = [healthy EXCEPT ![l] = @ \cup {file[i]}]
                /\ UNCHANGED <<lpc, reading>>
             \/ /\ file[i] # NoRecord
                /\ ~Healthy(l, file[i])
                /\ LookupGoto(l, "recheck")
                /\ reading' = [reading EXCEPT ![l] = {i}]
                /\ UNCHANGED healthy
             \/ /\ file[i] = NoRecord \/ ~Healthy(l, file[i])
                /\ UNCHANGED <<lpc, reading, healthy>>
    BY <1>3 DEF Read
  <2>2. /\ lpc[l] = "read" /\ i \in Ids /\ todo'[l] = todo[l] \ {i}
        /\ lpc'[l] \in {"read", "recheck"} /\ UNCHANGED <<file, cutoff, found>>
    BY <1>3, <2>1 DEF Read, LookupGoto, LookupTypes
  <2>3. Open(l) /\ Open(l)' /\ found'[l] = NoRecord
    BY <1>s, <2>2 DEF Open, Sees
  <2>4. cutoff[l] <= now - Timeout /\ cutoff'[l] <= now' - Timeout
    BY <1>s, <1>t, <2>2, <2>3 DEF Sees, Progress
  <2>5. Listed' = Listed /\ Fresh' = Fresh
    BY <1>t, <2>2, SameFiles DEF FilesInv
  <2>6. file[i] # NoRecord => /\ file[i] \in Record /\ file[i].by \in Listed
                              /\ file[i].heartbeat \in Int
    <3>1. file[i] # NoRecord => /\ file[i] \in Record /\ InstanceId[file[i].by] = i
      BY <2>2 DEF FilesInv, FileTypes, FileInv
    <3> QED BY <1>c, <3>1, Nobody DEF Listed
  <2>7. \A r \in healthy'[l] : r.by \in possible'[l]
    <3>1. \A r \in healthy[l] : r.by \in possible'[l]
      BY <1>s, <1>w, <2>2, <2>3 DEF Sees
    <3>2. healthy'[l] = healthy[l] \/ (file[i] # NoRecord /\ healthy'[l] = healthy[l] \cup {file[i]})
      BY <2>1 DEF LookupTypes
    <3> QED BY <1>w, <2>3, <2>5, <2>6, <3>1, <3>2
  <2>8. reading'[l] \subseteq late'
    <3>1. CASE UNCHANGED reading
      BY <1>s, <1>w, <3>1 DEF Sees
    <3>2. CASE file[i] # NoRecord /\ ~Healthy(l, file[i]) /\ reading' = [reading EXCEPT ![l] = {i}]
      <4>1. file[i].heartbeat < now - Timeout
        BY <1>c, <2>4, <2>6, <3>2 DEF Healthy
      <4>2. i \in Stale'
        BY <1>t, <2>2, <3>2, <4>1 DEF Stale
      <4> QED BY <1>w, <3>2, <4>2 DEF LookupTypes
    <3> QED BY <2>1, <3>1, <3>2
  <2>9. healthy'[l] # {} \/ \A s \in certain'[l] : InstanceId[s] \in todo'[l]
    <3> SUFFICES ASSUME healthy'[l] = {}, NEW s \in certain'[l]
                 PROVE  InstanceId[s] \in todo'[l]
      OBVIOUS
    <3>1. healthy[l] = {} /\ ~(file[i] # NoRecord /\ Healthy(l, file[i]))
      BY <2>1 DEF LookupTypes
    <3>2. s \in certain[l] /\ s \in Fresh
      BY <1>w, <2>3, <2>5
    <3>3. InstanceId[s] \in todo[l]
      BY <1>s, <2>2, <2>3, <3>1, <3>2 DEF Sees, Progress
    <3>4. InstanceId[s] # i
      <4> SUFFICES ASSUME InstanceId[s] = i
                   PROVE  FALSE
        OBVIOUS
      <4>1. file[i] # NoRecord /\ file[i].heartbeat >= now - Timeout
        BY <3>2, ListedHasRecord DEF FilesInv, Fresh
      <4>2. file[i].heartbeat >= cutoff[l]
        BY <1>c, <2>4, <2>6, <4>1
      <4> QED BY <3>1, <4>1, <4>2 DEF Healthy
    <3> QED BY <2>2, <3>3, <3>4
  <2> QED BY <1>w, <2>2, <2>3, <2>4, <2>7, <2>8, <2>9 DEF Sees, Progress
<1>4. CASE Recheck(l) \/ PruneUnlink(l)
  <2>1. /\ lpc[l] \in {"recheck", "unlink"} /\ lpc'[l] \in {"read", "unlink"}
        /\ UNCHANGED <<cutoff, todo, healthy, found>> /\ reading'[l] \subseteq reading[l]
    BY <1>4 DEF Recheck, PruneUnlink, LookupGoto, LookupTypes
  <2>2. Open(l) /\ Open(l)' /\ found'[l] = NoRecord
    BY <1>s, <2>1 DEF Open, Sees
  <2>3. cutoff'[l] <= now' - Timeout
    BY <1>s, <1>t, <2>1, <2>2 DEF Sees, Progress
  <2>4. healthy'[l] # {} \/ \A s \in certain'[l] : InstanceId[s] \in todo'[l]
    BY <1>s, <1>w, <2>1, <2>2 DEF Sees, Progress
  <2>5. \A r \in healthy'[l] : r.by \in possible'[l]
    BY <1>s, <1>w, <2>1, <2>2 DEF Sees
  <2>6. reading'[l] \subseteq late'
    BY <1>s, <1>w, <2>1 DEF Sees
  <2> QED BY <1>w, <2>1, <2>2, <2>3, <2>4, <2>5, <2>6 DEF Sees, Progress
<1>5. CASE AllRead(l)
  <2>1. /\ lpc[l] = "read" /\ lpc'[l] = "pick" /\ todo[l] = {}
        /\ UNCHANGED <<cutoff, healthy, found, reading>>
    BY <1>5 DEF AllRead, LookupGoto, LookupTypes
  <2>2. Open(l) /\ Open(l)' /\ found'[l] = NoRecord
    BY <1>s, <2>1 DEF Open, Sees
  <2>3. cutoff'[l] <= now' - Timeout
    BY <1>s, <1>t, <2>1, <2>2 DEF Sees, Progress
  <2>4. healthy[l] # {} \/ certain[l] = {}
    BY <1>s, <2>1, <2>2 DEF Sees, Progress
  <2>5. healthy'[l] # {} \/ certain'[l] = {}
    BY <1>w, <2>1, <2>2, <2>4
  <2>6. \A r \in healthy'[l] : r.by \in possible'[l]
    BY <1>s, <1>w, <2>1, <2>2 DEF Sees
  <2>7. reading'[l] \subseteq late'
    BY <1>s, <1>w, <2>1 DEF Sees
  <2> QED BY <1>w, <2>1, <2>2, <2>3, <2>5, <2>6, <2>7 DEF Sees, Progress
<1>6. CASE Pick(l)
  <2>1. lpc'[l] = "done" /\ UNCHANGED reading
    BY <1>6 DEF Pick, LookupGoto, LookupTypes
  <2>2. reading'[l] \subseteq late'
    BY <1>s, <1>w, <2>1 DEF Sees
  <2>3. ~Open(l)'
    BY <2>1 DEF Open
  <2> QED BY <2>1, <2>2, <2>3 DEF Sees
<1> QED BY <1>1, <1>2, <1>3, <1>4, <1>5, <1>6 DEF LookupSide, LookupStep

-----------------------------------------------------------------------------
(* The invariant.                                                          *)

LEMMA InitInv == WatchInit => IInv
<1> SUFFICES ASSUME WatchInit
             PROVE  IInv
  OBVIOUS
<1>1. FilesInv /\ LookupTypes
  BY InitFiles DEF WatchInit, SpecInv
<1>2. WatchTypes
  BY DEF WatchInit, WatchTypes
<1>3. LookupInv
  BY DEF WatchInit, Init, LookupInv, Sees, Open
<1>4. \A s \in Servers : pc[Main(s)] = "idle"
  BY TwoThreads DEF WatchInit, Init, ServerInit, Main
<1>5. PunctualInv
  BY <1>4 DEF PunctualInv, Serving
<1> QED BY <1>1, <1>2, <1>3, <1>5 DEF IInv

\* A server in time outlives what the others do, ...
LEMMA LastingPunctual ==
  ASSUME PunctualInv, Lasting, late \subseteq late'
  PROVE  PunctualInv'
<1> QED BY DEF PunctualInv, Lasting, Alone

\* ... and no lookup unlinks its record.
LEMMA SparedPunctual ==
  ASSUME PunctualInv, late \subseteq late', UNCHANGED pc,
         NEW gone, gone \subseteq late,
         \A s \in Listed : InstanceId[s] \notin gone => s \in Listed'
  PROVE  PunctualInv'
<1> QED BY DEF PunctualInv, Alone

LEMMA NextInv == IInv /\ [WatchNext]_watchVars => IInv'
<1> SUFFICES ASSUME IInv, [WatchNext]_watchVars
             PROVE  IInv'
  OBVIOUS
<1>i. FilesInv /\ LookupTypes /\ WatchTypes /\ LookupInv /\ PunctualInv
  BY DEF IInv
<1>1. CASE UNCHANGED watchVars
  <2>1. SpecInv'
    BY <1>1, <1>i, NextFiles DEF watchVars, SpecInv
  <2>2. UNCHANGED <<now, pc, file, lookupVars, possible, certain, late>>
    BY <1>1 DEF watchVars, vars, serverVars, fileVars
  <2>3. UNCHANGED <<Listed, Fresh>>
    BY <1>i, <2>2, SameFiles DEF FilesInv
  <2> QED BY <2>1, <2>2, <2>3, <1>i DEF SpecInv, IInv, WatchTypes, LookupInv, Sees, Progress, Open,
                                        PunctualInv, Alone, lookupVars
<1>2. CASE ServerSide /\ UNCHANGED lookupVars /\ Watch
  <2>1. FilesInv' /\ Lasting
    BY <1>2, <1>i, ServerSideStep
  <2>2. LookupTypes' /\ \A l \in Lookups : Resting(l)
    BY <1>2, <1>i DEF lookupVars, LookupTypes, Resting
  <2>3. now' \in Int /\ now <= now'
    BY <1>2, <1>i, ClockFacts, ServerSideRest
  <2>4. LookupInv'
    BY <1>2, <1>i, <2>2, <2>3, RestingSees DEF LookupInv
  <2>5. PunctualInv' /\ WatchTypes'
    BY <1>2, <1>i, <2>1, Watched, LastingPunctual DEF WatchTypes
  <2> QED BY <2>1, <2>2, <2>4, <2>5 DEF IInv
<1>3. ASSUME NEW l \in Lookups, LookupSide(l), Watch
      PROVE  IInv'
  <2>1. /\ FilesInv' /\ UNCHANGED <<now, pc>>
        /\ \A s \in Listed : InstanceId[s] \notin reading[l] => s \in Listed'
    BY <1>3, <1>i, LookupFiles
  <2>2. LookupTypes' /\ \A r \in Lookups : r # l => Resting(r)
    BY <1>3, <1>i, LookupMoves
  <2>3. LookupInv'
    <3> SUFFICES ASSUME NEW r \in Lookups
                 PROVE  Sees(r)'
      BY DEF LookupInv
    <3>1. now' \in Int /\ now <= now'
      BY <1>i, <2>1, ClockFacts
    <3> QED BY <1>3, <1>i, <2>2, <3>1, RestingSees, LookupSees
  <2>4. reading[l] \subseteq late
    BY <1>i DEF LookupInv, Sees
  <2>5. PunctualInv' /\ WatchTypes'
    BY <1>3, <1>i, <2>1, <2>4, Watched, SparedPunctual DEF WatchTypes
  <2> QED BY <2>1, <2>2, <2>3, <2>5 DEF IInv
<1> QED BY <1>1, <1>2, <1>3, NextCases DEF WatchNext

\* A server whose heartbeats are in time, and whose ID is its own, stays listed
\* while it serves: what a lookup unlinks was stale once.
THEOREM StaysListed == WatchSpec => []PunctualStaysListed
<1>1. IInv => PunctualStaysListed
  BY DEF IInv, PunctualInv, PunctualStaysListed, Alone, Serving
<1> QED BY <1>1, InitInv, NextInv, PTL DEF WatchSpec

\* Every behaviour with the observers is one of FilesystemDiscovery: what is
\* true of the files and servers there, is true here.
THEOREM Observed == WatchSpec => Spec
<1>1. WatchInit => Init
  BY DEF WatchInit
<1>2. [WatchNext]_watchVars => [Next]_vars
  BY DEF WatchNext, watchVars
<1> QED BY <1>1, <1>2, PTL DEF WatchSpec, Spec

-----------------------------------------------------------------------------
(* DiscoveryWatch implements Registry.                                     *)

\* How a registry sees the lookups.
LEMMA AnswerFacts ==
  LookupTypes => \A l \in Lookups :
    /\ AnswerView[l] = "open" <=> Open(l)
    /\ lpc[l] = "idle" => AnswerView[l] = "none"
    /\ lpc[l] = "done" => AnswerView[l] = IF found[l] = NoRecord THEN "nothing" ELSE found[l].by
<1> SUFFICES ASSUME LookupTypes, NEW l \in Lookups
             PROVE  /\ AnswerView[l] = "open" <=> Open(l)
                    /\ lpc[l] = "idle" => AnswerView[l] = "none"
                    /\ lpc[l] = "done" => AnswerView[l] = IF found[l] = NoRecord THEN "nothing"
                                                          ELSE found[l].by
  OBVIOUS
<1>1. found[l] # NoRecord => found[l].by # "open"
  BY Nobody DEF LookupTypes, NoNames
<1>2. CASE Open(l)
  BY <1>2 DEF AnswerView, Open
<1>3. CASE ~Open(l)
  <2>1. AnswerView[l] # "open"
    BY <1>1, <1>3 DEF AnswerView, Open
  <2> QED BY <1>3, <2>1 DEF AnswerView, Open
<1> QED BY <1>2, <1>3

\* The observer here is the one there.
LEMMA WatchRefines ==
  ASSUME LookupTypes, LookupTypes', Watch
  PROVE  Promise!Watch
<1>1. \A l \in Lookups : AnswerView[l] = "open" <=> Open(l)
  BY AnswerFacts
<1>2. \A l \in Lookups : AnswerView'[l] = "open" <=> Open(l)'
  <2> SUFFICES ASSUME NEW l \in Lookups
               PROVE  AnswerView'[l] = "open" <=> Open(l)'
    OBVIOUS
  <2>1. found'[l] # NoRecord => found'[l].by # "open"
    BY Nobody DEF LookupTypes, NoNames
  <2> QED BY <2>1 DEF AnswerView, Open
<1>3. possible' = [l \in Lookups |->
         IF AnswerView'[l] # "open" THEN {}
         ELSE Listed' \cup IF AnswerView[l] = "open" THEN possible[l] ELSE {}]
  BY <1>1, <1>2 DEF Watch
<1>4. certain' = [l \in Lookups |->
         IF AnswerView'[l] # "open" THEN {}
         ELSE Fresh' \cap IF AnswerView[l] = "open" THEN certain[l] ELSE Servers]
  BY <1>1, <1>2 DEF Watch
<1> QED BY <1>3, <1>4 DEF Promise!Watch

\* A step of a server, or of time, is a step of the registry.
LEMMA ServersRefine ==
  ASSUME ServerSideView, UNCHANGED AnswerView, Promise!Watch
  PROVE  Promise!Next
<1>l. Fresh \subseteq Listed /\ Fresh' \subseteq Listed'
  BY DEF Fresh
<1>1. CASE Fades
  <2>1. Fresh' \in SUBSET (Fresh \cap Listed') /\ Listed' \in SUBSET Listed
    BY <1>1, <1>l DEF Fades
  <2>2. Promise!Fade
    BY <1>1, <2>1 DEF Fades, Promise!Fade, StatusView
  <2> QED BY <2>2 DEF Promise!Next
<1>2. CASE Joins
  <2>1. PICK s \in Servers : /\ StatusView[s] # "on"
                             /\ StatusView' = [StatusView EXCEPT ![s] = "on"]
                             /\ UNCHANGED <<Listed, Fresh>>
    BY <1>2 DEF Joins
  <2>2. Promise!Join(s)
    BY <2>1 DEF Promise!Join, Promise!Turn, StatusView
  <2> QED BY <2>2 DEF Promise!Next
<1>3. CASE Leaves
  <2>1. PICK s \in Servers : /\ StatusView[s] = "on"
                             /\ StatusView' = [StatusView EXCEPT ![s] = "off"]
                             /\ s \notin Listed /\ UNCHANGED <<Listed, Fresh>>
    BY <1>3 DEF Leaves
  <2>2. Listed' \in SUBSET (Listed \ {s}) /\ Fresh' = Fresh \cap Listed'
    BY <1>l, <2>1
  <2>3. Promise!Leave(s)
    BY <2>1, <2>2 DEF Promise!Leave, StatusView
  <2> QED BY <2>3 DEF Promise!Next
<1>4. CASE Dies
  <2>1. PICK s \in Servers : /\ StatusView[s] = "on"
                             /\ StatusView' = [StatusView EXCEPT ![s] = "dead"]
                             /\ UNCHANGED <<Listed, Fresh>>
    BY <1>4 DEF Dies
  <2>2. Promise!Die(s)
    BY <2>1 DEF Promise!Die, Promise!Turn, StatusView
  <2> QED BY <2>2 DEF Promise!Next
<1>5. CASE Publishes
  <2>1. PICK s \in Servers : /\ StatusView[s] = "on" /\ UNCHANGED StatusView
                             /\ s \in Listed' /\ Listed' \ {s} \subseteq Listed
                             /\ Fresh' \ {s} = (Fresh \cap Listed') \ {s}
    BY <1>5 DEF Publishes
  <2> DEFINE others == Listed' \ {s}
  <2>2. others \in SUBSET (Listed \ {s}) /\ Listed' = others \cup {s}
    BY <2>1
  <2>3. Fresh' \in {Fresh \cap others, (Fresh \cap others) \cup {s}}
    <3>1. Fresh \cap others = Fresh' \ {s}
      BY <2>1
    <3>2. CASE s \in Fresh'
      <4>1. Fresh' = (Fresh \cap others) \cup {s}
        BY <3>1, <3>2
      <4> QED BY <4>1
    <3>3. CASE s \notin Fresh'
      <4>1. Fresh' = Fresh \cap others
        BY <3>1, <3>3
      <4> QED BY <4>1
    <3> QED BY <3>2, <3>3
  <2> HIDE DEF others
  <2>4. Promise!Publish(s)
    BY <2>1, <2>2, <2>3 DEF Promise!Publish, StatusView
  <2> QED BY <2>4 DEF Promise!Next
<1> QED BY <1>1, <1>2, <1>3, <1>4, <1>5 DEF ServerSideView

\* A lookup asks, and is answered, for nothing only if it could.
LEMMA LookupRefines ==
  ASSUME IInv, IInv', Watch, NEW l \in Lookups, LookupSide(l)
  PROVE  Promise!Next
<1>t. LookupTypes /\ LookupTypes' /\ FilesInv /\ Sees(l)
  BY DEF IInv, LookupInv
<1>w. Promise!Watch
  BY <1>t, WatchRefines
<1>f. /\ UNCHANGED StatusView /\ Listed' \subseteq Listed /\ Fresh' = Fresh \cap Listed'
      /\ \A r \in Lookups : r # l => Resting(r)
  BY <1>t, LookupFiles, LookupMoves
<1>a. ASSUME NEW a, AnswerView'[l] = a
      PROVE  AnswerView' = [AnswerView EXCEPT ![l] = a]
  <2>1. \A r \in Lookups : r # l => AnswerView'[r] = AnswerView[r]
    BY <1>f DEF AnswerView, Resting
  <2>2. /\ AnswerView = [r \in Lookups |-> AnswerView[r]]
        /\ AnswerView' = [r \in Lookups |-> AnswerView'[r]]
    BY DEF AnswerView
  <2> QED BY ONLY <1>a, <2>1, <2>2
<1>o. Open(l) => AnswerView[l] = "open"
  BY <1>t, AnswerFacts
<1>1. CASE Look(l)
  <2>1. lpc[l] = "idle" /\ lpc'[l] \in {"glob", "pick"} /\ UNCHANGED file
    BY <1>1, <1>t DEF Look, LookupGoto, LookupTypes
  <2>2. AnswerView[l] = "none" /\ AnswerView'[l] = "open"
    BY <2>1 DEF AnswerView
  <2>3. UNCHANGED <<Listed, Fresh>>
    <3>1. UNCHANGED now
      BY <1>1 DEF Look, Outside
    <3> QED BY <1>t, <2>1, <3>1, SameFiles DEF FilesInv
  <2>4. Promise!Ask(l)
    BY <1>a, <1>f, <2>2, <2>3 DEF Promise!Ask, Promise!Answer, StatusView
  <2> QED BY <1>w, <2>4 DEF Promise!Next
<1>2. CASE Glob(l) \/ Read(l) \/ Recheck(l) \/ PruneUnlink(l) \/ AllRead(l)
  <2>1. /\ lpc[l] \in {"glob", "read", "recheck", "unlink"}
        /\ lpc'[l] \in {"read", "recheck", "unlink", "pick"}
    <3>1. CASE Read(l)
      BY <3>1, <1>t DEF Read, LookupGoto, LookupTypes
    <3> QED BY <1>2, <3>1, <1>t DEF Glob, Recheck, PruneUnlink, AllRead, LookupGoto, LookupTypes
  <2>2. AnswerView[l] = "open" /\ AnswerView'[l] = "open"
    BY <2>1 DEF AnswerView
  <2>3. AnswerView' = [AnswerView EXCEPT ![l] = "open"]
    BY <1>a, <2>2
  <2>4. UNCHANGED AnswerView
    BY <2>2, <2>3 DEF AnswerView
  <2>5. Fades
    BY <1>f DEF Fades
  <2> QED BY <1>w, <2>4, <2>5, ServersRefine DEF ServerSideView
<1>3. CASE Pick(l)
  <2>1. lpc[l] = "pick" /\ lpc'[l] = "done" /\ UNCHANGED <<now, file>>
    BY <1>3, <1>t DEF Pick, LookupGoto, LookupTypes, Outside
  <2>2. AnswerView[l] = "open" /\ found[l] = NoRecord /\ Open(l)
    BY <1>t, <2>1 DEF AnswerView, Sees, Open
  <2>3. UNCHANGED <<Listed, Fresh>>
    BY <1>t, <2>1, SameFiles DEF FilesInv
  <2>4. CASE healthy[l] = {}
    <3>1. AnswerView'[l] = "nothing"
      BY <1>3, <2>1, <2>2, <2>4 DEF Pick, AnswerView
    <3>2. certain[l] = {}
      BY <1>t, <2>1, <2>2, <2>4 DEF Sees, Progress
    <3>3. Promise!FindNothing(l)
      BY <1>a, <1>f, <2>2, <2>3, <3>1, <3>2 DEF Promise!FindNothing, Promise!Answer, StatusView
    <3> QED BY <1>w, <3>3 DEF Promise!Next
  <2>5. CASE healthy[l] # {}
    <3>1. PICK r \in healthy[l] : found' = [found EXCEPT ![l] = r]
      BY <1>3, <2>5 DEF Pick
    <3>2. r \in Record /\ r # NoRecord /\ r.by \in Servers /\ r.by \in possible[l]
      BY <1>t, <2>1, <3>1, Nobody DEF LookupTypes, Sees
    <3>3. AnswerView'[l] = r.by
      BY <1>t, <2>1, <3>1, <3>2 DEF LookupTypes, AnswerView
    <3>4. Promise!Find(l, r.by)
      BY <1>a, <1>f, <2>2, <2>3, <3>2, <3>3 DEF Promise!Find, Promise!Answer, StatusView
    <3> QED BY <1>w, <3>2, <3>4 DEF Promise!Next
  <2> QED BY <2>4, <2>5
<1> QED BY <1>1, <1>2, <1>3 DEF LookupSide, LookupStep

\* No server has joined, and nobody has asked, there or here.
LEMMA InitRefines == WatchInit => Promise!Init
<1> SUFFICES ASSUME WatchInit
             PROVE  Promise!Init
  OBVIOUS
<1>1. \A s \in Servers : StatusOf(s) = "off"
  BY ThreadFacts DEF WatchInit, Init, ServerInit, StatusOf, Main
<1>2. Listed = {} /\ Fresh = {}
  BY IdFacts, Nobody DEF WatchInit, Init, Listed, Fresh
<1>3. AnswerView = [l \in Lookups |-> "none"]
  BY DEF WatchInit, Init, AnswerView
<1> QED BY <1>1, <1>2, <1>3 DEF WatchInit, Promise!Init

\* Every step is a step of the registry, or none.
LEMMA StepRefines == IInv /\ IInv' /\ [WatchNext]_watchVars => [Promise!Next]_(Promise!rvars)
<1> SUFFICES ASSUME IInv, IInv', [WatchNext]_watchVars
             PROVE  [Promise!Next]_(Promise!rvars)
  OBVIOUS
<1>1. CASE UNCHANGED watchVars
  BY <1>1 DEF watchVars, vars, serverVars, fileVars, lookupVars, Promise!rvars, StatusOf, Listed,
              Fresh, AnswerView
<1>2. CASE ServerSide /\ UNCHANGED lookupVars /\ Watch
  <2>1. ServerSideView
    BY <1>2, ServerSideStep DEF IInv
  <2>2. UNCHANGED AnswerView
    BY <1>2 DEF lookupVars, AnswerView
  <2> QED BY <1>2, <2>1, <2>2, WatchRefines, ServersRefine DEF IInv
<1> QED BY <1>1, <1>2, LookupRefines, NextCases DEF WatchNext

\* Files, renames and prunes keep the promises of a registry: a server that
\* left in order is not listed, a lookup finds only what was listed while it
\* looked, and nothing only if nobody was listed and fresh all along.
THEOREM Refinement == WatchSpec => RefinesRegistry
<1> QED BY InitInv, NextInv, InitRefines, StepRefines, PTL
        DEF WatchSpec, RefinesRegistry, Promise!Spec
=============================================================================
