------------------------ MODULE FilesystemDiscovery ------------------------
(***************************************************************************)
(* FilesystemDiscovery (_discovery.py): the directory of one service, the  *)
(* servers that keep their records in it, and lookups that read it.  Every *)
(* system call is a step of its own: the directory is shared by processes  *)
(* and nothing locks it.                                                   *)
(*                                                                         *)
(* step[t] follows _atomic_write and unregister in thread t:               *)
(*   start -> temporary   the directory was made                           *)
(*   temporary -> replace the temporary file was made and written          *)
(*   replace -> start     it was renamed to the record's name              *)
(*   start -> rmdir       the record was unlinked                          *)
(* lpc[l] follows one resolve(), l on the discovery object all share:      *)
(*   idle -> glob -> read -> recheck -> unlink -> read ... -> pick -> done *)
(***************************************************************************)
EXTENDS DiscoveredServer, FiniteSets

CONSTANTS InstanceId,     \* InstanceId[s]: a number, for its place in order
          Timeout,        \* heartbeat_timeout
          Prune,          \* prune_stale
          Lookups

Ids == {InstanceId[s] : s \in Servers}

ASSUME FilesAssumption == /\ InstanceId \in [Servers -> Nat]
                          /\ Timeout \in Nat \ {0}
                          /\ Prune \in BOOLEAN

VARIABLES directory,      \* the service's directory exists
          file,           \* file[i]: the record of instance i
          temps,          \* the threads with a temporary file in it
          litter,         \* a thread died and left one
          step,
          lpc,
          cutoff,         \* cutoff[l]: what is older is stale
          todo,           \* todo[l]: the names l has still to read
          reading,        \* reading[l]: the stale one it looks at again
          healthy,        \* healthy[l]: the records l found
          found,          \* found[l]: what resolve() gave
          robin           \* _round_robin of the service

fileVars == <<directory, file, temps, litter, step>>
lookupVars == <<lpc, cutoff, todo, reading, healthy, found, robin>>
vars == <<now, serverVars, fileVars, lookupVars>>

Record == [by : Servers, heartbeat : 0 .. MaxTime]
NoRecord == [by |-> "nobody", heartbeat |-> -1]

TypeOK == /\ ServerTypeOK
          /\ directory \in BOOLEAN
          /\ file \in [Ids -> Record \cup {NoRecord}]
          /\ temps \subseteq Threads
          /\ litter \in BOOLEAN
          /\ step \in [Threads -> {"start", "temporary", "replace", "rmdir"}]
          /\ lpc \in [Lookups -> {"idle", "glob", "read", "recheck", "unlink", "pick", "done"}]
          /\ cutoff \in [Lookups -> -Timeout .. MaxTime]
          /\ todo \in [Lookups -> SUBSET Ids]
          /\ reading \in [Lookups -> SUBSET Ids]
          /\ healthy \in [Lookups -> SUBSET Record]
          /\ found \in [Lookups -> Record \cup {NoRecord}]
          /\ robin \in Nat

Init == /\ ServerInit
        /\ directory = FALSE
        /\ file = [i \in Ids |-> NoRecord]
        /\ temps = {}
        /\ litter = FALSE
        /\ step = [t \in Threads |-> "start"]
        /\ lpc = [l \in Lookups |-> "idle"]
        /\ cutoff = [l \in Lookups |-> 0]
        /\ todo = [l \in Lookups |-> {}]
        /\ reading = [l \in Lookups |-> {}]
        /\ healthy = [l \in Lookups |-> {}]
        /\ found = [l \in Lookups |-> NoRecord]
        /\ robin = 0

-----------------------------------------------------------------------------
(* _atomic_write, by register() and heartbeat().                           *)

StepTo(t, label) == step' = [step EXCEPT ![t] = label]

MakeDirectory(t) == /\ pc[t] = "publish"
                    /\ step[t] = "start"
                    /\ directory' = TRUE
                    /\ StepTo(t, "temporary")
                    /\ UNCHANGED <<now, serverVars, file, temps, litter, lookupVars>>

MakeTemporary(t) == /\ step[t] = "temporary"
                    /\ directory
                    /\ temps' = temps \cup {t}
                    /\ StepTo(t, "replace")
                    /\ UNCHANGED <<now, serverVars, directory, file, litter, lookupVars>>

\* Another instance left, and removed the directory in between.
MakeTemporaryFails(t) == /\ step[t] = "temporary"
                         /\ ~directory
                         /\ PublishRaises(t)
                         /\ StepTo(t, "start")
                         /\ UNCHANGED <<directory, file, temps, litter, lookupVars>>

\* Mutant of RecordOf: the record says when it expires.
RecordExpiring(t) == [by |-> Owner(t), heartbeat |-> stamp[t] + Timeout]

RecordOf(t) == [by |-> Owner(t), heartbeat |-> stamp[t]]

Replace(t) == /\ step[t] = "replace"
              /\ file' = [file EXCEPT ![InstanceId[Owner(t)]] = RecordOf(t)]
              /\ temps' = temps \ {t}
              /\ PublishReturns(t)
              /\ StepTo(t, "start")
              /\ UNCHANGED <<directory, litter, lookupVars>>

-----------------------------------------------------------------------------
(* unregister(): by name, whoever wrote the record.                        *)

Unlink(s) == LET i == InstanceId[s] IN
             /\ pc[Main(s)] = "withdraw"
             /\ step[Main(s)] = "start"
             /\ file[i] # NoRecord
             /\ file' = [file EXCEPT ![i] = NoRecord]
             /\ StepTo(Main(s), "rmdir")
             /\ UNCHANGED <<now, serverVars, directory, temps, litter, lookupVars>>

UnlinkFindsNothing(s) == /\ pc[Main(s)] = "withdraw"
                         /\ step[Main(s)] = "start"
                         /\ file[InstanceId[s]] = NoRecord
                         /\ WithdrawReturns(s)
                         /\ UNCHANGED <<fileVars, lookupVars>>

Empty == temps = {} /\ ~litter /\ \A i \in Ids : file[i] = NoRecord

\* rmdir() of a directory that is not empty fails, and is ignored.
RemoveDirectory(s) == /\ step[Main(s)] = "rmdir"
                      /\ directory' = (directory /\ ~Empty)
                      /\ WithdrawReturns(s)
                      /\ StepTo(Main(s), "start")
                      /\ UNCHANGED <<file, temps, litter, lookupVars>>

\* A process that dies leaves its files.
Die(s) == /\ Crash(s)
          /\ litter' = (litter \/ \E t \in temps : Owner(t) = s)
          /\ temps' = {t \in temps : Owner(t) # s}
          /\ step' = [t \in Threads |-> IF Owner(t) = s THEN "start" ELSE step[t]]
          /\ UNCHANGED <<directory, file, lookupVars>>

WriteStep(t) == \/ MakeDirectory(t) \/ MakeTemporary(t) \/ MakeTemporaryFails(t)
                \/ Replace(t)

UnregisterStep(s) == Unlink(s) \/ UnlinkFindsNothing(s) \/ RemoveDirectory(s)

-----------------------------------------------------------------------------
(* resolve(), and list_instances() in it.                                  *)

LookupGoto(l, label) == lpc' = [lpc EXCEPT ![l] = label]

Outside == <<now, serverVars, directory, temps, litter, step>>

\* Mutant of Look: the timeout is not subtracted.
LookWithoutTimeout(l) ==
  /\ lpc[l] = "idle"
  /\ cutoff' = [cutoff EXCEPT ![l] = now]
  /\ LookupGoto(l, IF directory THEN "glob" ELSE "pick")
  /\ UNCHANGED <<Outside, file, todo, reading, healthy, found, robin>>

Look(l) == /\ lpc[l] = "idle"
           /\ cutoff' = [cutoff EXCEPT ![l] = now - Timeout]
           /\ LookupGoto(l, IF directory THEN "glob" ELSE "pick")
           /\ UNCHANGED <<Outside, file, todo, reading, healthy, found, robin>>

Glob(l) == /\ lpc[l] = "glob"
           /\ todo' = [todo EXCEPT ![l] = {i \in Ids : file[i] # NoRecord}]
           /\ LookupGoto(l, "read")
           /\ UNCHANGED <<Outside, file, cutoff, reading, healthy, found, robin>>

\* Mutant of Healthy: > for >=.
HealthyOnlyAfter(l, r) == r.heartbeat > cutoff[l]

Healthy(l, r) == r.heartbeat >= cutoff[l]

\* The next record: healthy, gone meanwhile, or stale.
Read(l) ==
  /\ lpc[l] = "read"
  /\ \E i \in todo[l] :
       /\ todo' = [todo EXCEPT ![l] = @ \ {i}]
       /\ \/ /\ file[i] # NoRecord
             /\ Healthy(l, file[i])
             /\ healthy' = [healthy EXCEPT ![l] = @ \cup {file[i]}]
             /\ UNCHANGED <<lpc, reading>>
          \/ /\ file[i] # NoRecord
             /\ ~Healthy(l, file[i])
             /\ Prune
             /\ LookupGoto(l, "recheck")
             /\ reading' = [reading EXCEPT ![l] = {i}]
             /\ UNCHANGED healthy
          \/ /\ file[i] = NoRecord \/ (~Healthy(l, file[i]) /\ ~Prune)
             /\ UNCHANGED <<lpc, reading, healthy>>
  /\ UNCHANGED <<Outside, file, cutoff, found, robin>>

\* What cannot be read is stale too.
StillStale(l, r) == r = NoRecord \/ r.heartbeat < cutoff[l]

\* _prune_if_still_stale reads the record once more, ...
Recheck(l) ==
  /\ lpc[l] = "recheck"
  /\ \E i \in reading[l] :
       \/ /\ StillStale(l, file[i])
          /\ LookupGoto(l, "unlink")
          /\ UNCHANGED reading
       \/ /\ ~StillStale(l, file[i])
          /\ LookupGoto(l, "read")
          /\ reading' = [reading EXCEPT ![l] = {}]
  /\ UNCHANGED <<Outside, file, cutoff, todo, healthy, found, robin>>

\* ... and unlinks whatever has its name by then.
PruneUnlink(l) ==
  /\ lpc[l] = "unlink"
  /\ file' = [i \in Ids |-> IF i \in reading[l] THEN NoRecord ELSE file[i]]
  /\ reading' = [reading EXCEPT ![l] = {}]
  /\ LookupGoto(l, "read")
  /\ UNCHANGED <<Outside, cutoff, todo, healthy, found, robin>>

AllRead(l) == /\ lpc[l] = "read"
              /\ todo[l] = {}
              /\ LookupGoto(l, "pick")
              /\ UNCHANGED <<Outside, file, cutoff, todo, reading, healthy, found, robin>>

\* The records before r in the order of instance IDs.
Before(l, r) == {q \in healthy[l] : InstanceId[q.by] < InstanceId[r.by]}

\* resolve(): the counter is read and advanced under a lock.
Pick(l) ==
  /\ lpc[l] = "pick"
  /\ LookupGoto(l, "done")
  /\ \/ /\ healthy[l] = {}
        /\ UNCHANGED <<found, robin>>
     \/ /\ \E r \in healthy[l] :
             /\ Cardinality(Before(l, r)) = robin % Cardinality(healthy[l])
             /\ found' = [found EXCEPT ![l] = r]
        /\ robin' = robin + 1
  /\ healthy' = [healthy EXCEPT ![l] = {}]
  /\ cutoff' = [cutoff EXCEPT ![l] = 0]
  /\ UNCHANGED <<Outside, file, todo, reading>>

LookupStep(l) == \/ Glob(l) \/ Read(l) \/ Recheck(l) \/ PruneUnlink(l) \/ AllRead(l)
                 \/ Pick(l)

-----------------------------------------------------------------------------
Next == \/ Tick /\ UNCHANGED <<fileVars, lookupVars>>
        \/ \E s \in Servers :
             \/ /\ ServeForever(s) \/ MainStep(s) \/ HeartStep(s)
                /\ UNCHANGED <<fileVars, lookupVars>>
             \/ UnregisterStep(s) \/ Die(s)
        \/ \E t \in Threads : WriteStep(t)
        \/ \E l \in Lookups : Look(l) \/ LookupStep(l)

Spec == Init /\ [][Next]_vars

\* Threads inside serve_forever(), the heartbeat loop and resolve() are
\* scheduled; servers need not be started, end or die.
Fairness ==
  /\ \A t \in Threads : WF_vars(WriteStep(t))
  /\ \A s \in Servers :
       /\ WF_vars((Spawn(s) \/ Joined(s)) /\ UNCHANGED <<fileVars, lookupVars>>)
       /\ WF_vars(HeartStep(s) /\ UNCHANGED <<fileVars, lookupVars>>)
       /\ WF_vars(UnregisterStep(s))

FairSpec == Spec /\ Fairness

-----------------------------------------------------------------------------
Listed == {s \in Servers : file[InstanceId[s]].by = s}

\* A server that left in order has no record: its last heartbeat was written
\* before the record was unlinked.
NoGhost == \A s \in Servers : StatusOf(s) = "off" => s \notin Listed

\* A server that serves, and lost its record to a reader that thought it was
\* stale or to another server of its name, is listed again, even if a
\* heartbeat cannot be written because the directory is removed meanwhile.
ListedAgain == \A s \in Servers :
                 pc[Main(s)] = "serve" ~> s \in Listed \/ pc[Main(s)] # "serve"

\* serve_forever() ends once the wrapped server ended: the heartbeat thread
\* is told, finishes what it is writing, and is joined.
TeardownEnds == \A s \in Servers : pc[Main(s)] = "join" ~> pc[Main(s)] = "idle"
=============================================================================
