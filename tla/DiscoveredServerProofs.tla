----------------------- MODULE DiscoveredServerProofs -----------------------
(***************************************************************************)
(* Lemmas about the threads of DiscoveredServer, for the proofs about the  *)
(* backends: what each step does to the types, to the order in which the   *)
(* two threads of a server run, and to the server as a registry sees it.   *)
(***************************************************************************)
EXTENDS DiscoveredServer, TLAPS

MainLabels == {"idle", "publish", "spawn", "serve", "join", "withdraw", "broken"}
HeartLabels == {"none", "wait", "publish"}

\* The heartbeat thread runs only between the start of the wrapped server and
\* the join.
ThreadInv == \A s \in Servers :
               /\ pc[Main(s)] \in MainLabels
               /\ pc[Heart(s)] \in HeartLabels
               /\ pc[Heart(s)] # "none" => pc[Main(s)] \in {"serve", "join"}
               /\ pc[Main(s)] = "broken" => s \in untidy

ServerInv == ServerTypeOK /\ ThreadInv

\* How a registry sees the servers.
StatusView == [s \in Servers |-> StatusOf(s)]

-----------------------------------------------------------------------------
(* Threads.                                                                *)

LEMMA ThreadFacts ==
  /\ \A s \in Servers : /\ Main(s) \in Threads /\ Owner(Main(s)) = s
                        /\ Heart(s) \in Threads /\ Owner(Heart(s)) = s
  /\ \A s, r \in Servers : /\ Main(s) # Heart(r)
                           /\ Main(s) = Main(r) => s = r
                           /\ Heart(s) = Heart(r) => s = r
  /\ \A t \in Threads : /\ Owner(t) \in Servers
                        /\ t = Main(Owner(t)) \/ t = Heart(Owner(t))
<1> QED BY DEF Main, Heart, Threads, Owner

\* The labels of all threads, from those of each server's.
LEMMA LabelType ==
  ASSUME NEW p, p = [t \in Threads |-> p[t]],
         \A s \in Servers : p[Main(s)] \in MainLabels /\ p[Heart(s)] \in HeartLabels
  PROVE  p \in [Threads -> {"idle", "publish", "spawn", "serve", "join", "withdraw",
                            "broken", "none", "wait"}]
<1>1. ASSUME NEW t \in Threads
      PROVE  p[t] \in {"idle", "publish", "spawn", "serve", "join", "withdraw",
                       "broken", "none", "wait"}
  BY ThreadFacts DEF MainLabels, HeartLabels
<1> QED BY <1>1

\* Each thread's label when one thread goes on.
LEMMA GotoLabels ==
  ASSUME ServerInv, NEW t \in Threads, NEW label, Goto(t, label)
  PROVE  /\ pc' = [u \in Threads |-> pc'[u]]
         /\ \A u \in Threads : pc'[u] = IF u = t THEN label ELSE pc[u]
<1> QED BY DEF ServerInv, ServerTypeOK, Goto

-----------------------------------------------------------------------------
(* The invariant.                                                          *)

LEMMA ServerInitInv == ServerInit => ServerInv
<1> SUFFICES ASSUME ServerInit
             PROVE  ServerInv
  OBVIOUS
<1>1. \A s \in Servers : pc[Main(s)] = "idle" /\ pc[Heart(s)] = "none"
  BY DEF ServerInit, Main, Heart, Threads
<1>2. ThreadInv
  BY <1>1 DEF ThreadInv, MainLabels, HeartLabels
<1>3. ServerTypeOK
  BY ServiceAssumption DEF ServerInit, ServerTypeOK
<1> QED BY <1>2, <1>3 DEF ServerInv

\* The invariant is kept when one thread goes on to a label of its own that
\* its server allows.
LEMMA GotoInv ==
  ASSUME ServerInv, NEW t \in Threads, NEW label, Goto(t, label),
         LET s == Owner(t) IN
           /\ t = Main(s) => /\ label \in MainLabels
                             /\ pc[Heart(s)] # "none" => label \in {"serve", "join"}
                             /\ label = "broken" => s \in untidy'
           /\ t = Heart(s) => /\ label \in HeartLabels
                              /\ label # "none" => pc[Main(s)] \in {"serve", "join"},
         \A s \in Servers : s \in untidy /\ s \notin untidy' =>
                              t = Main(s) /\ label # "broken"
  PROVE  /\ ThreadInv'
         /\ pc' \in [Threads -> {"idle", "publish", "spawn", "serve", "join", "withdraw",
                                 "broken", "none", "wait"}]
<1>1. /\ pc' = [u \in Threads |-> pc'[u]]
      /\ \A u \in Threads : pc'[u] = IF u = t THEN label ELSE pc[u]
  BY GotoLabels
<1>2. ThreadInv'
  <2> SUFFICES ASSUME NEW s \in Servers
               PROVE  /\ pc'[Main(s)] \in MainLabels
                      /\ pc'[Heart(s)] \in HeartLabels
                      /\ pc'[Heart(s)] # "none" => pc'[Main(s)] \in {"serve", "join"}
                      /\ pc'[Main(s)] = "broken" => s \in untidy'
    BY DEF ThreadInv
  <2>1. /\ pc[Main(s)] \in MainLabels /\ pc[Heart(s)] \in HeartLabels
        /\ pc[Heart(s)] # "none" => pc[Main(s)] \in {"serve", "join"}
        /\ pc[Main(s)] = "broken" => s \in untidy
    BY DEF ServerInv, ThreadInv
  <2>2. /\ Main(s) \in Threads /\ Heart(s) \in Threads /\ Main(s) # Heart(s)
        /\ Owner(Main(s)) = s /\ Owner(Heart(s)) = s
    BY ThreadFacts
  <2>3. CASE t = Main(s)
    <3>1. pc'[Main(s)] = label /\ pc'[Heart(s)] = pc[Heart(s)]
      BY <1>1, <2>2, <2>3
    <3> QED BY <2>1, <2>2, <2>3, <3>1
  <2>4. CASE t = Heart(s)
    <3>1. pc'[Heart(s)] = label /\ pc'[Main(s)] = pc[Main(s)]
      BY <1>1, <2>2, <2>4
    <3> QED BY <2>1, <2>2, <2>4, <3>1
  <2>5. CASE t # Main(s) /\ t # Heart(s)
    <3>1. pc'[Heart(s)] = pc[Heart(s)] /\ pc'[Main(s)] = pc[Main(s)]
      BY <1>1, <2>2, <2>5
    <3> QED BY <2>1, <2>5, <3>1
  <2> QED BY <2>3, <2>4, <2>5
<1> QED BY <1>1, <1>2, LabelType DEF ThreadInv

\* Whatever a publication comes to, the thread goes on.
LEMMA PublishEndsInv ==
  ASSUME ServerInv, NEW t \in Threads, PublishReturns(t) \/ PublishRaises(t)
  PROVE  ServerInv'
<1> DEFINE s == Owner(t)
<1>h. /\ pc[t] = "publish" /\ s \in Servers
      /\ t = Main(s) \/ t = Heart(s)
      /\ Main(s) # Heart(s)
      /\ UNCHANGED <<now, stopHeart, registered, servings, untidy>>
      /\ stamp' = [stamp EXCEPT ![t] = 0]
  BY ThreadFacts DEF PublishReturns, PublishRaises, Forget
<1>l. PICK label \in {"spawn", "idle", "wait"} :
        Goto(t, label) /\ (label = "wait" <=> t # Main(s))
  BY DEF PublishReturns, PublishRaises
<1>1. pc[Heart(s)] # "none" => pc[Main(s)] \in {"serve", "join"}
  BY <1>h DEF ServerInv, ThreadInv
<1>2. /\ ThreadInv'
      /\ pc' \in [Threads -> {"idle", "publish", "spawn", "serve", "join", "withdraw",
                              "broken", "none", "wait"}]
  BY <1>h, <1>l, <1>1, GotoInv DEF MainLabels, HeartLabels
<1>3. stamp' \in [Threads -> 0 .. MaxTime]
  BY <1>h, ServiceAssumption DEF ServerInv, ServerTypeOK
<1> QED BY <1>h, <1>2, <1>3 DEF ServerInv, ServerTypeOK

\* The steps of the thread in serve_forever() that call no backend.
LEMMA MainInv ==
  ASSUME ServerInv, NEW s \in Servers, ServeForever(s) \/ MainStep(s) \/ WithdrawReturns(s)
  PROVE  ServerInv'
<1>f. /\ Main(s) \in Threads /\ Heart(s) \in Threads /\ Main(s) # Heart(s)
      /\ Owner(Main(s)) = s
  BY ThreadFacts
<1>t. /\ ServerTypeOK
      /\ pc[Heart(s)] # "none" => pc[Main(s)] \in {"serve", "join"}
      /\ pc[Main(s)] = "broken" => s \in untidy
      /\ 0 \in 0 .. MaxTime /\ MaxServings \in Nat
  BY ServiceAssumption DEF ServerInv, ThreadInv
<1>1. CASE ServeForever(s)
  <2>1. Goto(Main(s), "publish") /\ pc[Main(s)] = "idle" /\ UNCHANGED untidy
    BY <1>1 DEF ServeForever, Publish
  <2>2. /\ ThreadInv'
        /\ pc' \in [Threads -> {"idle", "publish", "spawn", "serve", "join", "withdraw",
                                "broken", "none", "wait"}]
    BY <1>f, <1>t, <2>1, GotoInv DEF MainLabels
  <2>3. stamp' \in [Threads -> 0 .. MaxTime] /\ servings' \in [Servers -> 0 .. MaxServings]
    BY <1>1, <1>f, <1>t DEF ServeForever, Publish, ServerTypeOK
  <2> QED BY <1>1, <1>t, <2>2, <2>3 DEF ServeForever, ServerInv, ServerTypeOK
<1>2. CASE Spawn(s)
  <2>1. \A u \in Threads : pc'[u] = IF u = Heart(s) THEN "wait"
                                    ELSE IF u = Main(s) THEN "serve" ELSE pc[u]
    BY <1>2, <1>t DEF Spawn, ServerTypeOK
  <2>2. ThreadInv'
    <3> SUFFICES ASSUME NEW r \in Servers
                 PROVE  /\ pc'[Main(r)] \in MainLabels
                        /\ pc'[Heart(r)] \in HeartLabels
                        /\ pc'[Heart(r)] # "none" => pc'[Main(r)] \in {"serve", "join"}
                        /\ pc'[Main(r)] = "broken" => r \in untidy
      BY <1>2 DEF ThreadInv, Spawn
    <3>1. CASE r = s
      BY <1>f, <2>1, <3>1 DEF MainLabels, HeartLabels
    <3>2. CASE r # s
      <4>1. pc'[Main(r)] = pc[Main(r)] /\ pc'[Heart(r)] = pc[Heart(r)]
        BY <2>1, <3>2, ThreadFacts
      <4> QED BY <4>1 DEF ServerInv, ThreadInv
    <3> QED BY <3>1, <3>2
  <2>3. pc' = [u \in Threads |-> pc'[u]]
    BY <1>2, <1>t DEF Spawn, ServerTypeOK
  <2>4. pc' \in [Threads -> {"idle", "publish", "spawn", "serve", "join", "withdraw",
                             "broken", "none", "wait"}]
    BY <2>2, <2>3, LabelType DEF ThreadInv
  <2> QED BY <1>2, <1>t, <2>2, <2>4 DEF Spawn, ServerInv, ServerTypeOK
<1>3. CASE SpawnFails(s)
  <2>1. Goto(Main(s), "broken") /\ pc[Main(s)] = "spawn" /\ untidy' = untidy \cup {s}
    BY <1>3 DEF SpawnFails
  <2>2. /\ ThreadInv'
        /\ pc' \in [Threads -> {"idle", "publish", "spawn", "serve", "join", "withdraw",
                                "broken", "none", "wait"}]
    BY <1>f, <1>t, <2>1, GotoInv DEF MainLabels
  <2> QED BY <1>3, <1>t, <2>2 DEF SpawnFails, ServerInv, ServerTypeOK
<1>4. CASE ServeEnds(s)
  <2>1. Goto(Main(s), "join") /\ UNCHANGED untidy
    BY <1>4 DEF ServeEnds
  <2>2. /\ ThreadInv'
        /\ pc' \in [Threads -> {"idle", "publish", "spawn", "serve", "join", "withdraw",
                                "broken", "none", "wait"}]
    BY <1>f, <2>1, GotoInv DEF MainLabels
  <2> QED BY <1>4, <1>t, <2>2 DEF ServeEnds, ServerInv, ServerTypeOK
<1>5. CASE Joined(s)
  <2>1. Goto(Main(s), "withdraw") /\ pc[Heart(s)] = "none" /\ UNCHANGED untidy
    BY <1>5 DEF Joined
  <2>2. /\ ThreadInv'
        /\ pc' \in [Threads -> {"idle", "publish", "spawn", "serve", "join", "withdraw",
                                "broken", "none", "wait"}]
    BY <1>f, <2>1, GotoInv DEF MainLabels
  <2> QED BY <1>5, <1>t, <2>2 DEF Joined, ServerInv, ServerTypeOK
<1>6. CASE WithdrawReturns(s)
  <2>1. Goto(Main(s), "idle") /\ pc[Main(s)] = "withdraw" /\ untidy' = untidy \ {s}
    BY <1>6 DEF WithdrawReturns
  <2>2. /\ ThreadInv'
        /\ pc' \in [Threads -> {"idle", "publish", "spawn", "serve", "join", "withdraw",
                                "broken", "none", "wait"}]
    BY <1>f, <1>t, <2>1, GotoInv DEF MainLabels
  <2> QED BY <1>6, <1>t, <2>2 DEF WithdrawReturns, ServerInv, ServerTypeOK
<1> QED BY <1>1, <1>2, <1>3, <1>4, <1>5, <1>6 DEF MainStep

\* Those of the heartbeat thread.
LEMMA HeartInv ==
  ASSUME ServerInv, NEW s \in Servers, HeartStep(s)
  PROVE  ServerInv'
<1>f. /\ Main(s) \in Threads /\ Heart(s) \in Threads /\ Main(s) # Heart(s)
      /\ Owner(Heart(s)) = s
  BY ThreadFacts
<1>t. /\ ServerTypeOK /\ pc[Heart(s)] = "wait"
      /\ pc[Main(s)] \in {"serve", "join"}
  BY DEF ServerInv, ThreadInv, HeartStep, Beat, HeartStops
<1>l. PICK label \in {"publish", "none"} : Goto(Heart(s), label)
  BY DEF HeartStep, Beat, HeartStops, Publish
<1>u. UNCHANGED <<now, stopHeart, registered, servings, untidy>>
  BY DEF HeartStep, Beat, HeartStops
<1>1. /\ ThreadInv'
      /\ pc' \in [Threads -> {"idle", "publish", "spawn", "serve", "join", "withdraw",
                              "broken", "none", "wait"}]
  BY <1>f, <1>t, <1>l, <1>u, GotoInv DEF HeartLabels
<1>2. stamp' \in [Threads -> 0 .. MaxTime]
  BY <1>f, <1>t DEF HeartStep, Beat, HeartStops, Publish, ServerTypeOK
<1> QED BY <1>t, <1>u, <1>1, <1>2 DEF ServerInv, ServerTypeOK

\* The death of a process ends both threads.
LEMMA CrashInv ==
  ASSUME ServerInv, NEW s \in Servers, Crash(s)
  PROVE  ServerInv'
<1>f. Main(s) \in Threads /\ Heart(s) \in Threads /\ Main(s) # Heart(s)
  BY ThreadFacts
<1>t. ServerTypeOK
  BY DEF ServerInv
<1>1. \A u \in Threads : pc'[u] = IF u = Heart(s) THEN "none"
                                  ELSE IF u = Main(s) THEN "idle" ELSE pc[u]
  BY <1>t DEF Crash, ServerTypeOK
<1>2. ThreadInv'
  <2> SUFFICES ASSUME NEW r \in Servers
               PROVE  /\ pc'[Main(r)] \in MainLabels
                      /\ pc'[Heart(r)] \in HeartLabels
                      /\ pc'[Heart(r)] # "none" => pc'[Main(r)] \in {"serve", "join"}
                      /\ pc'[Main(r)] = "broken" => r \in untidy'
    BY DEF ThreadInv
  <2>1. CASE r = s
    BY <1>f, <1>1, <2>1 DEF MainLabels, HeartLabels
  <2>2. CASE r # s
    <3>1. pc'[Main(r)] = pc[Main(r)] /\ pc'[Heart(r)] = pc[Heart(r)]
      BY <1>1, <2>2, ThreadFacts
    <3>2. untidy' = untidy \cup {s}
      BY DEF Crash
    <3> QED BY <3>1, <3>2 DEF ServerInv, ThreadInv
  <2> QED BY <2>1, <2>2
<1>3. pc' = [u \in Threads |-> pc'[u]]
  BY <1>t DEF Crash, ServerTypeOK
<1>4. pc' \in [Threads -> {"idle", "publish", "spawn", "serve", "join", "withdraw",
                           "broken", "none", "wait"}]
  BY <1>2, <1>3, LabelType DEF ThreadInv
<1>5. stamp' \in [Threads -> 0 .. MaxTime]
  BY <1>t, ServiceAssumption DEF Crash, ServerTypeOK
<1> QED BY <1>t, <1>2, <1>4, <1>5 DEF Crash, ServerInv, ServerTypeOK

\* Time passes.
LEMMA TickInv ==
  ASSUME ServerInv, Tick
  PROVE  ServerInv'
<1>1. now' \in 0 .. MaxTime
  BY ServiceAssumption DEF ServerInv, ServerTypeOK, Tick
<1> QED BY <1>1 DEF ServerInv, ServerTypeOK, ThreadInv, Tick, serverVars

-----------------------------------------------------------------------------
(* The servers as a registry sees them.                                    *)

\* A step of s leaves the others as they are.
LEMMA OthersKept ==
  ASSUME ServerInv, NEW s \in Servers,
         \/ ServeForever(s) \/ MainStep(s) \/ WithdrawReturns(s) \/ HeartStep(s) \/ Crash(s)
         \/ PublishReturns(Main(s)) \/ PublishRaises(Main(s))
         \/ PublishReturns(Heart(s)) \/ PublishRaises(Heart(s))
  PROVE  \A r \in Servers : r # s => /\ pc'[Main(r)] = pc[Main(r)]
                                     /\ pc'[Heart(r)] = pc[Heart(r)]
                                     /\ r \in untidy' <=> r \in untidy
<1> SUFFICES ASSUME NEW r \in Servers, r # s
             PROVE  /\ pc'[Main(r)] = pc[Main(r)]
                    /\ pc'[Heart(r)] = pc[Heart(r)]
                    /\ r \in untidy' <=> r \in untidy
  OBVIOUS
<1>1. /\ Main(r) \in Threads /\ Heart(r) \in Threads
      /\ Main(r) # Main(s) /\ Main(r) # Heart(s) /\ Heart(r) # Main(s) /\ Heart(r) # Heart(s)
  BY ThreadFacts
<1>2. untidy' \in {untidy, untidy \cup {s}, untidy \ {s}}
  BY DEF ServeForever, MainStep, Spawn, SpawnFails, ServeEnds, Joined, WithdrawReturns,
         HeartStep, Beat, HeartStops, Crash, PublishReturns, PublishRaises
<1>3. /\ pc' = [u \in Threads |-> pc'[u]]
      /\ \A u \in Threads : u # Main(s) /\ u # Heart(s) => pc'[u] = pc[u]
  <2>1. CASE Spawn(s) \/ Crash(s)
    BY <2>1 DEF Spawn, Crash, ServerInv, ServerTypeOK
  <2>2. CASE ~(Spawn(s) \/ Crash(s))
    <3>1. PICK u \in {Main(s), Heart(s)} : \E label : Goto(u, label)
      BY <2>2 DEF ServeForever, MainStep, SpawnFails, ServeEnds, Joined, WithdrawReturns,
                  HeartStep, Beat, HeartStops, PublishReturns, PublishRaises, Publish
    <3>2. u \in Threads
      BY ThreadFacts
    <3> QED BY <3>1, <3>2, GotoLabels
  <2> QED BY <2>1, <2>2
<1> QED BY <1>1, <1>2, <1>3

\* Where the main thread of s stands after a step.
LEMMA MainLabel ==
  ASSUME ServerInv, NEW s \in Servers, NEW label,
         \/ Goto(Main(s), label)
         \/ \E other : Goto(Heart(s), other) /\ label = pc[Main(s)]
  PROVE  pc'[Main(s)] = label
<1>1. Main(s) \in Threads /\ Heart(s) \in Threads /\ Main(s) # Heart(s)
  BY ThreadFacts
<1> QED BY <1>1, GotoLabels

\* The view changes at s only.
LEMMA ViewChanges ==
  ASSUME NEW s \in Servers,
         \A r \in Servers : r # s => /\ pc'[Main(r)] = pc[Main(r)]
                                     /\ r \in untidy' <=> r \in untidy
  PROVE  StatusView' = [StatusView EXCEPT ![s] = StatusOf(s)']
<1> QED BY DEF StatusView, StatusOf

\* serve_forever() begins.
LEMMA ServeForeverStatus ==
  ASSUME ServerInv, NEW s \in Servers, ServeForever(s)
  PROVE  StatusView[s] # "on" /\ StatusView' = [StatusView EXCEPT ![s] = "on"]
<1>1. pc[Main(s)] = "idle" /\ Goto(Main(s), "publish")
  BY DEF ServeForever, Publish
<1>2. pc'[Main(s)] = "publish"
  BY <1>1, MainLabel
<1>3. StatusOf(s)' = "on"
  BY <1>2 DEF StatusOf
<1>4. StatusView' = [StatusView EXCEPT ![s] = StatusOf(s)']
  BY OthersKept, ViewChanges
<1> QED BY <1>1, <1>3, <1>4 DEF StatusView, StatusOf

\* It goes on.
LEMMA StatusKept ==
  ASSUME ServerInv, NEW s \in Servers,
         \/ Spawn(s) \/ ServeEnds(s) \/ Joined(s) \/ HeartStep(s)
         \/ PublishReturns(Main(s)) \/ PublishReturns(Heart(s)) \/ PublishRaises(Heart(s))
  PROVE  UNCHANGED StatusView
<1>f. Main(s) \in Threads /\ Heart(s) \in Threads /\ Main(s) # Heart(s)
      /\ Owner(Main(s)) = s /\ Owner(Heart(s)) = s
  BY ThreadFacts
<1>1. UNCHANGED untidy
  BY DEF Spawn, ServeEnds, Joined, HeartStep, Beat, HeartStops, PublishReturns, PublishRaises
<1>2. \/ pc'[Main(s)] = pc[Main(s)]
      \/ /\ pc[Main(s)] \in {"publish", "spawn", "serve", "join"}
         /\ pc'[Main(s)] \in {"spawn", "serve", "join", "withdraw"}
  <2>1. CASE Spawn(s)
    BY <2>1, <1>f DEF Spawn, ServerInv, ServerTypeOK
  <2>2. CASE ServeEnds(s) \/ Joined(s) \/ PublishReturns(Main(s))
    BY <2>2, <1>f, MainLabel DEF ServeEnds, Joined, PublishReturns
  <2>3. CASE HeartStep(s) \/ PublishReturns(Heart(s)) \/ PublishRaises(Heart(s))
    BY <2>3, <1>f, MainLabel DEF HeartStep, Beat, HeartStops, PublishReturns, PublishRaises,
                                 Publish
  <2> QED BY <2>1, <2>2, <2>3
<1>3. StatusOf(s)' = StatusOf(s)
  BY <1>1, <1>2 DEF StatusOf
<1>4. StatusView' = [StatusView EXCEPT ![s] = StatusOf(s)']
  BY OthersKept, ViewChanges DEF MainStep
<1> QED BY <1>3, <1>4 DEF StatusView

\* It raises before the server was registered.
LEMMA RaisesStatus ==
  ASSUME ServerInv, NEW s \in Servers, PublishRaises(Main(s))
  PROVE  /\ StatusView[s] = "on"
         /\ StatusView' = [StatusView EXCEPT ![s] = IF s \in untidy THEN "dead" ELSE "off"]
<1>f. Main(s) \in Threads /\ Owner(Main(s)) = s
  BY ThreadFacts
<1>1. /\ pc[Main(s)] = "publish" /\ Goto(Main(s), "idle") /\ UNCHANGED untidy
  BY <1>f DEF PublishRaises
<1>2. pc'[Main(s)] = "idle"
  BY <1>1, MainLabel
<1>3. StatusOf(s)' = IF s \in untidy THEN "dead" ELSE "off"
  BY <1>1, <1>2 DEF StatusOf
<1>4. StatusView' = [StatusView EXCEPT ![s] = StatusOf(s)']
  BY OthersKept, ViewChanges
<1> QED BY <1>1, <1>3, <1>4 DEF StatusView, StatusOf

\* It returns.
LEMMA WithdrawStatus ==
  ASSUME ServerInv, NEW s \in Servers, WithdrawReturns(s)
  PROVE  StatusView[s] = "on" /\ StatusView' = [StatusView EXCEPT ![s] = "off"]
<1>1. /\ pc[Main(s)] = "withdraw" /\ Goto(Main(s), "idle") /\ untidy' = untidy \ {s}
  BY DEF WithdrawReturns
<1>2. pc'[Main(s)] = "idle"
  BY <1>1, MainLabel
<1>3. StatusOf(s)' = "off"
  BY <1>1, <1>2 DEF StatusOf
<1>4. StatusView' = [StatusView EXCEPT ![s] = StatusOf(s)']
  BY OthersKept, ViewChanges
<1> QED BY <1>1, <1>3, <1>4 DEF StatusView, StatusOf

\* It breaks, or its process dies.
LEMMA DeathStatus ==
  ASSUME ServerInv, NEW s \in Servers, SpawnFails(s) \/ Crash(s)
  PROVE  /\ StatusView[s] \in {"on", "dead"}
         /\ StatusView' = [StatusView EXCEPT ![s] = "dead"]
<1>f. Main(s) \in Threads /\ Heart(s) \in Threads /\ Main(s) # Heart(s)
  BY ThreadFacts
<1>1. /\ pc[Main(s)] # "idle" /\ untidy' = untidy \cup {s}
      /\ pc'[Main(s)] \in {"idle", "broken"}
  <2>1. CASE SpawnFails(s)
    BY <2>1, <1>f, MainLabel DEF SpawnFails
  <2>2. CASE Crash(s)
    BY <2>2, <1>f DEF Crash, ServerInv, ServerTypeOK
  <2> QED BY <2>1, <2>2
<1>2. StatusOf(s)' = "dead" /\ StatusOf(s) \in {"on", "dead"}
  BY <1>1 DEF StatusOf, ServerInv, ThreadInv
<1>4. StatusView' = [StatusView EXCEPT ![s] = StatusOf(s)']
  BY OthersKept, ViewChanges DEF MainStep
<1> QED BY <1>2, <1>4 DEF StatusView
=============================================================================
