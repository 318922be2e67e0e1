-------------------------- MODULE DiscoveredServer --------------------------
(***************************************************************************)
(* DiscoveredRpcServer (_service.py).  Of each server object s the thread  *)
(* in serve_forever(), Main(s), and its heartbeat thread, Heart(s).        *)
(*                                                                         *)
(* pc[Main(s)]:                                                            *)
(*   idle -> publish      discovery.register of a record made now          *)
(*   publish -> spawn     it returned                                      *)
(*   spawn -> serve       flags set, heartbeat thread started              *)
(*   serve -> join        the server returned or raised                    *)
(*   join -> withdraw     the heartbeat thread has ended                   *)
(*   withdraw -> idle     discovery.unregister returned                    *)
(*   broken               the heartbeat thread could not be started        *)
(* pc[Heart(s)]: none, wait, publish (discovery.heartbeat)                 *)
(*                                                                         *)
(* What register, heartbeat and unregister do is up to the backend, which  *)
(* uses PublishReturns, PublishRaises and WithdrawReturns.                 *)
(***************************************************************************)
EXTENDS Integers

CONSTANTS Servers,
          MaxServings,    \* bound on the calls of serve_forever(), per server
          MaxTime,        \* bound on the clock
          Troubles        \* what may go wrong, of those below

\* The process dies; no thread can be started; the backend cannot be reached.
AllTroubles == {"crash", "no_thread", "backend"}

\* What the models of the backends use for no server, and for what a lookup
\* that found none says.
NoNames == {"nobody", "none", "open", "nothing", "error"}

ASSUME ServiceAssumption == /\ MaxServings \in Nat
                            /\ MaxTime \in Nat
                            /\ Troubles \subseteq AllTroubles
                            /\ Servers \cap NoNames = {}

VARIABLES now,
          pc,
          stamp,          \* stamp[t]: heartbeat_at of the record t publishes
          stopHeart,      \* stopHeart[s]: _stop_heartbeat
          registered,     \* registered[s]: _registered
          servings,       \* how often serve_forever() was called
          untidy          \* history: the servers that died or broke, and
                          \* have not withdrawn since

serverVars == <<pc, stamp, stopHeart, registered, servings, untidy>>

Main(s) == <<s, "main">>
Heart(s) == <<s, "heart">>
Threads == Servers \X {"main", "heart"}
Owner(t) == t[1]

ServerTypeOK ==
  /\ now \in 0 .. MaxTime
  /\ pc \in [Threads -> {"idle", "publish", "spawn", "serve", "join", "withdraw",
                         "broken", "none", "wait"}]
  /\ stamp \in [Threads -> 0 .. MaxTime]
  /\ stopHeart \in [Servers -> BOOLEAN]
  /\ registered \in [Servers -> BOOLEAN]
  /\ servings \in [Servers -> 0 .. MaxServings]
  /\ untidy \subseteq Servers

ServerInit ==
  /\ now = 0
  /\ pc = [t \in Threads |-> IF t[2] = "main" THEN "idle" ELSE "none"]
  /\ stamp = [t \in Threads |-> 0]
  /\ stopHeart = [s \in Servers |-> FALSE]
  /\ registered = [s \in Servers |-> FALSE]
  /\ servings = [s \in Servers |-> 0]
  /\ untidy = {}

Tick == /\ now < MaxTime
        /\ now' = now + 1
        /\ UNCHANGED serverVars

Goto(t, label) == pc' = [pc EXCEPT ![t] = label]

\* A record is made, with the time of now, and given to the backend.
Publish(t) == /\ Goto(t, "publish")
              /\ stamp' = [stamp EXCEPT ![t] = now]

ServeForever(s) == /\ pc[Main(s)] = "idle"
                   /\ ~registered[s]
                   /\ servings[s] < MaxServings
                   /\ servings' = [servings EXCEPT ![s] = @ + 1]
                   /\ Publish(Main(s))
                   /\ UNCHANGED <<now, stopHeart, registered, untidy>>

Forget(t) == stamp' = [stamp EXCEPT ![t] = 0]

PublishReturns(t) == /\ pc[t] = "publish"
                     /\ Goto(t, IF t = Main(Owner(t)) THEN "spawn" ELSE "wait")
                     /\ Forget(t)
                     /\ UNCHANGED <<now, stopHeart, registered, servings, untidy>>

\* Mutant of PublishRaises: the heartbeat loop does not catch exceptions.
PublishRaisesUncaught(t) ==
  /\ pc[t] = "publish"
  /\ Goto(t, IF t = Main(Owner(t)) THEN "idle" ELSE "none")
  /\ Forget(t)
  /\ UNCHANGED <<now, stopHeart, registered, servings, untidy>>

\* serve_forever() raises DiscoveryError; the heartbeat loop logs it.
PublishRaises(t) == /\ pc[t] = "publish"
                    /\ Goto(t, IF t = Main(Owner(t)) THEN "idle" ELSE "wait")
                    /\ Forget(t)
                    /\ UNCHANGED <<now, stopHeart, registered, servings, untidy>>

Spawn(s) == /\ pc[Main(s)] = "spawn"
            /\ registered' = [registered EXCEPT ![s] = TRUE]
            /\ stopHeart' = [stopHeart EXCEPT ![s] = FALSE]
            /\ pc' = [pc EXCEPT ![Main(s)] = "serve", ![Heart(s)] = "wait"]
            /\ UNCHANGED <<now, stamp, servings, untidy>>

\* start() raises, and so does join() of the thread that was not started: the
\* rest of the finally block is not reached.
SpawnFails(s) == /\ "no_thread" \in Troubles
                 /\ pc[Main(s)] = "spawn"
                 /\ registered' = [registered EXCEPT ![s] = TRUE]
                 /\ stopHeart' = [stopHeart EXCEPT ![s] = TRUE]
                 /\ Goto(Main(s), "broken")
                 /\ untidy' = untidy \cup {s}
                 /\ UNCHANGED <<now, stamp, servings>>

\* Mutant of ServeEnds: _stop_heartbeat is not set.
ServeEndsQuietly(s) == /\ pc[Main(s)] = "serve"
                       /\ Goto(Main(s), "join")
                       /\ UNCHANGED <<now, stamp, stopHeart, registered, servings, untidy>>

\* The wrapped server's serve_forever() returned or raised.
ServeEnds(s) == /\ pc[Main(s)] = "serve"
                /\ stopHeart' = [stopHeart EXCEPT ![s] = TRUE]
                /\ Goto(Main(s), "join")
                /\ UNCHANGED <<now, stamp, registered, servings, untidy>>

\* Mutant of Joined: the heartbeat thread is not waited for.
JoinedAtOnce(s) == /\ pc[Main(s)] = "join"
                   /\ Goto(Main(s), "withdraw")
                   /\ UNCHANGED <<now, stamp, stopHeart, registered, servings, untidy>>

Joined(s) == /\ pc[Main(s)] = "join"
             /\ pc[Heart(s)] = "none"
             /\ Goto(Main(s), "withdraw")
             /\ UNCHANGED <<now, stamp, stopHeart, registered, servings, untidy>>

WithdrawReturns(s) == /\ pc[Main(s)] = "withdraw"
                      /\ Goto(Main(s), "idle")
                      /\ registered' = [registered EXCEPT ![s] = FALSE]
                      /\ untidy' = untidy \ {s}
                      /\ UNCHANGED <<now, stamp, stopHeart, servings>>

\* The interval passed; it is not compared with the registry's timeout.
Beat(s) == /\ pc[Heart(s)] = "wait"
           /\ ~stopHeart[s]
           /\ Publish(Heart(s))
           /\ UNCHANGED <<now, stopHeart, registered, servings, untidy>>

HeartStops(s) == /\ pc[Heart(s)] = "wait"
                 /\ stopHeart[s]
                 /\ Goto(Heart(s), "none")
                 /\ UNCHANGED <<now, stamp, stopHeart, registered, servings, untidy>>

\* The process dies, and may be started again.
Crash(s) == /\ "crash" \in Troubles
            /\ pc[Main(s)] # "idle"
            /\ pc' = [pc EXCEPT ![Main(s)] = "idle", ![Heart(s)] = "none"]
            /\ stamp' = [t \in Threads |-> IF Owner(t) = s THEN 0 ELSE stamp[t]]
            /\ stopHeart' = [stopHeart EXCEPT ![s] = FALSE]
            /\ registered' = [registered EXCEPT ![s] = FALSE]
            /\ untidy' = untidy \cup {s}
            /\ UNCHANGED <<now, servings>>

\* The steps that touch nothing of the backend.
MainStep(s) == Spawn(s) \/ SpawnFails(s) \/ ServeEnds(s) \/ Joined(s)
HeartStep(s) == Beat(s) \/ HeartStops(s)

\* How the registry sees s.
StatusOf(s) == IF pc[Main(s)] \notin {"idle", "broken"} THEN "on"
               ELSE IF s \in untidy THEN "dead" ELSE "off"
=============================================================================
