----------------------------- MODULE EventSlots -----------------------------
(***************************************************************************)
(* The pool of event slots in Redis and the five Lua scripts of _event.py  *)
(* that change it.  A script runs atomically; what it is given was read by *)
(* its caller before, the time included.  A slot's stream keeps its last   *)
(* MaxLen entries: log[s] holds them all, Kept(s) says which are left.     *)
(***************************************************************************)
EXTENDS Integers, Sequences

CONSTANTS PoolSize,     \* pool_size of every create()
          MaxLen        \* stream_maxlen of every event

ASSUME SlotsAssumption == PoolSize \in Nat \ {0} /\ MaxLen \in Nat \ {0, 1}

VARIABLES counter,      \* the slot the last create() started at, or -1
          meta,         \* meta[s]: the hash of slot s; generation 0: no hash
          log           \* log[s]: the entries added to the stream of s

slotVars == <<counter, meta, log>>

Slots == 0 .. PoolSize - 1

\* What set() accepts.  "abandoned" stands for the state "failed" with the
\* error "event owner lease expired", which only _TRY_CLAIM writes.
TerminalStates == {"succeeded", "failed", "cancelled"}
Outcomes == TerminalStates \cup {"abandoned"}
States == {"created"} \cup Outcomes

Meta == [generation : Nat, state : States, reusableAt : Nat, leaseUntil : Nat]
Entry == [generation : Nat \ {0}, state : States]

NoMeta == [generation |-> 0, state |-> "created", reusableAt |-> 0, leaseUntil |-> 0]

SlotsTypeOK == /\ counter \in -1 .. PoolSize - 1
               /\ meta \in [Slots -> Meta]
               /\ log \in [Slots -> Seq(Entry)]

SlotsInit == /\ counter = -1
             /\ meta = [s \in Slots |-> NoMeta]
             /\ log = [s \in Slots |-> <<>>]

Kept(s) == {i \in 1 .. Len(log[s]) : i > Len(log[s]) - MaxLen}

Note(g, st) == [generation |-> g, state |-> st]

Created(g, until) ==
  [generation |-> g, state |-> "created", reusableAt |-> 0, leaseUntil |-> until]

Ended(g, st, reusable) ==
  [generation |-> g, state |-> st, reusableAt |-> reusable, leaseUntil |-> 0]

\* Mutant of NextSlot: the counter does not wrap around the pool.
NextSlotUnwrapped == counter' = counter + 1 /\ UNCHANGED <<meta, log>>

\* _NEXT_SLOT
NextSlot == /\ counter' = IF counter + 1 >= PoolSize THEN 0 ELSE counter + 1
            /\ UNCHANGED <<meta, log>>

-----------------------------------------------------------------------------
(* _TRY_CLAIM at time t: the slot is claimed, or 0 is returned.            *)

\* Mutant of Claimable: the retention of an ended event is not observed.
ClaimableAtOnce(s, t) == meta[s].generation = 0 \/ meta[s].state \in Outcomes

\* Never used, or ended and past its retention.
Claimable(s, t) == \/ meta[s].generation = 0
                   \/ meta[s].state \in Outcomes /\ meta[s].reusableAt <= t

LeaseExpired(s, t) == /\ meta[s].generation > 0
                      /\ meta[s].state = "created"
                      /\ 0 < meta[s].leaseUntil
                      /\ meta[s].leaseUntil <= t

\* Mutant of Claim: an ended slot is claimed for its old generation.
ClaimSameGeneration(s, t, lease) ==
  LET g == IF meta[s].generation = 0 THEN 1 ELSE meta[s].generation
  IN  /\ Claimable(s, t)
      /\ meta' = [meta EXCEPT ![s] = Created(g, t + lease)]
      /\ log' = [log EXCEPT ![s] = Append(@, Note(g, "created"))]
      /\ UNCHANGED counter

Claim(s, t, lease) ==
  LET g == meta[s].generation + 1
  IN  /\ Claimable(s, t)
      /\ meta' = [meta EXCEPT ![s] = Created(g, t + lease)]
      /\ log' = [log EXCEPT ![s] = Append(@, Note(g, "created"))]
      /\ UNCHANGED counter

\* Mutant of Abandon: the failure is not announced on the stream.
AbandonSilently(s, t, retention) ==
  LET g == meta[s].generation
  IN  /\ LeaseExpired(s, t)
      /\ retention # 0
      /\ meta' = [meta EXCEPT ![s] = Ended(g, "abandoned", t + retention)]
      /\ UNCHANGED <<counter, log>>

\* The owner's lease ran out: the event fails, and its slot is retained for
\* the retention of the create() that found it.
Abandon(s, t, retention) ==
  LET g == meta[s].generation
  IN  /\ LeaseExpired(s, t)
      /\ retention # 0
      /\ meta' = [meta EXCEPT ![s] = Ended(g, "abandoned", t + retention)]
      /\ log' = [log EXCEPT ![s] = Append(@, Note(g, "abandoned"))]
      /\ UNCHANGED counter

\* With zero retention the slot of the failed event is claimed at once.
AbandonAndClaim(s, t, lease, retention) ==
  LET g == meta[s].generation
  IN  /\ LeaseExpired(s, t)
      /\ retention = 0
      /\ meta' = [meta EXCEPT ![s] = Created(g + 1, t + lease)]
      /\ log' = [log EXCEPT ![s] = Append(Append(@, Note(g, "abandoned")), Note(g + 1, "created"))]
      /\ UNCHANGED counter

\* Active, or ended and retained.
Refuse(s, t) == /\ ~Claimable(s, t)
                /\ ~LeaseExpired(s, t)
                /\ UNCHANGED slotVars

-----------------------------------------------------------------------------
(* The scripts of an event's holders: g is the generation they hold.       *)

\* Mutant of Active: whatever generation the slot is in, if it is active.
ActiveAnyGeneration(s, g) == meta[s].generation > 0 /\ meta[s].state = "created"

Active(s, g) == meta[s].generation = g /\ meta[s].state = "created"

\* Mutant of Complete: an event that already ended is set again.
CompleteAgain(s, g, st, t, retention) ==
  /\ meta[s].generation = g
  /\ meta' = [meta EXCEPT ![s] = Ended(g, st, t + retention)]
  /\ log' = [log EXCEPT ![s] = Append(@, Note(g, st))]
  /\ UNCHANGED counter

\* _COMPLETE; otherwise the caller is told "expired" or "already".
Complete(s, g, st, t, retention) ==
  /\ Active(s, g)
  /\ meta' = [meta EXCEPT ![s] = Ended(g, st, t + retention)]
  /\ log' = [log EXCEPT ![s] = Append(@, Note(g, st))]
  /\ UNCHANGED counter

\* _REFRESH_LEASE; otherwise -1 or 0 is returned and nothing changes.
RefreshLease(s, g, t, lease) ==
  /\ Active(s, g)
  /\ meta' = [meta EXCEPT ![s].leaseUntil = t + lease]
  /\ UNCHANGED <<counter, log>>

\* _RELEASE; otherwise -1 or 0 is returned and nothing changes.
Release(s, g, t) ==
  /\ meta[s].generation = g
  /\ meta[s].state # "created"
  /\ meta' = [meta EXCEPT ![s].reusableAt = t]
  /\ UNCHANGED <<counter, log>>
=============================================================================
