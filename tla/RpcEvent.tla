------------------------------ MODULE RpcEvent ------------------------------
(***************************************************************************)
(* RpcEvent (_event.py): processes that create, set, refresh, release and  *)
(* wait for completion events in a shared pool of slots.                   *)
(*                                                                         *)
(* An event is named by the create() call that makes it.  cpc[c] follows   *)
(* that call, one step per script it runs or clock it reads:               *)
(*   idle -> clock    _NEXT_SLOT gave the slot to start at                 *)
(*   clock -> scan    _now_ms()                                            *)
(*   scan -> scan     _TRY_CLAIM gave 0: the next offset                   *)
(*   done             returned handle[c]                                   *)
(*   exhausted        raised RpcEventPoolExhausted                         *)
(* wpc[w] follows one wait() call:                                         *)
(*   idle -> snap -> read -> snap ...   _snapshot, then XREAD from last[w] *)
(*   read -> final    out of time: one last _snapshot                      *)
(*   done             returned or raised; told[w] says which               *)
(***************************************************************************)
EXTENDS EventSlots

CONSTANTS Creates, Waits,
          Retention, Lease,     \* of each create(), and of its event
          RefreshLeases,        \* the leases refresh_lease() is given
          SetStates,            \* the states set() is given
          Timeout,              \* Timeout[w]: "none", "zero" or "some"
          NoEvent,
          MaxTime               \* bound on the clock

ASSUME EventAssumption == /\ Retention \in [Creates -> Nat]
                          /\ Lease \in [Creates -> Nat \ {0}]
                          /\ RefreshLeases \subseteq Nat \ {0}
                          /\ SetStates \subseteq TerminalStates
                          /\ Timeout \in [Waits -> {"none", "zero", "some"}]
                          /\ NoEvent \notin Creates
                          /\ MaxTime \in Nat

VARIABLES now,          \* the clock all processes read
          cpc,
          start,        \* start[c]: the slot c starts at
          offset,       \* offset[c]: how many slots c was refused
          seen,         \* seen[c]: the clock c read
          handle,       \* handle[c]: slot and generation; generation 0: none
          acked,        \* acked[c]: the state a set() of c returned for
          wpc,
          target,       \* target[w]: the event w waits for
          last,         \* last[w]: the stream position w has read up to
          told          \* told[w]: what wait() gave

createVars == <<cpc, start, offset, seen, handle>>
waitVars == <<wpc, target, last, told>>
vars == <<slotVars, now, createVars, acked, waitVars>>

Handle == [slot : Slots, generation : Nat]
Waiting == {"snap", "read", "final"}

TypeOK == /\ SlotsTypeOK
          /\ now \in 0 .. MaxTime
          /\ cpc \in [Creates -> {"idle", "clock", "scan", "done", "exhausted"}]
          /\ start \in [Creates -> Slots]
          /\ offset \in [Creates -> Slots]
          /\ seen \in [Creates -> 0 .. MaxTime]
          /\ handle \in [Creates -> Handle]
          /\ acked \in [Creates -> {"none"} \cup TerminalStates]
          /\ wpc \in [Waits -> {"idle", "done"} \cup Waiting]
          /\ target \in [Waits -> Creates \cup {NoEvent}]
          /\ last \in [Waits -> Nat]
          /\ told \in [Waits -> {"none", "expired", "timeout"} \cup Outcomes]

Init == /\ SlotsInit
        /\ now = 0
        /\ cpc = [c \in Creates |-> "idle"]
        /\ start = [c \in Creates |-> 0]
        /\ offset = [c \in Creates |-> 0]
        /\ seen = [c \in Creates |-> 0]
        /\ handle = [c \in Creates |-> [slot |-> 0, generation |-> 0]]
        /\ acked = [c \in Creates |-> "none"]
        /\ wpc = [w \in Waits |-> "idle"]
        /\ target = [w \in Waits |-> NoEvent]
        /\ last = [w \in Waits |-> 0]
        /\ told = [w \in Waits |-> "none"]

-----------------------------------------------------------------------------
(* create()                                                                *)

CreateStart(c) == /\ cpc[c] = "idle"
                  /\ NextSlot
                  /\ cpc' = [cpc EXCEPT ![c] = "clock"]
                  /\ start' = [start EXCEPT ![c] = counter']
                  /\ UNCHANGED <<now, offset, seen, handle, acked, waitVars>>

\* The clock is read once, before the scan.
ReadClock(c) == /\ cpc[c] = "clock"
                /\ cpc' = [cpc EXCEPT ![c] = "scan"]
                /\ seen' = [seen EXCEPT ![c] = now]
                /\ UNCHANGED <<slotVars, now, start, offset, handle, acked, waitVars>>

\* Mutant of Probed: the scan does not wrap around the pool.
ProbedUnwrapped(c) == IF start[c] + offset[c] < PoolSize THEN start[c] + offset[c]
                      ELSE PoolSize - 1

Probed(c) == (start[c] + offset[c]) % PoolSize

\* The local variables of create() go out of scope.
LeaveCreate(c) == /\ start' = [start EXCEPT ![c] = 0]
                  /\ offset' = [offset EXCEPT ![c] = 0]
                  /\ seen' = [seen EXCEPT ![c] = 0]

Claimed(c) ==
  LET s == Probed(c)
  IN  /\ cpc[c] = "scan"
      /\ \/ Claim(s, seen[c], Lease[c])
         \/ AbandonAndClaim(s, seen[c], Lease[c], Retention[c])
      /\ handle' = [handle EXCEPT ![c] = [slot |-> s, generation |-> meta'[s].generation]]
      /\ cpc' = [cpc EXCEPT ![c] = "done"]
      /\ LeaveCreate(c)
      /\ UNCHANGED <<now, acked, waitVars>>

\* The next offset, or none is left.
Refused(c) ==
  LET s == Probed(c)
  IN  /\ cpc[c] = "scan"
      /\ \/ Refuse(s, seen[c])
         \/ Abandon(s, seen[c], Retention[c])
      /\ \/ /\ offset[c] + 1 < PoolSize
            /\ offset' = [offset EXCEPT ![c] = @ + 1]
            /\ UNCHANGED <<cpc, start, seen>>
         \/ /\ offset[c] + 1 = PoolSize
            /\ cpc' = [cpc EXCEPT ![c] = "exhausted"]
            /\ LeaveCreate(c)
      /\ UNCHANGED <<now, handle, acked, waitVars>>

CreateStep(c) == CreateStart(c) \/ ReadClock(c) \/ Claimed(c) \/ Refused(c)

-----------------------------------------------------------------------------
(* Whoever was sent the event may set, refresh or release it, at any time; *)
(* the clock they pass was read a little before.                           *)

Slot(c) == handle[c].slot
Generation(c) == handle[c].generation
Exists(c) == Generation(c) > 0

Set(c, st) == /\ Exists(c)
              /\ \E t \in 0 .. now : Complete(Slot(c), Generation(c), st, t, Retention[c])
              /\ acked' = [acked EXCEPT ![c] = st]
              /\ UNCHANGED <<now, createVars, waitVars>>

Refresh(c) == /\ Exists(c)
              /\ \E t \in 0 .. now, lease \in RefreshLeases :
                   RefreshLease(Slot(c), Generation(c), t, lease)
              /\ UNCHANGED <<now, createVars, acked, waitVars>>

ReleaseEvent(c) == /\ Exists(c)
                   /\ \E t \in 0 .. now : Release(Slot(c), Generation(c), t)
                   /\ UNCHANGED <<now, createVars, acked, waitVars>>

HolderStep(c) == (\E st \in SetStates : Set(c, st)) \/ Refresh(c) \/ ReleaseEvent(c)

\* status()
Status(c) == IF meta[Slot(c)].generation # Generation(c) THEN "expired"
             ELSE meta[Slot(c)].state

-----------------------------------------------------------------------------
(* wait()                                                                  *)

WaitStart(w, c) == /\ wpc[w] = "idle"
                   /\ Exists(c)
                   /\ wpc' = [wpc EXCEPT ![w] = "snap"]
                   /\ target' = [target EXCEPT ![w] = c]
                   /\ UNCHANGED <<slotVars, now, createVars, acked, last, told>>

Return(w, what) == /\ wpc' = [wpc EXCEPT ![w] = "done"]
                   /\ told' = [told EXCEPT ![w] = what]
                   /\ last' = [last EXCEPT ![w] = 0]
                   /\ UNCHANGED <<slotVars, now, createVars, acked, target>>

\* The metadata decide; with a timeout of zero they are looked at once.
Snapshot(w) ==
  /\ wpc[w] \in {"snap", "final"}
  /\ LET st == Status(target[w])
     IN  \/ st # "created" /\ Return(w, st)
         \/ /\ st = "created"
            /\ wpc[w] = "final" \/ Timeout[w] = "zero"
            /\ Return(w, "timeout")
         \/ /\ st = "created"
            /\ wpc[w] = "snap" /\ Timeout[w] # "zero"
            /\ wpc' = [wpc EXCEPT ![w] = "read"]
            /\ UNCHANGED <<slotVars, now, createVars, acked, target, last, told>>

\* The entries XREAD returns: kept, and after the last one read.
Fresh(w) == {i \in Kept(Slot(target[w])) : i > last[w]}

\* Mutant of Decides: an ended state decides whatever generation ended.
DecidesAnyGeneration(c, e) == e.generation > Generation(c) \/ e.state \in Outcomes

\* An entry that ends a wait for c: of a newer event, or of the end of c.
Decides(c, e) == \/ e.generation > Generation(c)
                 \/ e.generation = Generation(c) /\ e.state \in Outcomes

Decisive(w) == {i \in Fresh(w) : Decides(target[w], log[Slot(target[w])][i])}

Read(w) ==
  LET c == target[w]
      entries == log[Slot(c)]
  IN  /\ wpc[w] = "read"
      /\ Fresh(w) # {}
      /\ \/ \E i \in Decisive(w) :
              /\ \A j \in Decisive(w) : i <= j
              /\ Return(w, IF entries[i].generation > Generation(c) THEN "expired"
                           ELSE entries[i].state)
         \/ /\ Decisive(w) = {}
            /\ wpc' = [wpc EXCEPT ![w] = "snap"]
            /\ last' = [last EXCEPT ![w] = Len(entries)]
            /\ UNCHANGED <<slotVars, now, createVars, acked, target, told>>

\* Mutant of TimedOut: wait() tries again instead of giving up.
TimedOutAgain(w) == /\ wpc[w] = "read"
                    /\ Timeout[w] = "some"
                    /\ wpc' = [wpc EXCEPT ![w] = "snap"]
                    /\ UNCHANGED <<slotVars, now, createVars, acked, target, last, told>>

\* The deadline passed before XREAD, or XREAD came back empty.
TimedOut(w) == /\ wpc[w] = "read"
               /\ Timeout[w] = "some"
               /\ wpc' = [wpc EXCEPT ![w] = "final"]
               /\ UNCHANGED <<slotVars, now, createVars, acked, target, last, told>>

WaitStep(w) == Snapshot(w) \/ Read(w) \/ TimedOut(w)

-----------------------------------------------------------------------------
Tick == /\ now < MaxTime
        /\ now' = now + 1
        /\ UNCHANGED <<slotVars, createVars, acked, waitVars>>

Next == \/ \E c \in Creates : CreateStep(c) \/ HolderStep(c)
        \/ \E w \in Waits : (\E c \in Creates : WaitStart(w, c)) \/ WaitStep(w)
        \/ Tick

Spec == Init /\ [][Next]_vars

\* A thread inside create() or wait() is scheduled; holders owe nothing.
Fairness == /\ \A w \in Waits : WF_vars(WaitStep(w))
            /\ \A c \in Creates : WF_vars(ReadClock(c) \/ Claimed(c) \/ Refused(c))

FairSpec == Spec /\ Fairness

-----------------------------------------------------------------------------
\* "Identity is (slot, generation)": no two events share both.
UniqueIdentity ==
  \A c, d \in Creates : c # d /\ Exists(c) => handle[c] # handle[d]

\* The stream says how each event ended: the outcomes written for c.
Written(c) == {st \in Outcomes : \E i \in 1 .. Len(log[Slot(c)]) :
                                   log[Slot(c)][i] = Note(Generation(c), st)}

\* Whatever wait() tells is true of its own event, though slot and stream are
\* shared with older and newer ones: an outcome is one the event was given,
\* and "expired" means that a newer event has the slot.
WaitHonest ==
  \A w \in Waits :
    /\ told[w] \in Outcomes => told[w] \in Written(target[w])
    /\ told[w] = "expired" => Status(target[w]) = "expired"

\* An event ends once: two waiters never hear different outcomes, and if one
\* holder's set() returned, they all hear that state.
OneOutcome ==
  /\ \A c \in Creates : \A st \in Written(c) :
       /\ Written(c) = {st}
       /\ acked[c] # "none" => acked[c] = st
  /\ \A c \in Creates : Exists(c) /\ acked[c] # "none" => acked[c] \in Written(c)

\* No wakeup is lost between the snapshot and XREAD, or to the trimming of
\* the stream: a waiter that would block waits for an event still active.
NoLostWakeup ==
  \A w \in Waits : wpc[w] = "read" /\ Decisive(w) = {} => Status(target[w]) = "created"

Rank(st) == IF st = "created" THEN 0 ELSE IF st = "expired" THEN 2 ELSE 1

MovesForward(c) == \/ Status(c)' = Status(c)
                   \/ Rank(Status(c)) < Rank(Status(c)')

\* What status() shows of an event moves forward only: an ended event is
\* never active again, and changes its outcome for "expired" alone.
StatusForward == [][\A c \in Creates : Exists(c) => MovesForward(c)]_vars

\* An event nobody set loses its lease only when the lease last written has
\* run out, and an ended event its slot only after its retention or release.
NotTakenEarly ==
  [][\A c \in Creates : Exists(c) =>
       /\ Status(c) = "created" /\ Status(c)' # "created" /\ acked'[c] = "none" =>
            meta[Slot(c)].leaseUntil <= now
       /\ Status(c) \in Outcomes /\ Status(c)' = "expired" =>
            meta[Slot(c)].reusableAt <= now]_vars

\* A wait whose event ended or lost its slot ends, even without a timeout;
\* one with a timeout ends whatever happens to its event.
WaitsEnd ==
  \A w \in Waits :
    /\ wpc[w] \in Waiting /\ Status(target[w]) # "created" ~> wpc[w] = "done"
    /\ wpc[w] \in Waiting /\ Timeout[w] # "none" ~> wpc[w] = "done"

-----------------------------------------------------------------------------
\* The events as EventPromise sees them: how each ended, and which of them
\* lost their slot.
OutcomeView == [c \in Creates |-> IF ~Exists(c) THEN "unborn"
                                 ELSE IF Written(c) = {} THEN "open"
                                 ELSE CHOOSE st \in Written(c) : TRUE]
RecycledView == {c \in Creates : Exists(c) /\ Status(c) = "expired"}

Promise == INSTANCE EventPromise WITH
  Events <- Creates,
  Waiters <- Waits,
  Outcomes <- TerminalStates,
  Impatient <- {w \in Waits : Timeout[w] # "none"},
  outcome <- OutcomeView,
  recycled <- RecycledView,
  asked <- target,
  told <- told

\* Each step of a process is a step of EventPromise, or none.
RefinesEventPromise == Promise!Spec
=============================================================================
