--------------------------- MODULE RpcEventProofs ---------------------------
(***************************************************************************)
(* Theorems about RpcEvent and RpcEventScan, for every pool, stream        *)
(* length, clock bound, and any number of creates and waits.               *)
(***************************************************************************)
EXTENDS RpcEventScan, TLAPS

USE EventAssumption, SlotsAssumption

-----------------------------------------------------------------------------
(* A slot by itself: the entries q of its stream and its metadata m.       *)

\* Along a stream generations do not decrease, and a generation has at most
\* two entries: it is created, then it ends.
Ordered(q) == \A i, j \in 1 .. Len(q) : i < j =>
                /\ q[i].generation <= q[j].generation
                /\ q[i].generation = q[j].generation =>
                     q[i].state = "created" /\ q[j].state \in Outcomes

\* The metadata are what the last entry says.
Agrees(q, m) == /\ Len(q) = 0 <=> m.generation = 0
                /\ Len(q) > 0 => q[Len(q)] = Note(m.generation, m.state)

\* What a script may do to a slot: nothing but move its times, end its active
\* event, open the next one, or both.
Touches(q, m, q2, m2) == q2 = q /\ m2.generation = m.generation /\ m2.state = m.state

Ends(q, m, q2, m2, st) ==
  /\ m.generation > 0
  /\ m.state = "created"
  /\ q2 = Append(q, Note(m.generation, st))
  /\ m2.generation = m.generation
  /\ m2.state = st

Opens(q, m, q2, m2) ==
  /\ m.generation = 0 \/ m.state \in Outcomes
  /\ q2 = Append(q, Note(m.generation + 1, "created"))
  /\ m2.generation = m.generation + 1
  /\ m2.state = "created"

EndsAndOpens(q, m, q2, m2) ==
  /\ m.generation > 0
  /\ m.state = "created"
  /\ q2 = Append(Append(q, Note(m.generation, "abandoned")), Note(m.generation + 1, "created"))
  /\ m2.generation = m.generation + 1
  /\ m2.state = "created"

Advances(q, m, q2, m2) == \/ Touches(q, m, q2, m2)
                          \/ \E st \in Outcomes : Ends(q, m, q2, m2, st)
                          \/ Opens(q, m, q2, m2)
                          \/ EndsAndOpens(q, m, q2, m2)

\* Appending keeps what is there.
LEMMA AppendFacts ==
  ASSUME NEW S, NEW q \in Seq(S), NEW e \in S
  PROVE  /\ Append(q, e) \in Seq(S)
         /\ Len(Append(q, e)) = Len(q) + 1
         /\ \A i \in 1 .. Len(q) : Append(q, e)[i] = q[i]
         /\ Append(q, e)[Len(q) + 1] = e
<1> QED OBVIOUS

\* An element of a stream is an entry.
LEMMA EntryType ==
  ASSUME NEW q \in Seq(Entry), NEW i \in 1 .. Len(q)
  PROVE  /\ q[i] \in Entry
         /\ q[i].generation \in Nat \ {0}
         /\ q[i].state \in States
<1>1. q[i] \in Entry
  OBVIOUS
<1> QED BY <1>1 DEF Entry

\* An entry as the scripts write it.
LEMMA NoteType ==
  ASSUME NEW g \in Nat \ {0}, NEW st \in States
  PROVE  /\ Note(g, st) \in Entry
         /\ Note(g, st).generation = g
         /\ Note(g, st).state = st
<1> QED BY DEF Note, Entry

\* "created" is not an outcome.
LEMMA StatesDiffer == /\ "created" \notin Outcomes
                      /\ "created" \in States
                      /\ Outcomes \subseteq States
                      /\ "expired" \notin States
                      /\ "abandoned" \in Outcomes
                      /\ TerminalStates \subseteq Outcomes
<1> QED BY DEF Outcomes, States, TerminalStates

\* The last entry of a well-formed stream is of the slot's generation, and
\* no entry is of a later one.
LEMMA LastIsGreatest ==
  ASSUME NEW q \in Seq(Entry), NEW m \in Meta, Ordered(q), Agrees(q, m),
         NEW i \in 1 .. Len(q)
  PROVE  q[i].generation <= m.generation
<1>1. CASE i = Len(q)
  BY <1>1, EntryType DEF Agrees, Note, Meta
<1>2. CASE i < Len(q)
  <2>1. Len(q) \in 1 .. Len(q)
    OBVIOUS
  <2>2. q[i].generation <= q[Len(q)].generation
    BY <1>2, <2>1 DEF Ordered
  <2> QED BY <2>1, <2>2 DEF Agrees, Note
<1> QED BY <1>1, <1>2

\* Appending an entry keeps a stream ordered if the entry may follow each of
\* those before it.
LEMMA AppendOrdered ==
  ASSUME NEW q \in Seq(Entry), Ordered(q), NEW e \in Entry,
         \A i \in 1 .. Len(q) :
           /\ q[i].generation <= e.generation
           /\ q[i].generation = e.generation =>
                q[i].state = "created" /\ e.state \in Outcomes
  PROVE  Ordered(Append(q, e))
<1> DEFINE q2 == Append(q, e)
<1>1. /\ q2 \in Seq(Entry)
      /\ Len(q2) = Len(q) + 1
      /\ Len(q) \in Nat
      /\ \A i \in 1 .. Len(q) : q2[i] = q[i]
      /\ q2[Len(q) + 1] = e
  BY AppendFacts
<1> HIDE DEF q2
<1>2. ASSUME NEW i \in 1 .. Len(q2), NEW j \in 1 .. Len(q2), i < j
      PROVE  /\ q2[i].generation <= q2[j].generation
             /\ q2[i].generation = q2[j].generation =>
                  q2[i].state = "created" /\ q2[j].state \in Outcomes
  <2>1. i \in 1 .. Len(q) /\ q2[i] = q[i]
    BY <1>1, <1>2
  <2>2. CASE j <= Len(q)
    <3>1. j \in 1 .. Len(q) /\ q2[j] = q[j]
      BY <1>1, <2>2
    <3> QED BY <1>2, <2>1, <3>1 DEF Ordered
  <2>3. CASE j = Len(q) + 1
    <3>1. q2[j] = e
      BY <1>1, <2>3
    <3> QED BY <2>1, <3>1
  <2> QED BY <1>1, <2>2, <2>3
<1> QED BY <1>2 DEF Ordered, q2

\* Ending the active event keeps a stream well formed.
LEMMA EndKeeps ==
  ASSUME NEW q \in Seq(Entry), NEW m \in Meta, Ordered(q), Agrees(q, m),
         NEW st \in Outcomes, m.generation > 0, m.state = "created",
         NEW m2 \in Meta, m2.generation = m.generation, m2.state = st
  PROVE  LET q2 == Append(q, Note(m.generation, st))
         IN  q2 \in Seq(Entry) /\ Ordered(q2) /\ Agrees(q2, m2)
<1>1. m.generation \in Nat \ {0} /\ st \in States
  BY StatesDiffer DEF Meta
<1>2. PICK e \in Entry : /\ e = Note(m.generation, st)
                         /\ e.generation = m.generation
                         /\ e.state = st
  BY <1>1, NoteType
<1>3. /\ Append(q, e) \in Seq(Entry)
      /\ Len(Append(q, e)) = Len(q) + 1
      /\ Append(q, e)[Len(q) + 1] = e
  BY AppendFacts
<1>4. Len(q) \in Nat /\ Len(q) > 0 /\ q[Len(q)] = Note(m.generation, "created")
  BY <1>1 DEF Agrees
<1>5. Agrees(Append(q, e), m2)
  BY <1>1, <1>2, <1>3, <1>4 DEF Agrees
<1>6. ASSUME NEW i \in 1 .. Len(q)
      PROVE  /\ q[i].generation <= e.generation
             /\ q[i].generation = e.generation =>
                  q[i].state = "created" /\ e.state \in Outcomes
  <2>1. q[i].generation <= m.generation
    BY LastIsGreatest
  <2>2. q[Len(q)].generation = m.generation /\ q[Len(q)].state = "created"
    BY <1>1, <1>4, NoteType, StatesDiffer
  <2>3. CASE i < Len(q)
    BY <1>2, <1>4, <2>1, <2>2, <2>3, StatesDiffer DEF Ordered
  <2> QED BY <1>2, <1>4, <2>1, <2>2, <2>3
<1>7. Ordered(Append(q, e))
  BY <1>6, AppendOrdered
<1> QED BY <1>2, <1>3, <1>5, <1>7

\* Opening the next event keeps a stream well formed.
LEMMA OpenKeeps ==
  ASSUME NEW q \in Seq(Entry), NEW m \in Meta, Ordered(q), Agrees(q, m),
         NEW m2 \in Meta, m2.generation = m.generation + 1, m2.state = "created"
  PROVE  LET q2 == Append(q, Note(m.generation + 1, "created"))
         IN  q2 \in Seq(Entry) /\ Ordered(q2) /\ Agrees(q2, m2)
<1>1. m.generation \in Nat
  BY DEF Meta
<1>2. PICK e \in Entry : /\ e = Note(m.generation + 1, "created")
                         /\ e.generation = m.generation + 1
                         /\ e.state = "created"
  BY <1>1, NoteType, StatesDiffer
<1>3. /\ Append(q, e) \in Seq(Entry)
      /\ Len(Append(q, e)) = Len(q) + 1
      /\ Append(q, e)[Len(q) + 1] = e
  BY AppendFacts
<1>4. Agrees(Append(q, e), m2)
  BY <1>1, <1>2, <1>3 DEF Agrees
<1>5. ASSUME NEW i \in 1 .. Len(q)
      PROVE  q[i].generation < e.generation
  <2>1. q[i].generation <= m.generation /\ q[i].generation \in Nat
    BY LastIsGreatest, EntryType
  <2> QED BY <1>1, <1>2, <2>1
<1>6. \A i \in 1 .. Len(q) : q[i].generation \in Nat
  BY EntryType
<1>7. Ordered(Append(q, e))
  <2>1. e.generation \in Nat
    BY <1>1, <1>2
  <2>2. \A i \in 1 .. Len(q) : q[i].generation <= e.generation /\ q[i].generation # e.generation
    BY <1>5, <1>6, <2>1
  <2> QED BY <2>2, AppendOrdered
<1> QED BY <1>2, <1>3, <1>4, <1>7

\* Whatever a script does, it keeps a slot well formed, its generation does
\* not go back, and its entries stay.
LEMMA AdvanceKeeps ==
  ASSUME NEW q \in Seq(Entry), NEW m \in Meta, Ordered(q), Agrees(q, m),
         NEW q2, NEW m2 \in Meta, Advances(q, m, q2, m2)
  PROVE  /\ q2 \in Seq(Entry)
         /\ Ordered(q2)
         /\ Agrees(q2, m2)
         /\ m.generation <= m2.generation
         /\ Len(q) <= Len(q2)
         /\ \A i \in 1 .. Len(q) : q2[i] = q[i]
<1>0. m.generation \in Nat /\ Len(q) \in Nat
  BY DEF Meta
<1>1. CASE Touches(q, m, q2, m2)
  BY <1>0, <1>1 DEF Touches, Agrees
<1>2. ASSUME NEW st \in Outcomes, Ends(q, m, q2, m2, st)
      PROVE  /\ q2 \in Seq(Entry) /\ Ordered(q2) /\ Agrees(q2, m2)
             /\ m.generation <= m2.generation
             /\ Len(q) <= Len(q2) /\ \A i \in 1 .. Len(q) : q2[i] = q[i]
  <2>1. q2 \in Seq(Entry) /\ Ordered(q2) /\ Agrees(q2, m2)
    BY <1>2, EndKeeps DEF Ends
  <2>2. Note(m.generation, st) \in Entry
    BY <1>0, <1>2, NoteType, StatesDiffer DEF Ends
  <2> QED BY <1>0, <1>2, <2>1, <2>2, AppendFacts DEF Ends
<1>3. CASE Opens(q, m, q2, m2)
  <2>1. q2 \in Seq(Entry) /\ Ordered(q2) /\ Agrees(q2, m2)
    BY <1>3, OpenKeeps DEF Opens
  <2>2. PICK e \in Entry : q2 = Append(q, e)
    BY <1>0, <1>3, NoteType, StatesDiffer DEF Opens
  <2>3. Len(q2) = Len(q) + 1 /\ \A i \in 1 .. Len(q) : q2[i] = q[i]
    BY <2>2, AppendFacts
  <2> QED BY <1>0, <1>3, <2>1, <2>3 DEF Opens
<1>4. CASE EndsAndOpens(q, m, q2, m2)
  <2>1. PICK m1 \in Meta : m1.generation = m.generation /\ m1.state = "abandoned"
    <3>1. Ended(m.generation, "abandoned", 0) \in Meta
      BY <1>0, StatesDiffer DEF Ended, Meta
    <3> QED BY <3>1 DEF Ended
  <2>2. PICK q1 \in Seq(Entry) : /\ q1 = Append(q, Note(m.generation, "abandoned"))
                                 /\ Ordered(q1)
                                 /\ Agrees(q1, m1)
    BY <1>4, <2>1, EndKeeps, StatesDiffer DEF EndsAndOpens
  <2>3. /\ q2 = Append(q1, Note(m1.generation + 1, "created"))
        /\ m2.generation = m1.generation + 1
        /\ m2.state = "created"
    BY <1>4, <2>1, <2>2 DEF EndsAndOpens
  <2>4. q2 \in Seq(Entry) /\ Ordered(q2) /\ Agrees(q2, m2)
    BY <2>2, <2>3, OpenKeeps
  <2>5. /\ Note(m.generation, "abandoned") \in Entry
        /\ Note(m1.generation + 1, "created") \in Entry
    <3>1. m.generation \in Nat \ {0} /\ m1.generation + 1 \in Nat \ {0}
      BY <1>0, <1>4, <2>1 DEF EndsAndOpens
    <3> QED BY <3>1, NoteType, StatesDiffer
  <2>6. Len(q1) = Len(q) + 1 /\ \A i \in 1 .. Len(q) : q1[i] = q[i]
    BY <2>2, <2>5, AppendFacts
  <2>7. Len(q2) = Len(q1) + 1 /\ \A i \in 1 .. Len(q1) : q2[i] = q1[i]
    BY <2>3, <2>5, AppendFacts
  <2> QED BY <1>0, <2>1, <2>3, <2>4, <2>6, <2>7
<1> QED BY <1>1, <1>2, <1>3, <1>4 DEF Advances

-----------------------------------------------------------------------------
(* The inductive invariant.                                                *)

SlotInv == \A s \in Slots : Ordered(log[s]) /\ Agrees(log[s], meta[s])

\* A create that returned holds a generation its slot has reached.
HandleInv == \A c \in Creates :
               /\ Exists(c) <=> cpc[c] = "done"
               /\ Generation(c) <= meta[Slot(c)].generation

\* Every generation a slot has reached was given to a create.
CoverInv == \A s \in Slots : \A g \in 1 .. meta[s].generation :
              \E c \in Creates : handle[c] = [slot |-> s, generation |-> g]

ClockInv == \A c \in Creates : seen[c] <= now

AckInv == \A c \in Creates :
            acked[c] # "none" => Exists(c) /\ acked[c] \in Written(c)

WaitInv == \A w \in Waits :
             /\ wpc[w] = "idle" => target[w] = NoEvent
             /\ wpc[w] # "idle" => target[w] \in Creates /\ Exists(target[w])
             /\ told[w] = "none" <=> wpc[w] # "done"
             /\ wpc[w] = "final" => Timeout[w] = "some"

\* The last entry a waiter read did not decide.
ReadInv == \A w \in Waits :
             /\ wpc[w] \notin Waiting => last[w] = 0
             /\ wpc[w] \in Waiting =>
                  /\ last[w] <= Len(log[Slot(target[w])])
                  /\ last[w] > 0 => ~Decides(target[w], log[Slot(target[w])][last[w]])

IInv == /\ TypeOK
        /\ SlotInv
        /\ HandleInv
        /\ CoverInv
        /\ UniqueIdentity
        /\ ClockInv
        /\ AckInv
        /\ WaitInv
        /\ ReadInv
        /\ WaitHonest

\* A step of the data: what each slot may do in one step of the system.
SlotsAdvance == \A s \in Slots : Advances(log[s], meta[s], log'[s], meta'[s])

-----------------------------------------------------------------------------
(* What the steps do to the slots.                                         *)

\* The circular scan stays in the pool.
LEMMA ProbedType ==
  ASSUME TypeOK, NEW c \in Creates
  PROVE  Probed(c) \in Slots
<1>1. start[c] + offset[c] \in Nat /\ PoolSize \in Nat \ {0}
  BY DEF TypeOK, Slots
<1>2. \A a \in Nat, n \in Nat \ {0} : a % n \in 0 .. n - 1
  OBVIOUS
<1> QED BY <1>1, <1>2 DEF Probed, Slots

\* A handle names a slot of the pool.
LEMMA HolderType ==
  ASSUME TypeOK, NEW c \in Creates
  PROVE  Slot(c) \in Slots /\ Generation(c) \in Nat
<1> QED BY DEF TypeOK, Handle, Slot, Generation

\* A script that claims slot s opens its next event, and ends the active one
\* before if its lease ran out; the other slots are untouched.
LEMMA ClaimAdvances ==
  ASSUME TypeOK, NEW s \in Slots, NEW t \in Nat, NEW lease \in Nat, NEW r \in Nat,
         Claim(s, t, lease) \/ AbandonAndClaim(s, t, lease, r)
  PROVE  /\ meta' \in [Slots -> Meta]
         /\ meta'[s].generation = meta[s].generation + 1
         /\ \A u \in Slots \ {s} : meta'[u] = meta[u] /\ log'[u] = log[u]
         /\ \/ Opens(log[s], meta[s], log'[s], meta'[s])
            \/ EndsAndOpens(log[s], meta[s], log'[s], meta'[s])
         /\ SlotsAdvance
<1>1. meta \in [Slots -> Meta] /\ log \in [Slots -> Seq(Entry)]
  BY DEF TypeOK, SlotsTypeOK
<1>2. meta[s].generation \in Nat
  BY <1>1 DEF Meta
<1>3. Created(meta[s].generation + 1, t + lease) \in Meta
  BY <1>2, StatesDiffer DEF Created, Meta
<1>4. /\ meta' = [meta EXCEPT ![s] = Created(meta[s].generation + 1, t + lease)]
      /\ \A u \in Slots \ {s} : log'[u] = log[u]
  BY <1>1 DEF Claim, AbandonAndClaim
<1>5. /\ meta'[s].generation = meta[s].generation + 1
      /\ meta'[s].state = "created"
      /\ meta' \in [Slots -> Meta]
      /\ \A u \in Slots \ {s} : meta'[u] = meta[u]
  BY <1>1, <1>3, <1>4 DEF Created
<1>6. CASE Claim(s, t, lease)
  <2>1. Opens(log[s], meta[s], log'[s], meta'[s])
    BY <1>1, <1>5, <1>6 DEF Claim, Claimable, Opens
  <2> QED BY <1>4, <1>5, <2>1 DEF SlotsAdvance, Advances, Touches
<1>7. CASE AbandonAndClaim(s, t, lease, r)
  <2>1. EndsAndOpens(log[s], meta[s], log'[s], meta'[s])
    BY <1>1, <1>5, <1>7 DEF AbandonAndClaim, LeaseExpired, EndsAndOpens
  <2> QED BY <1>4, <1>5, <2>1 DEF SlotsAdvance, Advances, Touches
<1> QED BY <1>4, <1>5, <1>6, <1>7

\* A script that ends the active event of slot s does nothing else.
LEMMA EndAdvances ==
  ASSUME TypeOK, NEW s \in Slots, NEW st \in Outcomes, NEW reusable \in Nat,
         meta[s].generation > 0,
         meta[s].state = "created",
         meta' = [meta EXCEPT ![s] = Ended(meta[s].generation, st, reusable)],
         log' = [log EXCEPT ![s] = Append(@, Note(meta[s].generation, st))]
  PROVE  /\ meta' \in [Slots -> Meta]
         /\ meta'[s].generation = meta[s].generation
         /\ meta'[s].state = st
         /\ \A u \in Slots \ {s} : meta'[u] = meta[u] /\ log'[u] = log[u]
         /\ Ends(log[s], meta[s], log'[s], meta'[s], st)
         /\ SlotsAdvance
<1>1. meta \in [Slots -> Meta] /\ log \in [Slots -> Seq(Entry)]
  BY DEF TypeOK, SlotsTypeOK
<1>2. meta[s].generation \in Nat
  BY <1>1 DEF Meta
<1>3. Ended(meta[s].generation, st, reusable) \in Meta
  BY <1>2, StatesDiffer DEF Ended, Meta
<1>4. /\ meta' \in [Slots -> Meta]
      /\ meta'[s].generation = meta[s].generation
      /\ meta'[s].state = st
      /\ \A u \in Slots \ {s} : meta'[u] = meta[u] /\ log'[u] = log[u]
  BY <1>1, <1>3 DEF Ended
<1>5. Ends(log[s], meta[s], log'[s], meta'[s], st)
  BY <1>1, <1>4 DEF Ends
<1> QED BY <1>4, <1>5 DEF SlotsAdvance, Advances, Touches

\* Moving the times of a slot touches nothing else.
LEMMA TimesAdvance ==
  ASSUME TypeOK, NEW s \in Slots, NEW t \in Nat,
         \/ meta' = [meta EXCEPT ![s].leaseUntil = t]
         \/ meta' = [meta EXCEPT ![s].reusableAt = t],
         log' = log
  PROVE  /\ meta' \in [Slots -> Meta]
         /\ \A u \in Slots : /\ meta'[u].generation = meta[u].generation
                             /\ meta'[u].state = meta[u].state
         /\ SlotsAdvance
<1>1. meta \in [Slots -> Meta]
  BY DEF TypeOK, SlotsTypeOK
<1>2. /\ meta' \in [Slots -> Meta]
      /\ \A u \in Slots : /\ meta'[u].generation = meta[u].generation
                          /\ meta'[u].state = meta[u].state
  <2>1. CASE meta' = [meta EXCEPT ![s].leaseUntil = t]
    BY <1>1, <2>1 DEF Meta
  <2>2. CASE meta' = [meta EXCEPT ![s].reusableAt = t]
    BY <1>1, <2>2 DEF Meta
  <2> QED BY <2>1, <2>2
<1> QED BY <1>2 DEF SlotsAdvance, Advances, Touches

\* A step that runs no script lets every slot advance by doing nothing.
LEMMA SameAdvance ==
  ASSUME UNCHANGED <<meta, log>>
  PROVE  SlotsAdvance
<1> QED BY DEF SlotsAdvance, Advances, Touches

\* Every step of the system lets each slot advance, and keeps the types of
\* the metadata.
LEMMA StepAdvances ==
  ASSUME TypeOK, HandleInv, [Next]_vars
  PROVE  meta' \in [Slots -> Meta] /\ SlotsAdvance
<1>0. meta \in [Slots -> Meta] /\ now \in Nat /\ \A c \in Creates : seen[c] \in Nat
  BY DEF TypeOK, SlotsTypeOK
<1>a. ASSUME UNCHANGED <<meta, log>>
      PROVE  meta' \in [Slots -> Meta] /\ SlotsAdvance
  BY <1>0, <1>a, SameAdvance
<1>b. \A c \in Creates : Retention[c] \in Nat /\ Lease[c] \in Nat
  OBVIOUS
<1>1. ASSUME NEW c \in Creates, CreateStart(c) \/ ReadClock(c)
      PROVE  UNCHANGED <<meta, log>>
  BY <1>1 DEF CreateStart, ReadClock, NextSlot, slotVars
<1>2. ASSUME NEW c \in Creates, Claimed(c)
      PROVE  meta' \in [Slots -> Meta] /\ SlotsAdvance
  BY <1>2, <1>0, <1>b, ProbedType, ClaimAdvances DEF Claimed
<1>3. ASSUME NEW c \in Creates, Refused(c)
      PROVE  meta' \in [Slots -> Meta] /\ SlotsAdvance
  <2> DEFINE s == Probed(c)
  <2>1. s \in Slots /\ seen[c] + Retention[c] \in Nat
    BY <1>0, <1>b, ProbedType
  <2>2. CASE Refuse(s, seen[c])
    BY <1>a, <2>2 DEF Refuse, slotVars
  <2>3. CASE Abandon(s, seen[c], Retention[c])
    <3> HIDE DEF s
    <3> QED BY <2>1, <2>3, EndAdvances, StatesDiffer DEF Abandon, LeaseExpired
  <2> QED BY <1>3, <2>2, <2>3 DEF Refused
<1>4. ASSUME NEW c \in Creates, NEW st \in SetStates, Set(c, st)
      PROVE  meta' \in [Slots -> Meta] /\ SlotsAdvance
  <2>1. PICK t \in 0 .. now : Complete(Slot(c), Generation(c), st, t, Retention[c])
    BY <1>4 DEF Set
  <2>2. /\ Slot(c) \in Slots
        /\ t + Retention[c] \in Nat
        /\ st \in Outcomes
    BY <1>0, <1>b, HolderType, StatesDiffer
  <2>3. /\ meta[Slot(c)].generation = Generation(c)
        /\ meta[Slot(c)].generation > 0
        /\ meta[Slot(c)].state = "created"
    BY <1>4, <2>1 DEF Set, Exists, Complete, Active
  <2> QED BY <2>1, <2>2, <2>3, EndAdvances DEF Complete
<1>5. ASSUME NEW c \in Creates, Refresh(c)
      PROVE  meta' \in [Slots -> Meta] /\ SlotsAdvance
  <2>1. PICK t \in 0 .. now, lease \in RefreshLeases :
          RefreshLease(Slot(c), Generation(c), t, lease)
    BY <1>5 DEF Refresh
  <2>2. t + lease \in Nat /\ Slot(c) \in Slots
    BY <1>0, HolderType
  <2> QED BY <2>1, <2>2, TimesAdvance DEF RefreshLease
<1>6. ASSUME NEW c \in Creates, ReleaseEvent(c)
      PROVE  meta' \in [Slots -> Meta] /\ SlotsAdvance
  <2>1. PICK t \in 0 .. now : Release(Slot(c), Generation(c), t)
    BY <1>6 DEF ReleaseEvent
  <2>2. t \in Nat /\ Slot(c) \in Slots
    BY <1>0, HolderType
  <2> QED BY <2>1, <2>2, TimesAdvance DEF Release
<1>7. ASSUME NEW w \in Waits, NEW c \in Creates, WaitStart(w, c)
      PROVE  UNCHANGED <<meta, log>>
  BY <1>7 DEF WaitStart, slotVars
<1>8. ASSUME NEW w \in Waits, WaitStep(w)
      PROVE  UNCHANGED <<meta, log>>
  BY <1>8 DEF WaitStep, Snapshot, Read, TimedOut, Return, slotVars
<1>9. ASSUME Tick
      PROVE  UNCHANGED <<meta, log>>
  BY <1>9 DEF Tick, slotVars
<1>10. ASSUME UNCHANGED vars
       PROVE  UNCHANGED <<meta, log>>
  BY <1>10 DEF vars, slotVars
<1> QED BY <1>a, <1>1, <1>2, <1>3, <1>4, <1>5, <1>6, <1>7, <1>8, <1>9, <1>10
        DEF Next, CreateStep, HolderStep

\* A step replaces one slot's stream, or none.
LEMMA OneStream ==
  ASSUME [Next]_vars
  PROVE  log' = log \/ \E s, q : log' = [log EXCEPT ![s] = q]
<1>1. ASSUME NEW c \in Creates, CreateStep(c)
      PROVE  log' = log \/ \E s, q : log' = [log EXCEPT ![s] = q]
  <2>1. CASE CreateStart(c) \/ ReadClock(c)
    BY <2>1 DEF CreateStart, ReadClock, NextSlot, slotVars
  <2>2. CASE Claimed(c)
    BY <2>2 DEF Claimed, Claim, AbandonAndClaim
  <2>3. CASE Refused(c)
    BY <2>3 DEF Refused, Refuse, Abandon, slotVars
  <2> QED BY <1>1, <2>1, <2>2, <2>3 DEF CreateStep
<1>2. ASSUME NEW c \in Creates, HolderStep(c)
      PROVE  log' = log \/ \E s, q : log' = [log EXCEPT ![s] = q]
  BY <1>2 DEF HolderStep, Set, Refresh, ReleaseEvent, Complete, RefreshLease, Release
<1>3. ASSUME NEW w \in Waits, WaitStep(w) \/ \E c \in Creates : WaitStart(w, c)
      PROVE  log' = log
  BY <1>3 DEF WaitStart, WaitStep, Snapshot, Read, TimedOut, Return, slotVars
<1>4. CASE Tick \/ UNCHANGED vars
  BY <1>4 DEF Tick, vars, slotVars
<1> QED BY <1>1, <1>2, <1>3, <1>4 DEF Next

\* Each step keeps the slots well formed; generations and streams only grow.
LEMMA SlotStep ==
  ASSUME TypeOK, SlotInv, HandleInv, [Next]_vars
  PROVE  /\ meta' \in [Slots -> Meta]
         /\ log' \in [Slots -> Seq(Entry)]
         /\ SlotInv'
         /\ \A s \in Slots :
              /\ meta[s].generation <= meta'[s].generation
              /\ Len(log[s]) <= Len(log'[s])
              /\ \A i \in 1 .. Len(log[s]) : log'[s][i] = log[s][i]
<1>1. meta' \in [Slots -> Meta] /\ SlotsAdvance
  BY StepAdvances
<1>2. meta \in [Slots -> Meta] /\ log \in [Slots -> Seq(Entry)]
  BY DEF TypeOK, SlotsTypeOK
<1>3. ASSUME NEW s \in Slots
      PROVE  /\ log'[s] \in Seq(Entry)
             /\ Ordered(log'[s]) /\ Agrees(log'[s], meta'[s])
             /\ meta[s].generation <= meta'[s].generation
             /\ Len(log[s]) <= Len(log'[s])
             /\ \A i \in 1 .. Len(log[s]) : log'[s][i] = log[s][i]
  <2>1. PICK q \in Seq(Entry), m \in Meta, m2 \in Meta :
          q = log[s] /\ m = meta[s] /\ m2 = meta'[s]
    BY <1>1, <1>2
  <2>2. Ordered(q) /\ Agrees(q, m) /\ Advances(q, m, log'[s], m2)
    BY <1>1, <2>1 DEF SlotInv, SlotsAdvance
  <2> QED BY <2>1, <2>2, AdvanceKeeps
<1>4. log' \in [Slots -> Seq(Entry)]
  BY <1>2, <1>3, OneStream
<1>5. SlotInv'
  BY <1>3 DEF SlotInv
<1> QED BY <1>1, <1>3, <1>4, <1>5

-----------------------------------------------------------------------------
(* Types.                                                                  *)

\* The empty pool has the right types.
LEMMA InitType == Init => TypeOK
<1> SUFFICES ASSUME Init PROVE TypeOK
  OBVIOUS
<1>1. 0 \in Slots /\ 0 \in 0 .. MaxTime
  BY DEF Slots
<1>2. SlotsTypeOK
  <2>1. NoMeta \in Meta
    BY StatesDiffer DEF NoMeta, Meta
  <2>2. <<>> \in Seq(Entry)
    OBVIOUS
  <2> QED BY <2>1, <2>2 DEF Init, SlotsInit, SlotsTypeOK
<1> QED BY <1>1, <1>2 DEF Init, TypeOK, Handle, Waiting

\* Each step keeps the types.
LEMMA StepType ==
  ASSUME TypeOK, SlotInv, HandleInv, WaitInv, [Next]_vars
  PROVE  TypeOK'
<1>0. meta' \in [Slots -> Meta] /\ log' \in [Slots -> Seq(Entry)]
  BY SlotStep
<1>s. ASSUME counter' \in -1 .. PoolSize - 1
      PROVE  SlotsTypeOK'
  BY <1>0, <1>s DEF SlotsTypeOK
<1>c. counter \in -1 .. PoolSize - 1
  BY DEF TypeOK, SlotsTypeOK
<1>1. ASSUME NEW c \in Creates, CreateStart(c)
      PROVE  TypeOK'
  <2>1. counter' \in Slots
    BY <1>1, <1>c DEF CreateStart, NextSlot, Slots
  <2>2. SlotsTypeOK'
    BY <1>s, <2>1 DEF Slots
  <2> QED BY <1>1, <2>1, <2>2 DEF CreateStart, TypeOK, waitVars
<1>2. ASSUME NEW c \in Creates, ReadClock(c)
      PROVE  TypeOK'
  <2>1. SlotsTypeOK'
    BY <1>2, <1>c, <1>s DEF ReadClock, slotVars
  <2> QED BY <1>2, <2>1 DEF ReadClock, TypeOK, waitVars
<1>3. ASSUME NEW c \in Creates, Claimed(c)
      PROVE  TypeOK'
  <2>1. SlotsTypeOK'
    BY <1>3, <1>c, <1>s DEF Claimed, Claim, AbandonAndClaim
  <2>2. Probed(c) \in Slots /\ 0 \in Slots /\ 0 \in 0 .. MaxTime
    BY ProbedType DEF Slots
  <2>3. [slot |-> Probed(c), generation |-> meta'[Probed(c)].generation] \in Handle
    BY <1>0, <2>2 DEF Handle, Meta
  <2> QED BY <1>3, <2>1, <2>2, <2>3 DEF Claimed, LeaveCreate, TypeOK, waitVars
<1>4. ASSUME NEW c \in Creates, Refused(c)
      PROVE  TypeOK'
  <2>1. SlotsTypeOK'
    BY <1>4, <1>c, <1>s DEF Refused, Refuse, Abandon, slotVars
  <2>2. 0 \in Slots /\ 0 \in 0 .. MaxTime
    BY DEF Slots
  <2>3. offset[c] + 1 < PoolSize => offset[c] + 1 \in Slots
    BY DEF TypeOK, Slots
  <2> QED BY <1>4, <2>1, <2>2, <2>3 DEF Refused, LeaveCreate, TypeOK, waitVars
<1>5. ASSUME NEW c \in Creates, HolderStep(c)
      PROVE  TypeOK'
  <2>1. SlotsTypeOK'
    BY <1>5, <1>c, <1>s
       DEF HolderStep, Set, Refresh, ReleaseEvent, Complete, RefreshLease, Release
  <2>2. \A st \in SetStates : st \in TerminalStates
    OBVIOUS
  <2>3. CASE \E st \in SetStates : Set(c, st)
    BY <2>1, <2>2, <2>3 DEF Set, TypeOK, createVars, waitVars
  <2>4. CASE Refresh(c) \/ ReleaseEvent(c)
    BY <2>1, <2>4 DEF Refresh, ReleaseEvent, TypeOK, createVars, waitVars
  <2> QED BY <1>5, <2>3, <2>4 DEF HolderStep
<1>6. ASSUME NEW w \in Waits, NEW c \in Creates, WaitStart(w, c)
      PROVE  TypeOK'
  <2>1. SlotsTypeOK'
    BY <1>6, <1>c, <1>s DEF WaitStart, slotVars
  <2> QED BY <1>6, <2>1 DEF WaitStart, TypeOK, createVars, Waiting
<1>7. ASSUME NEW w \in Waits, WaitStep(w)
      PROVE  TypeOK'
  <2>1. SlotsTypeOK'
    BY <1>7, <1>c, <1>s DEF WaitStep, Snapshot, Read, TimedOut, Return, slotVars
  <2>2. target[w] \in Creates
    BY <1>7 DEF WaitStep, Snapshot, Read, TimedOut, WaitInv, TypeOK
  <2>3. Slot(target[w]) \in Slots
    BY <2>2, HolderType
  <2>4. ASSUME NEW what \in {"none", "expired", "timeout"} \cup Outcomes, Return(w, what)
        PROVE  TypeOK'
    BY <2>1, <2>4 DEF Return, TypeOK, createVars
  <2>5. ASSUME NEW label \in Waiting, wpc' = [wpc EXCEPT ![w] = label], last' \in [Waits -> Nat],
               UNCHANGED <<slotVars, now, createVars, acked, target, told>>
        PROVE  TypeOK'
    BY <2>1, <2>5 DEF TypeOK, createVars
  <2>6. last \in [Waits -> Nat]
    BY DEF TypeOK
  <2>7. CASE Snapshot(w)
    <3>1. Status(target[w]) \in {"expired", "created"} \cup Outcomes
      BY <2>3 DEF Status, TypeOK, SlotsTypeOK, Meta, States
    <3> QED BY <2>4, <2>5, <2>6, <2>7, <3>1 DEF Snapshot, Waiting
  <2>8. CASE Read(w)
    <3> DEFINE q == log[Slot(target[w])]
    <3>1. q \in Seq(Entry) /\ Len(q) \in Nat
      BY <2>3 DEF TypeOK, SlotsTypeOK
    <3>2. CASE Decisive(w) = {}
      <4>1. last' \in [Waits -> Nat]
        BY <2>6, <2>8, <3>1, <3>2 DEF Read
      <4> QED BY <2>5, <2>8, <3>2, <4>1 DEF Read, Waiting
    <3>3. CASE Decisive(w) # {}
      <4>1. PICK i \in Decisive(w) :
              Return(w, IF q[i].generation > Generation(target[w]) THEN "expired" ELSE q[i].state)
        BY <2>8, <3>3 DEF Read
      <4>2. Decides(target[w], q[i])
        BY <4>1 DEF Decisive
      <4> QED BY <2>4, <4>1, <4>2 DEF Decides
    <3> QED BY <3>2, <3>3
  <2>9. CASE TimedOut(w)
    BY <2>5, <2>6, <2>9 DEF TimedOut, Waiting
  <2> QED BY <1>7, <2>7, <2>8, <2>9 DEF WaitStep
<1>8. CASE Tick
  <2>1. SlotsTypeOK'
    BY <1>8, <1>c, <1>s DEF Tick, slotVars
  <2> QED BY <1>8, <2>1 DEF Tick, TypeOK, createVars, waitVars
<1>9. CASE UNCHANGED vars
  <2>1. SlotsTypeOK'
    BY <1>9, <1>c, <1>s DEF vars, slotVars
  <2> QED BY <1>9, <2>1 DEF vars, TypeOK, createVars, waitVars
<1> QED BY <1>1, <1>2, <1>3, <1>4, <1>5, <1>6, <1>7, <1>8, <1>9 DEF Next, CreateStep

-----------------------------------------------------------------------------
(* Handles: what create() gives out.                                       *)

\* What a successful probe does: the slot's generation goes up by one, and
\* the create that had no event gets it.
LEMMA ClaimedFacts ==
  ASSUME TypeOK, HandleInv, NEW c \in Creates, Claimed(c)
  PROVE  /\ Probed(c) \in Slots
         /\ meta'[Probed(c)].generation = meta[Probed(c)].generation + 1
         /\ \A u \in Slots \ {Probed(c)} : meta'[u] = meta[u] /\ log'[u] = log[u]
         /\ handle'[c] = [slot |-> Probed(c), generation |-> meta[Probed(c)].generation + 1]
         /\ \A d \in Creates \ {c} : handle'[d] = handle[d]
         /\ \/ Opens(log[Probed(c)], meta[Probed(c)], log'[Probed(c)], meta'[Probed(c)])
            \/ EndsAndOpens(log[Probed(c)], meta[Probed(c)], log'[Probed(c)], meta'[Probed(c)])
         /\ ~Exists(c)
         /\ SlotsAdvance
<1>1. Probed(c) \in Slots /\ seen[c] \in Nat /\ Retention[c] \in Nat /\ Lease[c] \in Nat
  BY ProbedType DEF TypeOK
<1>2. /\ meta'[Probed(c)].generation = meta[Probed(c)].generation + 1
      /\ \A u \in Slots \ {Probed(c)} : meta'[u] = meta[u] /\ log'[u] = log[u]
      /\ \/ Opens(log[Probed(c)], meta[Probed(c)], log'[Probed(c)], meta'[Probed(c)])
         \/ EndsAndOpens(log[Probed(c)], meta[Probed(c)], log'[Probed(c)], meta'[Probed(c)])
      /\ SlotsAdvance
  BY <1>1, ClaimAdvances DEF Claimed
<1>3. handle' = [handle EXCEPT ![c] = [slot |-> Probed(c), generation |-> meta'[Probed(c)].generation]]
  BY DEF Claimed
<1>4. ~Exists(c)
  BY DEF Claimed, HandleInv
<1> QED BY <1>1, <1>2, <1>3, <1>4 DEF TypeOK

\* Otherwise handles and generations stay.
LEMMA NotClaimed ==
  ASSUME TypeOK, HandleInv, [Next]_vars, \A c \in Creates : ~Claimed(c)
  PROVE  /\ handle' = handle
         /\ \A s \in Slots : meta'[s].generation = meta[s].generation
<1>0. meta \in [Slots -> Meta] /\ now \in Nat /\ \A c \in Creates : seen[c] \in Nat
  BY DEF TypeOK, SlotsTypeOK
<1>b. \A c \in Creates : Retention[c] \in Nat
  OBVIOUS
<1>1. ASSUME NEW c \in Creates, CreateStart(c) \/ ReadClock(c)
      PROVE  handle' = handle /\ meta' = meta
  BY <1>1 DEF CreateStart, ReadClock, NextSlot, slotVars
<1>2. ASSUME NEW c \in Creates, Refused(c)
      PROVE  handle' = handle /\ \A s \in Slots : meta'[s].generation = meta[s].generation
  <2> DEFINE s == Probed(c)
  <2>1. s \in Slots /\ seen[c] + Retention[c] \in Nat
    BY <1>0, <1>b, ProbedType
  <2>2. CASE Refuse(s, seen[c])
    BY <1>2, <2>2 DEF Refused, Refuse, slotVars
  <2>3. CASE Abandon(s, seen[c], Retention[c])
    <3> HIDE DEF s
    <3>1. \A u \in Slots : meta'[u].generation = meta[u].generation
      BY <2>1, <2>3, EndAdvances, StatesDiffer DEF Abandon, LeaseExpired
    <3> QED BY <1>2, <3>1 DEF Refused
  <2> QED BY <1>2, <2>2, <2>3 DEF Refused
<1>3. ASSUME NEW c \in Creates, HolderStep(c)
      PROVE  handle' = handle /\ \A s \in Slots : meta'[s].generation = meta[s].generation
  <2>1. Slot(c) \in Slots /\ Generation(c) \in Nat
    BY HolderType
  <2>2. CASE \E st \in SetStates : Set(c, st)
    BY <1>0, <2>1, <2>2 DEF Set, Complete, Active, Ended, Meta, createVars
  <2>3. CASE Refresh(c)
    BY <1>0, <2>1, <2>3 DEF Refresh, RefreshLease, Meta, createVars
  <2>4. CASE ReleaseEvent(c)
    BY <1>0, <2>1, <2>4 DEF ReleaseEvent, Release, Meta, createVars
  <2> QED BY <1>3, <2>2, <2>3, <2>4 DEF HolderStep
<1>4. ASSUME NEW w \in Waits, WaitStep(w) \/ \E c \in Creates : WaitStart(w, c)
      PROVE  handle' = handle /\ meta' = meta
  BY <1>4 DEF WaitStart, WaitStep, Snapshot, Read, TimedOut, Return, slotVars, createVars
<1>5. CASE Tick \/ UNCHANGED vars
  BY <1>5 DEF Tick, vars, slotVars, createVars
<1> QED BY <1>1, <1>2, <1>3, <1>4, <1>5 DEF Next, CreateStep

\* Once a create has its event, it keeps it.
LEMMA HandlesStay ==
  ASSUME TypeOK, HandleInv, [Next]_vars, NEW c \in Creates, Exists(c)
  PROVE  handle'[c] = handle[c] /\ Exists(c)'
<1>1. CASE \E d \in Creates : Claimed(d)
  BY <1>1, ClaimedFacts DEF Exists, Generation
<1>2. CASE \A d \in Creates : ~Claimed(d)
  BY <1>2, NotClaimed DEF Exists, Generation
<1> QED BY <1>1, <1>2

\* What was written of an event stays true.
LEMMA WrittenStays ==
  ASSUME TypeOK, SlotInv, HandleInv, [Next]_vars, NEW c \in Creates, Exists(c)
  PROVE  Written(c) \subseteq Written(c)'
<1>1. handle'[c] = handle[c]
  BY HandlesStay
<1>2. Slot(c) \in Slots /\ Slot(c)' = Slot(c) /\ Generation(c)' = Generation(c)
  BY <1>1, HolderType DEF Slot, Generation
<1>3. /\ log[Slot(c)] \in Seq(Entry)
      /\ log'[Slot(c)] \in Seq(Entry)
      /\ Len(log[Slot(c)]) <= Len(log'[Slot(c)])
      /\ \A i \in 1 .. Len(log[Slot(c)]) : log'[Slot(c)][i] = log[Slot(c)][i]
  BY <1>2, SlotStep DEF TypeOK, SlotsTypeOK
<1>4. \A i \in 1 .. Len(log[Slot(c)]) : i \in 1 .. Len(log'[Slot(c)])
  BY <1>3
<1> QED BY <1>2, <1>3, <1>4 DEF Written

\* A create that returns holds the generation it made, which its slot has reached.
LEMMA HandleStep ==
  ASSUME TypeOK, SlotInv, HandleInv, [Next]_vars
  PROVE  HandleInv'
<1> SUFFICES ASSUME NEW c \in Creates
             PROVE  /\ Exists(c)' <=> cpc'[c] = "done"
                    /\ Generation(c)' <= meta'[Slot(c)'].generation
  BY DEF HandleInv, Slot
<1>0. /\ meta \in [Slots -> Meta] /\ meta' \in [Slots -> Meta]
      /\ \A s \in Slots : meta[s].generation <= meta'[s].generation
  BY SlotStep DEF TypeOK, SlotsTypeOK
<1>1. /\ Slot(c) \in Slots /\ Generation(c) \in Nat
      /\ Generation(c) <= meta[Slot(c)].generation
      /\ Exists(c) <=> cpc[c] = "done"
  BY HolderType DEF HandleInv
<1>2. CASE \E d \in Creates : Claimed(d)
  <2>1. PICK d \in Creates : Claimed(d)
    BY <1>2
  <2>2. CASE d = c
    <3>1. cpc'[c] = "done"
      BY <2>1, <2>2 DEF Claimed, TypeOK
    <3>2. /\ Probed(c) \in Slots
          /\ handle'[c] = [slot |-> Probed(c), generation |-> meta[Probed(c)].generation + 1]
          /\ meta'[Probed(c)].generation = meta[Probed(c)].generation + 1
      BY <2>1, <2>2, ClaimedFacts
    <3>3. meta[Probed(c)].generation \in Nat
      BY <1>0, <3>2 DEF Meta
    <3> QED BY <3>1, <3>2, <3>3 DEF Exists, Generation, Slot
  <2>3. CASE d # c
    <3>1. handle'[c] = handle[c] /\ cpc'[c] = cpc[c]
      BY <2>1, <2>3, ClaimedFacts DEF Claimed, TypeOK
    <3> QED BY <1>0, <1>1, <3>1 DEF Exists, Generation, Slot, Meta
  <2> QED BY <2>2, <2>3
<1>3. CASE \A d \in Creates : ~Claimed(d)
  <2>1. /\ handle' = handle
        /\ \A s \in Slots : meta'[s].generation = meta[s].generation
    BY <1>3, NotClaimed
  <2>2. cpc'[c] = "done" <=> cpc[c] = "done"
    <3>1. ASSUME NEW d \in Creates, CreateStep(d)
          PROVE  cpc'[c] = "done" <=> cpc[c] = "done"
      BY <1>3, <3>1 DEF CreateStep, CreateStart, ReadClock, Refused, TypeOK
    <3>2. ASSUME NEW d \in Creates, HolderStep(d)
          PROVE  cpc' = cpc
      BY <3>2 DEF HolderStep, Set, Refresh, ReleaseEvent, createVars
    <3>3. ASSUME NEW w \in Waits, WaitStep(w) \/ \E d \in Creates : WaitStart(w, d)
          PROVE  cpc' = cpc
      BY <3>3 DEF WaitStart, WaitStep, Snapshot, Read, TimedOut, Return, createVars
    <3>4. CASE Tick \/ UNCHANGED vars
      BY <3>4 DEF Tick, vars, createVars
    <3> QED BY <3>1, <3>2, <3>3, <3>4 DEF Next
  <2> QED BY <1>1, <2>1, <2>2 DEF Exists, Generation, Slot
<1> QED BY <1>2, <1>3

\* A new generation of a slot is handed to the create that made it.
LEMMA CoverStep ==
  ASSUME TypeOK, SlotInv, HandleInv, CoverInv, [Next]_vars
  PROVE  CoverInv'
<1> SUFFICES ASSUME NEW s \in Slots, NEW g \in 1 .. meta'[s].generation
             PROVE  \E c \in Creates : handle'[c] = [slot |-> s, generation |-> g]
  BY DEF CoverInv
<1>0. meta[s].generation \in Nat /\ meta'[s].generation \in Nat
  BY SlotStep DEF TypeOK, SlotsTypeOK, Meta
<1>1. ASSUME g <= meta[s].generation
      PROVE  \E c \in Creates : handle'[c] = [slot |-> s, generation |-> g]
  <2>1. PICK c \in Creates : handle[c] = [slot |-> s, generation |-> g]
    BY <1>0, <1>1 DEF CoverInv
  <2>2. Exists(c)
    BY <2>1 DEF Exists, Generation
  <2> QED BY <2>1, <2>2, HandlesStay
<1>2. CASE \E c \in Creates : Claimed(c) /\ s = Probed(c)
  <2>1. PICK c \in Creates : Claimed(c) /\ s = Probed(c)
    BY <1>2
  <2>2. /\ handle'[c] = [slot |-> s, generation |-> meta[s].generation + 1]
        /\ meta'[s].generation = meta[s].generation + 1
    BY <2>1, ClaimedFacts
  <2> QED BY <1>0, <1>1, <2>2
<1>3. CASE \E c \in Creates : Claimed(c) /\ s # Probed(c)
  <2>1. PICK c \in Creates : Claimed(c) /\ s # Probed(c)
    BY <1>3
  <2>2. meta'[s] = meta[s]
    <3>1. \A u \in Slots \ {Probed(c)} : meta'[u] = meta[u]
      BY <2>1, ClaimedFacts
    <3> QED BY <2>1, <3>1
  <2> QED BY <1>0, <1>1, <2>2
<1>4. CASE \A c \in Creates : ~Claimed(c)
  <2>1. meta'[s].generation = meta[s].generation
    BY <1>4, NotClaimed
  <2> QED BY <1>0, <1>1, <2>1
<1> QED BY <1>2, <1>3, <1>4

\* A generation is handed out once: it is greater than all before in its slot.
LEMMA IdentityStep ==
  ASSUME TypeOK, SlotInv, HandleInv, UniqueIdentity, [Next]_vars
  PROVE  UniqueIdentity'
<1>1. CASE \E c \in Creates : Claimed(c)
  <2>1. PICK c \in Creates : Claimed(c)
    BY <1>1
  <2>2. /\ Probed(c) \in Slots
        /\ handle'[c] = [slot |-> Probed(c), generation |-> meta[Probed(c)].generation + 1]
        /\ \A d \in Creates \ {c} : handle'[d] = handle[d]
    BY <2>1, ClaimedFacts
  <2>3. meta[Probed(c)].generation \in Nat
    BY <2>2 DEF TypeOK, SlotsTypeOK, Meta
  <2>4. ASSUME NEW d \in Creates \ {c}
        PROVE  handle'[d] # handle'[c]
    <3>1. Generation(d) <= meta[Slot(d)].generation /\ Generation(d) \in Nat
      BY HolderType DEF HandleInv
    <3> QED BY <2>2, <2>3, <3>1 DEF Generation, Slot
  <2>5. ASSUME NEW d \in Creates, NEW e \in Creates, d # e, handle'[d].generation > 0
        PROVE  handle'[d] # handle'[e]
    <3>1. CASE d = c \/ e = c
      BY <2>4, <2>5, <3>1
    <3>2. CASE d # c /\ e # c
      <4>1. handle'[d] = handle[d] /\ handle'[e] = handle[e]
        BY <2>2, <3>2
      <4> QED BY <2>5, <4>1 DEF UniqueIdentity, Exists, Generation
    <3> QED BY <3>1, <3>2
  <2> QED BY <2>5 DEF UniqueIdentity, Exists, Generation
<1>2. CASE \A c \in Creates : ~Claimed(c)
  BY <1>2, NotClaimed DEF UniqueIdentity, Exists, Generation
<1> QED BY <1>1, <1>2

\* The clock a create() read is not ahead of the clock.
LEMMA ClockStep ==
  ASSUME TypeOK, ClockInv, [Next]_vars
  PROVE  ClockInv' /\ now <= now'
<1>0. now \in Nat /\ \A c \in Creates : seen[c] \in Nat /\ seen[c] <= now
  BY DEF TypeOK, ClockInv
<1>1. ASSUME NEW c \in Creates, CreateStep(c)
      PROVE  ClockInv' /\ now' = now
  <2>1. CASE CreateStart(c)
    BY <1>0, <2>1 DEF CreateStart, ClockInv
  <2>2. CASE ReadClock(c)
    BY <1>0, <2>2 DEF ReadClock, ClockInv, TypeOK
  <2>3. CASE Claimed(c)
    BY <1>0, <2>3 DEF Claimed, LeaveCreate, ClockInv, TypeOK
  <2>4. CASE Refused(c)
    BY <1>0, <2>4 DEF Refused, LeaveCreate, ClockInv, TypeOK
  <2> QED BY <1>1, <2>1, <2>2, <2>3, <2>4 DEF CreateStep
<1>2. ASSUME NEW c \in Creates, HolderStep(c)
      PROVE  seen' = seen /\ now' = now
  BY <1>2 DEF HolderStep, Set, Refresh, ReleaseEvent, createVars
<1>3. ASSUME NEW w \in Waits, WaitStep(w) \/ \E c \in Creates : WaitStart(w, c)
      PROVE  seen' = seen /\ now' = now
  BY <1>3 DEF WaitStart, WaitStep, Snapshot, Read, TimedOut, Return, createVars
<1>4. CASE Tick
  BY <1>0, <1>4 DEF Tick, createVars, ClockInv
<1>5. CASE UNCHANGED vars
  BY <1>0, <1>5 DEF vars, createVars, ClockInv
<1>6. ASSUME seen' = seen, now' = now
      PROVE  ClockInv'
  BY <1>0, <1>6 DEF ClockInv
<1> QED BY <1>0, <1>1, <1>2, <1>3, <1>4, <1>5, <1>6 DEF Next

-----------------------------------------------------------------------------
(* Outcomes: what set() acknowledges and what wait() tells.                *)

\* A set() that returns ends its event in the state it was given.
LEMMA SetFacts ==
  ASSUME TypeOK, NEW c \in Creates, NEW st \in SetStates, Set(c, st)
  PROVE  /\ Exists(c)
         /\ meta[Slot(c)].generation = Generation(c)
         /\ meta[Slot(c)].state = "created"
         /\ meta'[Slot(c)].generation = Generation(c)
         /\ meta'[Slot(c)].state = st
         /\ \A u \in Slots \ {Slot(c)} : meta'[u] = meta[u] /\ log'[u] = log[u]
         /\ log'[Slot(c)] = Append(log[Slot(c)], Note(Generation(c), st))
         /\ st \in Written(c)'
<1>1. PICK t \in 0 .. now : Complete(Slot(c), Generation(c), st, t, Retention[c])
  BY DEF Set
<1>2. /\ Slot(c) \in Slots
      /\ t + Retention[c] \in Nat
      /\ st \in Outcomes
  BY HolderType, StatesDiffer DEF TypeOK
<1>3. /\ Exists(c)
      /\ meta[Slot(c)].generation = Generation(c)
      /\ meta[Slot(c)].generation > 0
      /\ meta[Slot(c)].state = "created"
  BY <1>1 DEF Set, Exists, Complete, Active
<1>4. /\ meta'[Slot(c)].generation = meta[Slot(c)].generation
      /\ meta'[Slot(c)].state = st
      /\ \A u \in Slots \ {Slot(c)} : meta'[u] = meta[u] /\ log'[u] = log[u]
  BY <1>1, <1>2, <1>3, EndAdvances DEF Complete
<1>5. log \in [Slots -> Seq(Entry)]
  BY DEF TypeOK, SlotsTypeOK
<1>6. log'[Slot(c)] = Append(log[Slot(c)], Note(Generation(c), st))
  BY <1>1, <1>2, <1>5 DEF Complete
<1>7. st \in Written(c)'
  <2>1. PICK q \in Seq(Entry), e \in Entry : q = log[Slot(c)] /\ e = Note(Generation(c), st)
    BY <1>2, <1>3, <1>5, HolderType, NoteType, StatesDiffer DEF Exists
  <2>2. Len(q) + 1 \in 1 .. Len(Append(q, e)) /\ Append(q, e)[Len(q) + 1] = e
    BY AppendFacts
  <2>3. handle' = handle
    BY DEF Set, createVars
  <2> QED BY <1>2, <1>6, <2>1, <2>2, <2>3 DEF Written, Slot, Generation
<1> QED BY <1>3, <1>4, <1>6, <1>7

\* What a set() was acknowledged for is written, and stays so.
LEMMA AckStep ==
  ASSUME TypeOK, SlotInv, HandleInv, AckInv, [Next]_vars
  PROVE  AckInv'
<1>1. ASSUME NEW c \in Creates, acked'[c] = acked[c], acked'[c] # "none"
      PROVE  Exists(c)' /\ acked'[c] \in Written(c)'
  BY <1>1, HandlesStay, WrittenStays DEF AckInv
<1>2. ASSUME NEW c \in Creates, NEW st \in SetStates, Set(c, st)
      PROVE  AckInv'
  <2>1. acked'[c] = st /\ \A d \in Creates \ {c} : acked'[d] = acked[d]
    BY <1>2 DEF Set, TypeOK
  <2>2. Exists(c)' /\ st \in Written(c)'
    BY <1>2, SetFacts, HandlesStay
  <2>3. \A d \in Creates : acked'[d] # "none" => Exists(d)' /\ acked'[d] \in Written(d)'
    BY <1>1, <2>1, <2>2
  <2> QED BY <2>3 DEF AckInv
<1>3. ASSUME acked' = acked
      PROVE  AckInv'
  <2>1. \A d \in Creates : acked'[d] # "none" => Exists(d)' /\ acked'[d] \in Written(d)'
    BY <1>1, <1>3
  <2> QED BY <2>1 DEF AckInv
<1>4. ASSUME NEW c \in Creates, CreateStep(c) \/ Refresh(c) \/ ReleaseEvent(c)
      PROVE  acked' = acked
  BY <1>4 DEF CreateStep, CreateStart, ReadClock, Claimed, Refused, Refresh, ReleaseEvent
<1>5. ASSUME NEW w \in Waits, WaitStep(w) \/ \E c \in Creates : WaitStart(w, c)
      PROVE  acked' = acked
  BY <1>5 DEF WaitStart, WaitStep, Snapshot, Read, TimedOut, Return
<1>6. CASE Tick \/ UNCHANGED vars
  BY <1>3, <1>6 DEF Tick, vars
<1> QED BY <1>2, <1>3, <1>4, <1>5, <1>6 DEF Next, HolderStep

\* A status other than "created" is written at the end of the stream, in an
\* entry that decides the wait.
LEMMA EndedIsLast ==
  ASSUME TypeOK, SlotInv, HandleInv, NEW c \in Creates, Exists(c), Status(c) # "created"
  PROVE  LET q == log[Slot(c)]
         IN  /\ Len(q) > 0
             /\ Decides(c, q[Len(q)])
             /\ Status(c) # "expired" => Status(c) \in Written(c)
<1>1. PICK q \in Seq(Entry), m \in Meta : q = log[Slot(c)] /\ m = meta[Slot(c)]
  BY HolderType DEF TypeOK, SlotsTypeOK
<1>2. Agrees(q, m) /\ Ordered(q)
  BY <1>1, HolderType DEF SlotInv
<1>3. /\ Generation(c) \in Nat \ {0}
      /\ Generation(c) <= m.generation
      /\ m.generation \in Nat
      /\ m.state \in States
  BY <1>1, HolderType DEF HandleInv, Exists, Meta
<1>4. Len(q) \in 1 .. Len(q) /\ q[Len(q)] = Note(m.generation, m.state)
  BY <1>2, <1>3 DEF Agrees
<1>5. q[Len(q)].generation = m.generation /\ q[Len(q)].state = m.state
  BY <1>3, <1>4, NoteType
<1>6. CASE m.generation # Generation(c)
  BY <1>1, <1>3, <1>4, <1>5, <1>6 DEF Decides, Status
<1>7. CASE m.generation = Generation(c)
  <2>1. Status(c) = m.state /\ m.state \in Outcomes
    BY <1>1, <1>3, <1>7 DEF Status, States
  <2>2. Decides(c, q[Len(q)])
    BY <1>5, <1>7, <2>1 DEF Decides
  <2>3. Status(c) \in Written(c)
    BY <1>1, <1>4, <1>7, <2>1 DEF Written
  <2> QED BY <1>1, <1>4, <2>2, <2>3
<1> QED BY <1>6, <1>7

-----------------------------------------------------------------------------
(* What a waiter reads and tells.                                          *)

\* Steps of the other processes leave the waiters alone.
LEMMA OthersWait ==
  ASSUME [Next]_vars,
         \A w \in Waits : ~WaitStep(w) /\ \A c \in Creates : ~WaitStart(w, c)
  PROVE  UNCHANGED waitVars
<1>1. ASSUME NEW c \in Creates, CreateStep(c)
      PROVE  UNCHANGED waitVars
  BY <1>1 DEF CreateStep, CreateStart, ReadClock, Claimed, Refused
<1>2. ASSUME NEW c \in Creates, HolderStep(c)
      PROVE  UNCHANGED waitVars
  BY <1>2 DEF HolderStep, Set, Refresh, ReleaseEvent
<1>3. CASE Tick \/ UNCHANGED vars
  BY <1>3 DEF Tick, vars
<1> QED BY <1>1, <1>2, <1>3 DEF Next

\* wait() changes neither slots nor handles.
LEMMA WaitKeeps ==
  ASSUME NEW w \in Waits, WaitStep(w) \/ \E c \in Creates : WaitStart(w, c)
  PROVE  UNCHANGED <<meta, log, handle, acked>>
<1> QED BY DEF WaitStart, WaitStep, Snapshot, Read, TimedOut, Return, slotVars, createVars

\* A waiter asks once, for an event there is; it is told once, when it is
\* done, and its last look comes only after a timeout.
LEMMA WaitInvStep ==
  ASSUME TypeOK, HandleInv, WaitInv, [Next]_vars
  PROVE  WaitInv'
<1> SUFFICES ASSUME NEW w \in Waits
             PROVE  /\ wpc'[w] = "idle" => target'[w] = NoEvent
                    /\ wpc'[w] # "idle" => target'[w] \in Creates /\ handle'[target'[w]].generation > 0
                    /\ told'[w] = "none" <=> wpc'[w] # "done"
                    /\ wpc'[w] = "final" => Timeout[w] = "some"
  BY DEF WaitInv, Exists, Generation
<1>0. /\ wpc[w] = "idle" => target[w] = NoEvent
      /\ wpc[w] # "idle" => target[w] \in Creates /\ handle[target[w]].generation > 0
      /\ told[w] = "none" <=> wpc[w] # "done"
      /\ wpc[w] = "final" => Timeout[w] = "some"
  BY DEF WaitInv, Exists, Generation
<1>1. ASSUME target'[w] = target[w], target[w] \in Creates, wpc[w] # "idle"
      PROVE  target'[w] \in Creates /\ handle'[target'[w]].generation > 0
  BY <1>0, <1>1, HandlesStay DEF Exists, Generation
<1>2. ASSUME NEW c \in Creates, WaitStart(w, c)
      PROVE  /\ wpc'[w] = "snap" /\ target'[w] = c /\ told'[w] = told[w] /\ wpc[w] = "idle"
             /\ handle'[c].generation > 0
  BY <1>2 DEF WaitStart, TypeOK, createVars, Exists, Generation
<1>3. CASE WaitStep(w)
  <2>1. wpc[w] \in Waiting /\ target'[w] = target[w]
    BY <1>3 DEF WaitStep, Snapshot, Read, TimedOut, Return, Waiting
  <2>2. target'[w] \in Creates /\ handle'[target'[w]].generation > 0
    BY <1>0, <1>1, <2>1 DEF Waiting
  <2>3. Status(target[w]) # "none"
    <3>1. target[w] \in Creates
      BY <1>0, <2>1 DEF Waiting
    <3>2. Slot(target[w]) \in Slots
      BY <3>1, HolderType
    <3>3. meta[Slot(target[w])] \in Meta
      BY <3>2 DEF TypeOK, SlotsTypeOK
    <3>4. meta[Slot(target[w])].state # "none"
      BY ONLY <3>3 DEF Meta, States, Outcomes, TerminalStates
    <3> QED BY <3>4 DEF Status
  <2>4. ASSUME NEW what, what # "none", Return(w, what)
        PROVE  wpc'[w] = "done" /\ told'[w] # "none"
    BY <2>4 DEF Return, TypeOK
  <2>5. CASE Snapshot(w)
    <3>1. CASE \E what : what # "none" /\ Return(w, what)
      BY <2>2, <2>4, <3>1
    <3>2. CASE wpc' = [wpc EXCEPT ![w] = "read"] /\ told' = told
      <4>1. wpc'[w] = "read"
        BY <3>2 DEF TypeOK
      <4> QED BY <1>0, <2>1, <2>2, <3>2, <4>1 DEF Waiting
    <3> QED BY <2>3, <2>5, <3>1, <3>2 DEF Snapshot
  <2>6. CASE Read(w)
    <3> DEFINE q == log[Slot(target[w])]
    <3>1. CASE Decisive(w) = {}
      <4>1. wpc'[w] = "snap" /\ told' = told
        BY <2>6, <3>1 DEF Read, TypeOK
      <4> QED BY <1>0, <2>1, <2>2, <4>1 DEF Waiting
    <3>2. CASE Decisive(w) # {}
      <4>1. PICK i \in Decisive(w) :
              Return(w, IF q[i].generation > Generation(target[w]) THEN "expired" ELSE q[i].state)
        BY <2>6, <3>2 DEF Read
      <4>2. Decides(target[w], q[i])
        BY <4>1 DEF Decisive
      <4> QED BY <2>2, <2>4, <4>1, <4>2 DEF Decides, Outcomes, TerminalStates
    <3> QED BY <3>1, <3>2
  <2>7. CASE TimedOut(w)
    <3>1. wpc'[w] = "final" /\ told' = told /\ Timeout[w] = "some"
      BY <2>7 DEF TimedOut, TypeOK
    <3> QED BY <1>0, <2>1, <2>2, <3>1 DEF Waiting
  <2> QED BY <1>3, <2>5, <2>6, <2>7 DEF WaitStep
<1>4. ASSUME NEW v \in Waits \ {w}, WaitStep(v) \/ \E c \in Creates : WaitStart(v, c)
      PROVE  wpc'[w] = wpc[w] /\ target'[w] = target[w] /\ told'[w] = told[w]
  BY <1>4 DEF WaitStart, WaitStep, Snapshot, Read, TimedOut, Return, TypeOK
<1>5. CASE wpc'[w] = wpc[w] /\ target'[w] = target[w] /\ told'[w] = told[w]
  BY <1>0, <1>1, <1>5
<1>6. CASE \A v \in Waits : ~WaitStep(v) /\ \A c \in Creates : ~WaitStart(v, c)
  BY <1>5, <1>6, OthersWait DEF waitVars
<1> QED BY <1>0, <1>2, <1>3, <1>4, <1>5, <1>6

\* What XREAD finds: if nothing in it decides, the last entry does not.
LEMMA FreshFacts ==
  ASSUME TypeOK, NEW w \in Waits, target[w] \in Creates
  PROVE  LET q == log[Slot(target[w])]
         IN  /\ q \in Seq(Entry)
             /\ Fresh(w) # {} <=> last[w] < Len(q)
             /\ last[w] < Len(q) => Len(q) \in Fresh(w)
             /\ Fresh(w) \subseteq 1 .. Len(q)
<1>1. Slot(target[w]) \in Slots /\ last[w] \in Nat
  BY HolderType DEF TypeOK
<1>2. PICK q \in Seq(Entry) : q = log[Slot(target[w])]
  BY <1>1 DEF TypeOK, SlotsTypeOK
<1>3. Len(q) \in Nat
  OBVIOUS
<1>4. Fresh(w) = {i \in 1 .. Len(q) : i > Len(q) - MaxLen /\ i > last[w]}
  BY <1>2 DEF Fresh, Kept
<1>5. last[w] < Len(q) => Len(q) \in Fresh(w)
  BY <1>1, <1>3, <1>4
<1>6. Fresh(w) # {} => last[w] < Len(q)
  BY <1>1, <1>3, <1>4
<1> QED BY <1>2, <1>4, <1>5, <1>6

\* An entry that did not decide a wait never will: streams only grow.
LEMMA ReadStays ==
  ASSUME TypeOK, SlotInv, HandleInv, [Next]_vars,
         NEW c \in Creates, Exists(c), NEW n \in Nat,
         n <= Len(log[Slot(c)]),
         n > 0 => ~Decides(c, log[Slot(c)][n])
  PROVE  /\ n <= Len(log'[Slot(c)'])
         /\ n > 0 => ~Decides(c, log[Slot(c)][n])'
<1>1. handle'[c] = handle[c]
  BY HandlesStay
<1>2. Slot(c) \in Slots /\ Slot(c)' = Slot(c) /\ Generation(c)' = Generation(c)
  BY <1>1, HolderType DEF Slot, Generation
<1>3. /\ log[Slot(c)] \in Seq(Entry)
      /\ log'[Slot(c)] \in Seq(Entry)
      /\ Len(log[Slot(c)]) <= Len(log'[Slot(c)])
      /\ \A i \in 1 .. Len(log[Slot(c)]) : log'[Slot(c)][i] = log[Slot(c)][i]
  BY <1>2, SlotStep DEF TypeOK, SlotsTypeOK
<1>4. n <= Len(log'[Slot(c)])
  BY <1>3
<1>5. n > 0 => log'[Slot(c)][n] = log[Slot(c)][n]
  BY <1>3
<1> QED BY <1>2, <1>4, <1>5 DEF Decides

\* What a waiter read did not decide its wait.
LEMMA ReadInvStep ==
  ASSUME TypeOK, SlotInv, HandleInv, WaitInv, ReadInv, [Next]_vars
  PROVE  ReadInv'
<1> DEFINE Unread(c, n) == /\ n <= Len(log[Slot(c)])
                           /\ n > 0 => ~Decides(c, log[Slot(c)][n])
<1> SUFFICES ASSUME NEW w \in Waits
             PROVE  /\ wpc'[w] \notin Waiting => last'[w] = 0
                    /\ wpc'[w] \in Waiting =>
                         \E c \in Creates, n \in Nat :
                           target'[w] = c /\ last'[w] = n /\ Unread(c, n)'
  BY DEF ReadInv, Slot, Decides, Generation, Waiting
<1>0. /\ wpc[w] \notin Waiting => last[w] = 0
      /\ last[w] \in Nat
      /\ wpc[w] \in Waiting =>
           target[w] \in Creates /\ Exists(target[w]) /\ Unread(target[w], last[w])
  BY DEF ReadInv, WaitInv, Waiting, TypeOK
<1>1. ASSUME NEW c \in Creates, Exists(c), NEW n \in Nat, Unread(c, n)
      PROVE  Unread(c, n)'
  BY <1>1, ReadStays
<1>2. CASE /\ wpc'[w] \in Waiting <=> wpc[w] \in Waiting
           /\ target'[w] = target[w] /\ last'[w] = last[w]
  BY <1>0, <1>1, <1>2
<1>3. ASSUME NEW c \in Creates, WaitStart(w, c)
      PROVE  \E d \in Creates, n \in Nat : target'[w] = d /\ last'[w] = n /\ Unread(d, n)'
  <2>1. target'[w] = c /\ last'[w] = 0 /\ Exists(c)
    BY <1>0, <1>3 DEF WaitStart, TypeOK, Waiting
  <2>2. Unread(c, 0)
    BY HolderType DEF TypeOK, SlotsTypeOK
  <2>3. Unread(c, 0)'
    BY <1>1, <2>1, <2>2
  <2> QED BY <2>1, <2>3
<1>4. CASE \E c \in Creates : WaitStart(w, c)
  <2>1. wpc'[w] \in Waiting
    BY <1>4 DEF WaitStart, TypeOK, Waiting
  <2> QED BY <1>3, <1>4, <2>1
<1>5. ASSUME NEW what, Return(w, what)
      PROVE  wpc'[w] \notin Waiting /\ last'[w] = 0
  BY <1>5 DEF Return, TypeOK, Waiting
<1>6. CASE WaitStep(w)
  <2>1. CASE \E what : Return(w, what)
    BY <1>5, <2>1
  <2>2. CASE Read(w) /\ Decisive(w) = {}
    <3>1. PICK c \in Creates : c = target[w] /\ Exists(c) /\ wpc[w] \in Waiting
      BY <1>0, <2>2 DEF Read, Waiting
    <3>2. PICK q \in Seq(Entry) : /\ q = log[Slot(c)]
                                  /\ Fresh(w) # {} => Len(q) \in Fresh(w)
      BY <3>1, FreshFacts
    <3>3. PICK n \in Nat : n = Len(q)
      OBVIOUS
    <3>4. ~Decides(c, q[n])
      BY <2>2, <3>1, <3>2, <3>3 DEF Read, Decisive
    <3>5. Unread(c, n)
      BY <3>2, <3>3, <3>4
    <3>6. Unread(c, n)'
      BY <1>1, <3>1, <3>5
    <3>7. target'[w] = c /\ last'[w] = n /\ wpc'[w] \in Waiting
      BY <2>2, <3>1, <3>2, <3>3 DEF Read, TypeOK, Waiting
    <3> QED BY <3>6, <3>7
  <2>3. CASE Read(w) /\ Decisive(w) # {}
    BY <2>1, <2>3 DEF Read
  <2>4. CASE Snapshot(w) /\ ~ \E what : Return(w, what)
    BY <1>2, <2>4 DEF Snapshot, TypeOK, Waiting
  <2>5. CASE TimedOut(w)
    BY <1>2, <2>5 DEF TimedOut, TypeOK, Waiting
  <2> QED BY <1>6, <2>1, <2>2, <2>3, <2>4, <2>5 DEF WaitStep
<1>7. ASSUME NEW v \in Waits \ {w}, WaitStep(v) \/ \E c \in Creates : WaitStart(v, c)
      PROVE  wpc'[w] = wpc[w] /\ target'[w] = target[w] /\ last'[w] = last[w]
  BY <1>7 DEF WaitStart, WaitStep, Snapshot, Read, TimedOut, Return, TypeOK
<1>8. CASE \A v \in Waits : ~WaitStep(v) /\ \A c \in Creates : ~WaitStart(v, c)
  BY <1>2, <1>8, OthersWait DEF waitVars
<1> QED BY <1>2, <1>4, <1>6, <1>7, <1>8

\* An event that lost its slot has lost it for good.
LEMMA ExpiredStays ==
  ASSUME TypeOK, SlotInv, HandleInv, [Next]_vars,
         NEW c \in Creates, Exists(c), Status(c) = "expired"
  PROVE  Status(c)' = "expired"
<1>1. handle'[c] = handle[c]
  BY HandlesStay
<1>2. Slot(c) \in Slots /\ Slot(c)' = Slot(c) /\ Generation(c)' = Generation(c)
  BY <1>1, HolderType DEF Slot, Generation
<1>3. PICK m \in Meta, m2 \in Meta : m = meta[Slot(c)] /\ m2 = meta'[Slot(c)]
  BY <1>2, SlotStep DEF TypeOK, SlotsTypeOK
<1>4. /\ m.generation \in Nat /\ m2.generation \in Nat /\ m.state \in States
      /\ m.generation <= m2.generation
      /\ Generation(c) <= m.generation /\ Generation(c) \in Nat
  BY <1>2, <1>3, SlotStep, HolderType DEF HandleInv, Meta
<1>5. m.generation # Generation(c)
  BY <1>3, <1>4, StatesDiffer DEF Status
<1>6. m2.generation # Generation(c)
  BY <1>4, <1>5
<1> QED BY <1>2, <1>3, <1>6 DEF Status

\* What a wait() that returns on this step tells is true of its event.
LEMMA ReturnHonest ==
  ASSUME TypeOK, SlotInv, HandleInv, WaitInv, NEW w \in Waits, WaitStep(w),
         NEW what, Return(w, what)
  PROVE  LET c == target[w]
         IN  /\ c \in Creates /\ Exists(c) /\ wpc[w] \in Waiting
             /\ \/ what = "timeout" /\ Timeout[w] # "none"
                \/ what = "expired" /\ Status(c) = "expired"
                \/ what \in Outcomes /\ what \in Written(c)
<1>1. PICK c \in Creates : c = target[w] /\ Exists(c) /\ wpc[w] \in Waiting
  BY DEF WaitInv, Waiting, WaitStep, Snapshot, Read, TimedOut
<1>2. wpc'[w] = "done" /\ told'[w] = what
  BY DEF Return, TypeOK
<1>3. CASE Snapshot(w)
  <2>1. \/ what = Status(c) /\ what # "created"
        \/ what = "timeout" /\ Timeout[w] # "none"
    <3>1. PICK st : st = Status(target[w]) /\ st = Status(c)
      BY <1>1
    <3>2. wpc[w] = "final" => Timeout[w] = "some"
      BY DEF WaitInv
    <3>3. \A x : Return(w, x) => told'[w] = x
      BY DEF Return, TypeOK
    <3>4. CASE st # "created"
      <4>1. told' = [told EXCEPT ![w] = st]
        BY <1>3, <3>1, <3>4 DEF Snapshot, Return
      <4> QED BY <1>2, <3>1, <3>4, <4>1 DEF TypeOK
    <3>5. CASE st = "created"
      <4>1. wpc'[w] # "read"
        BY <1>2
      <4>2. /\ wpc[w] = "final" \/ Timeout[w] = "zero"
            /\ Return(w, "timeout")
        BY <1>1, <1>3, <3>1, <3>5, <4>1 DEF Snapshot, TypeOK
      <4> QED BY <1>2, <3>2, <3>3, <4>2
    <3> QED BY <3>4, <3>5
  <2>2. ASSUME what = Status(c), what # "created", what # "expired"
        PROVE  what \in Outcomes /\ what \in Written(c)
    BY <2>2, <1>1, EndedIsLast DEF Written
  <2> QED BY <1>1, <2>1, <2>2
<1>4. CASE Read(w)
  <2>1. Decisive(w) # {}
    BY <1>2, <1>4 DEF Read, TypeOK
  <2>2. PICK q \in Seq(Entry), m \in Meta : q = log[Slot(c)] /\ m = meta[Slot(c)]
    BY HolderType DEF TypeOK, SlotsTypeOK
  <2>3. PICK i \in Decisive(w) :
          Return(w, IF q[i].generation > Generation(c) THEN "expired" ELSE q[i].state)
    BY <1>1, <1>4, <2>1, <2>2 DEF Read
  <2>4. i \in 1 .. Len(q) /\ Decides(c, q[i])
    BY <1>1, <2>2, FreshFacts DEF Decisive
  <2>5. what = IF q[i].generation > Generation(c) THEN "expired" ELSE q[i].state
    BY <1>2, <2>3 DEF Return, TypeOK
  <2>6. CASE q[i].generation > Generation(c)
    <3>1. q[i].generation <= m.generation /\ q[i].generation \in Nat /\ m.generation \in Nat
      BY <2>2, <2>4, LastIsGreatest, EntryType, HolderType DEF SlotInv, Meta
    <3>2. m.generation # Generation(c)
      BY <2>6, <3>1, HolderType
    <3>3. Status(c) = "expired"
      BY <2>2, <3>2 DEF Status
    <3> QED BY <1>1, <2>5, <2>6, <3>3
  <2>7. CASE ~(q[i].generation > Generation(c))
    <3>1. q[i].generation = Generation(c) /\ q[i].state \in Outcomes
      BY <2>4, <2>7 DEF Decides
    <3>2. q[i] = Note(Generation(c), q[i].state)
      BY <2>4, <3>1, EntryType DEF Entry, Note
    <3>3. q[i].state \in Written(c)
      BY <2>2, <2>4, <3>1, <3>2 DEF Written
    <3> QED BY <1>1, <2>5, <2>7, <3>1, <3>3
  <2> QED BY <2>6, <2>7
<1>5. CASE TimedOut(w)
  BY <1>2, <1>5 DEF TimedOut, TypeOK
<1> QED BY <1>3, <1>4, <1>5 DEF WaitStep

\* What waiters were told stays true.
LEMMA HonestStep ==
  ASSUME TypeOK, SlotInv, HandleInv, WaitInv, WaitHonest, [Next]_vars
  PROVE  WaitHonest'
<1> DEFINE Honest(c, what) == /\ what \in Outcomes => what \in Written(c)
                              /\ what = "expired" => Status(c) = "expired"
<1> SUFFICES ASSUME NEW w \in Waits
             PROVE  \/ told'[w] \in {"none", "timeout"}
                    \/ \E c \in Creates : \E what :
                         target'[w] = c /\ told'[w] = what /\ Honest(c, what)'
  <2>1. ASSUME NEW w \in Waits, told'[w] \in {"none", "timeout"}
        PROVE  told'[w] \notin Outcomes /\ told'[w] # "expired"
    BY <2>1 DEF Outcomes, TerminalStates
  <2>2. ASSUME NEW w \in Waits, NEW c \in Creates, NEW what,
               target'[w] = c, told'[w] = what, Honest(c, what)'
        PROVE  /\ told'[w] \in Outcomes => told'[w] \in Written(target[w])'
               /\ told'[w] = "expired" => Status(target[w])' = "expired"
    BY <2>2 DEF Written, Status, Slot, Generation
  <2> HIDE DEF Honest
  <2> QED BY <2>1, <2>2 DEF WaitHonest
<1>1. ASSUME NEW c \in Creates, Exists(c), NEW what, Honest(c, what)
      PROVE  Honest(c, what)'
  BY <1>1, WrittenStays, ExpiredStays
<1>2. CASE target'[w] = target[w] /\ told'[w] = told[w]
  <2>1. CASE told[w] = "none"
    BY <1>2, <2>1
  <2>2. CASE told[w] # "none"
    <3>1. PICK what : what = told[w]
      OBVIOUS
    <3>2. PICK c \in Creates : c = target[w] /\ Exists(c) /\ Honest(c, what)
      BY <2>2, <3>1 DEF WaitInv, WaitHonest
    <3>3. Honest(c, what)'
      BY <1>1, <3>2
    <3> QED BY <1>2, <3>1, <3>2, <3>3
  <2> QED BY <2>1, <2>2
<1>3. ASSUME NEW what, Return(w, what), WaitStep(w)
      PROVE  \/ told'[w] \in {"none", "timeout"}
             \/ \E c \in Creates : \E x : target'[w] = c /\ told'[w] = x /\ Honest(c, x)'
  <2>1. target'[w] = target[w] /\ told'[w] = what
    BY <1>3 DEF Return, TypeOK
  <2>2. CASE what = "timeout"
    BY <2>1, <2>2
  <2>3. CASE what # "timeout"
    <3>1. PICK c \in Creates : c = target[w] /\ Exists(c) /\ Honest(c, what)
      BY <1>3, <2>3, ReturnHonest DEF Outcomes, TerminalStates
    <3>2. Honest(c, what)'
      BY <1>1, <3>1
    <3> QED BY <2>1, <3>1, <3>2
  <2> QED BY <2>2, <2>3
<1>4. CASE WaitStep(w) /\ ~ \E what : Return(w, what)
  BY <1>2, <1>4 DEF WaitStep, Snapshot, Read, TimedOut
<1>5. CASE \E c \in Creates : WaitStart(w, c)
  <2>1. told'[w] = "none"
    BY <1>5 DEF WaitStart, WaitInv
  <2> QED BY <2>1
<1>6. ASSUME NEW v \in Waits \ {w}, WaitStep(v) \/ \E c \in Creates : WaitStart(v, c)
      PROVE  target'[w] = target[w] /\ told'[w] = told[w]
  BY <1>6 DEF WaitStart, WaitStep, Snapshot, Read, TimedOut, Return, TypeOK
<1>7. CASE \A v \in Waits : ~WaitStep(v) /\ \A c \in Creates : ~WaitStart(v, c)
  BY <1>2, <1>7, OthersWait DEF waitVars
<1> QED BY <1>2, <1>3, <1>4, <1>5, <1>6, <1>7

-----------------------------------------------------------------------------
(* The invariant is inductive; what follows from it.                       *)

\* The invariant holds of the empty pool.
LEMMA InitInv == Init => IInv
<1> SUFFICES ASSUME Init PROVE IInv
  OBVIOUS
<1>1. TypeOK
  BY InitType
<1>2. \A c \in Creates : ~Exists(c) /\ Generation(c) = 0 /\ Slot(c) = 0
  BY DEF Init, Exists, Generation, Slot
<1>3. \A s \in Slots : log[s] = <<>> /\ meta[s].generation = 0
  BY DEF Init, SlotsInit, NoMeta
<1>4. SlotInv
  <2>1. Len(<<>>) = 0 /\ \A i : i \notin 1 .. 0
    OBVIOUS
  <2> QED BY <1>3, <2>1 DEF SlotInv, Ordered, Agrees
<1>5. HandleInv /\ UniqueIdentity /\ AckInv
  <2>1. 0 \in Slots
    BY DEF Slots
  <2> QED BY <1>2, <1>3, <2>1 DEF HandleInv, UniqueIdentity, AckInv, Init
<1>6. CoverInv
  <2>1. \A g : g \notin 1 .. 0
    OBVIOUS
  <2> QED BY <1>3, <2>1 DEF CoverInv
<1>7. ClockInv
  BY DEF Init, ClockInv
<1>8. WaitInv /\ ReadInv
  BY DEF Init, WaitInv, ReadInv, Waiting
<1>9. WaitHonest
  BY DEF Init, WaitHonest, Outcomes, TerminalStates
<1> QED BY <1>1, <1>4, <1>5, <1>6, <1>7, <1>8, <1>9 DEF IInv

\* Each step keeps it.
LEMMA NextInv == IInv /\ [Next]_vars => IInv'
<1> SUFFICES ASSUME IInv, [Next]_vars PROVE IInv'
  OBVIOUS
<1>1. /\ TypeOK /\ SlotInv /\ HandleInv /\ CoverInv /\ UniqueIdentity
      /\ ClockInv /\ AckInv /\ WaitInv /\ ReadInv /\ WaitHonest
  BY DEF IInv
<1>2. TypeOK' /\ SlotInv'
  BY <1>1, StepType, SlotStep
<1>3. HandleInv' /\ CoverInv' /\ UniqueIdentity'
  BY <1>1, HandleStep, CoverStep, IdentityStep
<1>4. ClockInv' /\ AckInv'
  BY <1>1, ClockStep, AckStep
<1>5. WaitInv' /\ ReadInv' /\ WaitHonest'
  BY <1>1, WaitInvStep, ReadInvStep, HonestStep
<1> QED BY <1>2, <1>3, <1>4, <1>5 DEF IInv

\* IInv is an invariant of every run.
LEMMA Invariance == Spec => []IInv
<1> QED BY InitInv, NextInv, PTL DEF Spec

\* Every variable keeps its type.
THEOREM TypeCorrect == Spec => []TypeOK
<1>1. IInv => TypeOK
  BY DEF IInv
<1> QED BY <1>1, Invariance, PTL

\* No two create() calls return the same slot and generation, however their
\* scans interleave with each other and with expiring leases.
THEOREM IdentityUnique == Spec => []UniqueIdentity
<1>1. IInv => UniqueIdentity
  BY DEF IInv
<1> QED BY <1>1, Invariance, PTL

\* A wait() tells an outcome its own event was given, and "expired" only if a
\* newer event has the slot.
THEOREM WaitsHonest == Spec => []WaitHonest
<1>1. IInv => WaitHonest
  BY DEF IInv
<1> QED BY <1>1, Invariance, PTL

\* The two entries of a generation are its creation and its end.
LEMMA OutcomeOnce == IInv => OneOutcome
<1> SUFFICES ASSUME IInv PROVE OneOutcome
  OBVIOUS
<1>1. ASSUME NEW c \in Creates, NEW st \in Written(c), NEW st2 \in Written(c)
      PROVE  st = st2
  <2>1. PICK q \in Seq(Entry) : q = log[Slot(c)] /\ Ordered(q)
    BY HolderType DEF IInv, SlotInv, TypeOK, SlotsTypeOK
  <2>2. PICK i \in 1 .. Len(q), j \in 1 .. Len(q) :
          /\ q[i] = Note(Generation(c), st)
          /\ q[j] = Note(Generation(c), st2)
    BY <2>1 DEF Written
  <2>3. /\ q[i].generation = q[j].generation
        /\ q[i].state = st /\ q[j].state = st2
        /\ st \in Outcomes /\ st2 \in Outcomes
    BY <2>2 DEF Note, Written
  <2>4. ~(i < j) /\ ~(j < i)
    BY <2>1, <2>3, StatesDiffer DEF Ordered
  <2>5. i = j
    BY <2>4
  <2> QED BY <2>3, <2>5
<1> QED BY <1>1 DEF OneOutcome, IInv, AckInv

\* An event ends once, in the state the first set() was acknowledged for or by
\* losing its lease.
THEOREM OneOutcomeHolds == Spec => []OneOutcome
<1> QED BY OutcomeOnce, Invariance, PTL

\* A waiter about to block in XREAD waits for an event that is still active:
\* neither the gap between the snapshot and XREAD nor the trimming of the
\* stream loses its wakeup.
THEOREM NoWakeupLost == Spec => []NoLostWakeup
<1>1. IInv => NoLostWakeup
  <2> SUFFICES ASSUME IInv, NEW w \in Waits, wpc[w] = "read", Decisive(w) = {},
                      Status(target[w]) # "created"
               PROVE  FALSE
    BY DEF NoLostWakeup
  <2>1. PICK c \in Creates : c = target[w] /\ Exists(c)
    BY DEF IInv, WaitInv
  <2>2. PICK q \in Seq(Entry) : q = log[Slot(c)]
    BY HolderType DEF IInv, TypeOK, SlotsTypeOK
  <2>3. Status(c) # "created"
    BY <2>1
  <2>4. Len(q) > 0 /\ Decides(c, q[Len(q)])
    BY <2>1, <2>2, <2>3, EndedIsLast DEF IInv
  <2>5. /\ last[w] <= Len(q)
        /\ last[w] > 0 => ~Decides(c, q[last[w]])
        /\ last[w] \in Nat
    BY <2>1, <2>2 DEF IInv, ReadInv, Waiting, TypeOK
  <2>6. last[w] < Len(q)
    BY <2>4, <2>5
  <2>7. Len(q) \in Fresh(w)
    BY <2>1, <2>2, <2>6, FreshFacts DEF IInv
  <2>8. Len(q) \in Decisive(w)
    BY <2>1, <2>2, <2>4, <2>7 DEF Decisive
  <2> QED BY <2>8
<1> QED BY <1>1, Invariance, PTL

\* A status only moves forward: created, then its outcome, then "expired".
LEMMA ForwardStep ==
  ASSUME IInv, [Next]_vars, NEW c \in Creates, Exists(c)
  PROVE  MovesForward(c)
<1> SUFFICES Status(c)' = Status(c) \/ Rank(Status(c)) < Rank(Status(c)')
  BY DEF MovesForward
<1>1. handle'[c] = handle[c]
  BY HandlesStay DEF IInv
<1>2. Slot(c) \in Slots /\ Slot(c)' = Slot(c) /\ Generation(c)' = Generation(c)
  BY <1>1, HolderType DEF IInv, Slot, Generation
<1>3. meta' \in [Slots -> Meta] /\ SlotsAdvance
  BY StepAdvances DEF IInv
<1>4. PICK m \in Meta, m2 \in Meta, g \in Nat :
        /\ m = meta[Slot(c)] /\ m2 = meta'[Slot(c)] /\ g = Generation(c)
        /\ 0 < g /\ g <= m.generation
  BY <1>2, <1>3, HolderType DEF IInv, TypeOK, SlotsTypeOK, HandleInv, Exists
<1>5. /\ Status(c) = IF m.generation # g THEN "expired" ELSE m.state
      /\ Status(c)' = IF m2.generation # g THEN "expired" ELSE m2.state
  BY <1>2, <1>4 DEF Status
<1>6. m.generation \in Nat /\ m2.generation \in Nat /\ m.state \in States
  BY DEF Meta
<1>7. Advances(log[Slot(c)], m, log'[Slot(c)], m2)
  BY <1>2, <1>3, <1>4 DEF SlotsAdvance
<1>8. /\ Rank("created") = 0 /\ Rank("expired") = 2
      /\ \A st \in Outcomes : Rank(st) = 1
  BY DEF Rank, Outcomes, TerminalStates
<1> DEFINE q == log[Slot(c)]
           q2 == log'[Slot(c)]
<1>9. CASE Touches(q, m, q2, m2)
  BY <1>5, <1>9 DEF Touches
<1>10. ASSUME NEW st \in Outcomes, Ends(q, m, q2, m2, st)
       PROVE  Status(c)' = Status(c) \/ Rank(Status(c)) < Rank(Status(c)')
  <2>1. m2.generation = m.generation /\ m.state = "created" /\ m2.state = st
    BY <1>10 DEF Ends
  <2> QED BY <1>5, <1>8, <2>1
<1>11. CASE Opens(q, m, q2, m2) \/ EndsAndOpens(q, m, q2, m2)
  <2>1. m2.generation = m.generation + 1
    BY <1>11 DEF Opens, EndsAndOpens
  <2>2. Status(c)' = "expired"
    BY <1>4, <1>5, <1>6, <2>1
  <2>3. Status(c) = "expired" \/ Rank(Status(c)) < 2
    BY <1>5, <1>6, <1>8 DEF States
  <2> QED BY <1>8, <2>2, <2>3
<1> QED BY <1>7, <1>9, <1>10, <1>11 DEF Advances

\* What status() shows of an event moves forward only.
THEOREM StatusesForward == Spec => StatusForward
<1>1. IInv /\ [Next]_vars =>
        [\A c \in Creates : Exists(c) => MovesForward(c)]_vars
  BY ForwardStep
<1> QED BY <1>1, Invariance, PTL DEF Spec, StatusForward

\* An event whose status changes was set, or its slot was probed by a create
\* that found its lease or its retention run out.
LEMMA EarlyStep ==
  ASSUME IInv, [Next]_vars, NEW c \in Creates, Exists(c)
  PROVE  /\ Status(c) = "created" /\ Status(c)' # "created" /\ acked'[c] = "none" =>
              meta[Slot(c)].leaseUntil <= now
         /\ Status(c) \in Outcomes /\ Status(c)' = "expired" =>
              meta[Slot(c)].reusableAt <= now
<1>1. handle'[c] = handle[c]
  BY HandlesStay DEF IInv
<1>2. Slot(c) \in Slots /\ Slot(c)' = Slot(c) /\ Generation(c)' = Generation(c)
  BY <1>1, HolderType DEF IInv, Slot, Generation
<1>3. meta' \in [Slots -> Meta] /\ SlotsAdvance
  BY StepAdvances DEF IInv
<1>4. PICK m \in Meta, m2 \in Meta, g \in Nat :
        /\ m = meta[Slot(c)] /\ m2 = meta'[Slot(c)] /\ g = Generation(c)
        /\ 0 < g
  BY <1>2, <1>3, HolderType DEF IInv, TypeOK, SlotsTypeOK, Exists
<1>5. /\ Status(c) = IF m.generation # g THEN "expired" ELSE m.state
      /\ Status(c)' = IF m2.generation # g THEN "expired" ELSE m2.state
  BY <1>2, <1>4 DEF Status
<1>6. /\ m.generation \in Nat /\ m.state \in States
      /\ m.leaseUntil \in Nat /\ m.reusableAt \in Nat
      /\ now \in Nat
  BY DEF Meta, IInv, TypeOK
<1> DEFINE Goal == /\ Status(c) = "created" /\ Status(c)' # "created" /\ acked'[c] = "none" =>
                        m.leaseUntil <= now
                   /\ Status(c) \in Outcomes /\ Status(c)' = "expired" => m.reusableAt <= now
<1> SUFFICES Goal
  BY <1>4
<1>7. CASE m2.generation = m.generation /\ m2.state = m.state
  <2>1. Status(c)' = Status(c)
    BY <1>5, <1>7
  <2> QED BY <2>1, StatesDiffer
<1>8. \A d \in Creates : seen[d] \in Nat /\ seen[d] <= now
  BY DEF IInv, TypeOK, ClockInv
<1>9. ASSUME NEW d \in Creates, CreateStep(d), ~(m2.generation = m.generation /\ m2.state = m.state)
      PROVE  m.generation > 0 => /\ m.state = "created" => m.leaseUntil <= now
                                 /\ m.state \in Outcomes => m.reusableAt <= now
  <2>1. \/ \E s, lease, r : \/ Claim(s, seen[d], lease) \/ AbandonAndClaim(s, seen[d], lease, r)
                           \/ Abandon(s, seen[d], r)
        \/ meta' = meta
    BY <1>9 DEF CreateStep, CreateStart, ReadClock, NextSlot, Claimed, Refused, Refuse, slotVars
  <2>2. PICK s, lease, r : \/ Claim(s, seen[d], lease) \/ AbandonAndClaim(s, seen[d], lease, r)
                           \/ Abandon(s, seen[d], r)
    BY <1>4, <1>9, <2>1
  <2>3. s = Slot(c)
    <3>1. \E x : meta' = [meta EXCEPT ![s] = x]
      BY <2>2 DEF Claim, AbandonAndClaim, Abandon
    <3>2. s # Slot(c) => m2 = m
      BY <1>2, <1>4, <3>1 DEF IInv, TypeOK, SlotsTypeOK
    <3> QED BY <1>9, <3>2
  <2>4. CASE Claim(s, seen[d], lease)
    BY <1>4, <1>6, <1>8, <2>3, <2>4, StatesDiffer DEF Claim, Claimable
  <2>5. CASE AbandonAndClaim(s, seen[d], lease, r) \/ Abandon(s, seen[d], r)
    BY <1>4, <1>6, <1>8, <2>3, <2>5, StatesDiffer DEF AbandonAndClaim, Abandon, LeaseExpired
  <2> QED BY <2>2, <2>4, <2>5
<1>10. CASE \E d \in Creates : CreateStep(d)
  <2>1. /\ ~(m2.generation = m.generation /\ m2.state = m.state)
        /\ m.generation > 0
        => /\ m.state = "created" => m.leaseUntil <= now
           /\ m.state \in Outcomes => m.reusableAt <= now
    BY <1>9, <1>10
  <2>2. Status(c) = "created" \/ Status(c) \in Outcomes => Status(c) = m.state /\ m.generation = g
    BY <1>5 DEF Outcomes, TerminalStates
  <2> QED BY <1>4, <1>7, <2>1, <2>2
<1>11. ASSUME NEW d \in Creates, NEW st \in SetStates, Set(d, st)
       PROVE  Goal
  <2>1. /\ Exists(d)
        /\ meta[Slot(d)].generation = Generation(d)
        /\ meta'[Slot(d)].generation = Generation(d)
        /\ \A u \in Slots \ {Slot(d)} : meta'[u] = meta[u]
    BY <1>11, SetFacts DEF IInv
  <2>2. CASE Slot(d) # Slot(c)
    BY <1>2, <1>4, <1>7, <2>1, <2>2
  <2>3. CASE Slot(d) = Slot(c) /\ m.generation = g
    <3>1. handle[d] = handle[c]
      BY <1>4, <2>1, <2>3 DEF IInv, TypeOK, Handle, Slot, Generation
    <3>2. d = c
      BY <2>1, <3>1 DEF IInv, UniqueIdentity
    <3>3. acked'[c] = st /\ st # "none"
      BY <1>11, <3>2 DEF Set, IInv, TypeOK, TerminalStates
    <3>4. Status(c)' # "expired"
      <4>1. m2.generation = g
        BY <1>4, <2>1, <2>3
      <4>2. m2.state \in States
        BY DEF Meta
      <4> QED BY <1>5, <4>1, <4>2, StatesDiffer
    <3> QED BY <3>3, <3>4
  <2>4. CASE Slot(d) = Slot(c) /\ m.generation # g
    <3>1. Status(c) = "expired"
      BY <1>5, <2>4
    <3> QED BY <3>1, StatesDiffer
  <2> QED BY <2>2, <2>3, <2>4
<1>12. ASSUME NEW d \in Creates, Refresh(d) \/ ReleaseEvent(d)
       PROVE  m2.generation = m.generation /\ m2.state = m.state
  <2>1. meta \in [Slots -> Meta]
    BY DEF IInv, TypeOK, SlotsTypeOK
  <2>2. CASE Refresh(d)
    BY <1>2, <1>4, <2>1, <2>2 DEF Refresh, RefreshLease, Meta
  <2>3. CASE ReleaseEvent(d)
    BY <1>2, <1>4, <2>1, <2>3 DEF ReleaseEvent, Release, Meta
  <2> QED BY <1>12, <2>2, <2>3
<1>13. ASSUME NEW w \in Waits, WaitStep(w) \/ \E d \in Creates : WaitStart(w, d)
       PROVE  meta' = meta
  BY <1>13, WaitKeeps
<1>14. CASE Tick \/ UNCHANGED vars
  BY <1>4, <1>7, <1>14 DEF Tick, vars, slotVars
<1> HIDE DEF Goal
<1> QED BY <1>4, <1>7, <1>10, <1>11, <1>12, <1>13, <1>14 DEF Next, HolderStep

\* No event is abandoned before its lease, nor a slot reused before its
\* retention, has run out on the clock.
THEOREM TakenInTime == Spec => NotTakenEarly
<1>1. IInv /\ [Next]_vars =>
        [\A c \in Creates : Exists(c) =>
          /\ Status(c) = "created" /\ Status(c)' # "created" /\ acked'[c] = "none" =>
               meta[Slot(c)].leaseUntil <= now
          /\ Status(c) \in Outcomes /\ Status(c)' = "expired" =>
               meta[Slot(c)].reusableAt <= now]_vars
  BY EarlyStep
<1> QED BY <1>1, Invariance, PTL DEF Spec, NotTakenEarly

-----------------------------------------------------------------------------
(* RpcEvent implements EventPromise.                                       *)

\* The outcomes that a stream q says generation g was given.
Given(q, g) == {st \in Outcomes : \E i \in 1 .. Len(q) : q[i] = Note(g, st)}

\* Only the appended entry can add an outcome.
LEMMA GivenAppend ==
  ASSUME NEW q \in Seq(Entry), NEW g, NEW h \in Nat \ {0}, NEW st \in States
  PROVE  /\ g = h /\ st \in Outcomes => Given(Append(q, Note(h, st)), g) = Given(q, g) \cup {st}
         /\ g # h \/ st \notin Outcomes => Given(Append(q, Note(h, st)), g) = Given(q, g)
<1>1. PICK e \in Entry : e = Note(h, st) /\ e.generation = h /\ e.state = st
  BY NoteType
<1>2. PICK q2 \in Seq(Entry) :
        /\ q2 = Append(q, e)
        /\ Len(q2) = Len(q) + 1
        /\ \A i \in 1 .. Len(q) : q2[i] = q[i]
        /\ q2[Len(q) + 1] = e
  <2>1. /\ Append(q, e) \in Seq(Entry)
        /\ Len(Append(q, e)) = Len(q) + 1
        /\ \A i \in 1 .. Len(q) : Append(q, e)[i] = q[i]
        /\ Append(q, e)[Len(q) + 1] = e
    BY AppendFacts
  <2> QED BY <2>1
<1>3. \A x : (\E i \in 1 .. Len(q2) : q2[i] = x) <=> (\E i \in 1 .. Len(q) : q[i] = x) \/ x = e
  <2>1. ASSUME NEW i \in 1 .. Len(q2)
        PROVE  (\E j \in 1 .. Len(q) : q[j] = q2[i]) \/ q2[i] = e
    <3>1. i \in 1 .. Len(q) \/ i = Len(q) + 1
      BY <1>2
    <3> QED BY <1>2, <3>1
  <2>2. ASSUME NEW i \in 1 .. Len(q)
        PROVE  \E j \in 1 .. Len(q2) : q2[j] = q[i]
    <3>1. i \in 1 .. Len(q2)
      BY <1>2
    <3> QED BY <1>2, <3>1
  <2>3. Len(q) + 1 \in 1 .. Len(q2)
    BY <1>2
  <2> QED BY <1>2, <2>1, <2>2, <2>3
<1>4. \A x : Note(g, x) = e <=> g = h /\ x = st
  BY <1>1 DEF Note
<1>5. \A x : x \in Given(q2, g) <=> x \in Given(q, g) \/ (x \in Outcomes /\ g = h /\ x = st)
  BY <1>3, <1>4 DEF Given
<1> QED BY <1>1, <1>2, <1>5

\* The newest event of a slot has the outcome its metadata say, if any.
LEMMA GivenNow ==
  ASSUME NEW q \in Seq(Entry), NEW m \in Meta, Ordered(q), Agrees(q, m), m.generation > 0
  PROVE  Given(q, m.generation) = IF m.state = "created" THEN {} ELSE {m.state}
<1>1. Len(q) \in 1 .. Len(q) /\ q[Len(q)] = Note(m.generation, m.state)
  BY DEF Agrees, Meta
<1>2. m.generation \in Nat \ {0} /\ m.state \in States
  BY DEF Meta
<1>3. ASSUME NEW st \in Given(q, m.generation)
      PROVE  st = m.state /\ st # "created"
  <2>1. PICK i \in 1 .. Len(q) : q[i] = Note(m.generation, st)
    BY DEF Given
  <2>2. st \in Outcomes /\ st # "created"
    BY StatesDiffer DEF Given
  <2>3. q[i].generation = m.generation /\ q[i].state = st
    BY <2>1 DEF Note
  <2>4. q[Len(q)].generation = m.generation /\ q[Len(q)].state = m.state
    BY <1>1 DEF Note
  <2>5. i = Len(q)
    BY <1>1, <2>2, <2>3, <2>4 DEF Ordered
  <2> QED BY <2>2, <2>3, <2>4, <2>5
<1>4. m.state # "created" => m.state \in Given(q, m.generation)
  BY <1>1, <1>2 DEF Given, States
<1> QED BY <1>3, <1>4

\* How a script changes the outcomes of the events of its slot.
GivenStep(q, m, q2, m2, g) ==
  /\ Touches(q, m, q2, m2) \/ Opens(q, m, q2, m2) => Given(q2, g) = Given(q, g)
  /\ \A st \in Outcomes : Ends(q, m, q2, m2, st) =>
       IF g = m.generation THEN Given(q, g) = {} /\ Given(q2, g) = {st}
                           ELSE Given(q2, g) = Given(q, g)
  /\ EndsAndOpens(q, m, q2, m2) =>
       IF g = m.generation THEN Given(q, g) = {} /\ Given(q2, g) = {"abandoned"}
                           ELSE Given(q2, g) = Given(q, g)

\* Only the newest event gets an outcome, and only if it ends.
LEMMA GivenAdvances ==
  ASSUME NEW q \in Seq(Entry), NEW m \in Meta, Ordered(q), Agrees(q, m),
         NEW g \in Nat, 0 < g, g <= m.generation, NEW q2, NEW m2 \in Meta
  PROVE  GivenStep(q, m, q2, m2, g)
<1>0. /\ m.generation \in Nat \ {0} /\ m.generation + 1 \in Nat \ {0}
      /\ g # m.generation + 1
      /\ "created" \in States /\ "created" \notin Outcomes
  BY StatesDiffer DEF Meta
<1>1. Touches(q, m, q2, m2) => Given(q2, g) = Given(q, g)
  BY DEF Touches
<1>2. ASSUME Opens(q, m, q2, m2)
      PROVE  Given(q2, g) = Given(q, g)
  <2>1. PICK h \in Nat \ {0} : h = m.generation + 1 /\ g # h
    BY <1>0
  <2>2. q2 = Append(q, Note(h, "created"))
    BY <1>2, <2>1 DEF Opens
  <2> QED BY <1>0, <2>1, <2>2, GivenAppend
<1>3. m.state = "created" => Given(q, m.generation) = {}
  <2>1. m.generation > 0
    BY <1>0
  <2>2. Given(q, m.generation) = IF m.state = "created" THEN {} ELSE {m.state}
    BY <2>1, GivenNow
  <2> QED BY <2>2
<1>4. ASSUME NEW st \in Outcomes, m.state = "created", NEW q1, q1 = Append(q, Note(m.generation, st))
      PROVE  IF g = m.generation THEN Given(q, g) = {} /\ Given(q1, g) = {st}
                                 ELSE Given(q1, g) = Given(q, g)
  <2>1. st \in States
    BY StatesDiffer
  <2> QED BY <1>0, <1>3, <1>4, <2>1, GivenAppend
<1>5. ASSUME NEW st \in Outcomes, Ends(q, m, q2, m2, st)
      PROVE  IF g = m.generation THEN Given(q, g) = {} /\ Given(q2, g) = {st}
                                 ELSE Given(q2, g) = Given(q, g)
  BY <1>4, <1>5 DEF Ends
<1>6. ASSUME EndsAndOpens(q, m, q2, m2)
      PROVE  IF g = m.generation THEN Given(q, g) = {} /\ Given(q2, g) = {"abandoned"}
                                 ELSE Given(q2, g) = Given(q, g)
  <2>1. PICK e \in Entry : e = Note(m.generation, "abandoned")
    BY <1>0, NoteType, StatesDiffer
  <2>2. PICK q1 \in Seq(Entry) : q1 = Append(q, Note(m.generation, "abandoned"))
    BY <2>1, AppendFacts
  <2>3. Given(q2, g) = Given(q1, g)
    <3>1. PICK h \in Nat \ {0} : h = m.generation + 1 /\ g # h
      BY <1>0
    <3>2. q2 = Append(q1, Note(h, "created"))
      BY <1>6, <2>2, <3>1 DEF EndsAndOpens
    <3> QED BY <1>0, <3>1, <3>2, GivenAppend
  <2>4. IF g = m.generation THEN Given(q, g) = {} /\ Given(q1, g) = {"abandoned"}
                            ELSE Given(q1, g) = Given(q, g)
    BY <1>4, <1>6, <2>2, StatesDiffer DEF EndsAndOpens
  <2> QED BY <2>3, <2>4
<1> QED BY <1>1, <1>2, <1>5, <1>6 DEF GivenStep

\* An event looks the same to EventPromise before and after a step.
SameView(c) == /\ OutcomeView'[c] = OutcomeView[c]
               /\ c \in RecycledView' <=> c \in RecycledView

\* How EventPromise sees an event, from its stream and metadata.
LEMMA ViewFacts ==
  ASSUME NEW c \in Creates
  PROVE  /\ ~Exists(c) => OutcomeView[c] = "unborn" /\ c \notin RecycledView
         /\ Exists(c) =>
              /\ Written(c) = {} => OutcomeView[c] = "open"
              /\ \A st : Written(c) = {st} => OutcomeView[c] = st
              /\ c \in RecycledView <=> Status(c) = "expired"
<1>1. \A st : (CHOOSE x \in {st} : TRUE) = st
  OBVIOUS
<1> QED BY <1>1 DEF OutcomeView, RecycledView

\* The same after a step.
LEMMA ViewFactsNext ==
  ASSUME NEW c \in Creates
  PROVE  /\ ~Exists(c)' => OutcomeView'[c] = "unborn" /\ c \notin RecycledView'
         /\ Exists(c)' =>
              /\ Written(c)' = {} => OutcomeView'[c] = "open"
              /\ \A st : Written(c)' = {st} => OutcomeView'[c] = st
              /\ c \in RecycledView' <=> Status(c)' = "expired"
<1>1. \A st : (CHOOSE x \in {st} : TRUE) = st
  OBVIOUS
<1> QED BY <1>1 DEF OutcomeView, RecycledView

\* An event nobody created yet, and that no one creates now.
LEMMA UnbornView ==
  ASSUME NEW c \in Creates, ~Exists(c), handle'[c] = handle[c]
  PROVE  SameView(c)
<1>1. ~Exists(c)'
  BY DEF Exists, Generation
<1> QED BY <1>1, ViewFacts, ViewFactsNext DEF SameView

\* What the next step of its slot means for an event.
LEMMA EventStep ==
  ASSUME IInv, [Next]_vars, NEW c \in Creates, Exists(c),
         NEW q, NEW m, NEW q2, NEW m2, NEW g,
         q = log[Slot(c)], m = meta[Slot(c)], q2 = log'[Slot(c)], m2 = meta'[Slot(c)],
         g = Generation(c)
  PROVE  /\ Touches(q, m, q2, m2) => SameView(c)
         /\ Advances(q, m, q2, m2) /\ g # m.generation => SameView(c)
         /\ g = m.generation => c \notin RecycledView
         /\ \A st \in Outcomes : Ends(q, m, q2, m2, st) /\ g = m.generation =>
              OutcomeView[c] = "open" /\ OutcomeView'[c] = st /\ c \notin RecycledView'
         /\ Opens(q, m, q2, m2) /\ g = m.generation =>
              /\ OutcomeView[c] \in Outcomes /\ OutcomeView'[c] = OutcomeView[c]
              /\ c \in RecycledView'
         /\ EndsAndOpens(q, m, q2, m2) /\ g = m.generation =>
              OutcomeView[c] = "open" /\ OutcomeView'[c] = "abandoned" /\ c \in RecycledView'
<1>1. handle'[c] = handle[c] /\ Exists(c)'
  BY HandlesStay DEF IInv
<1>2. Slot(c) \in Slots /\ Slot(c)' = Slot(c) /\ Generation(c)' = g
  BY <1>1, HolderType DEF IInv, Slot, Generation
<1>3. /\ q \in Seq(Entry) /\ m \in Meta /\ m2 \in Meta
      /\ Ordered(q) /\ Agrees(q, m)
      /\ g \in Nat /\ 0 < g /\ g <= m.generation
  BY <1>2, SlotStep, HolderType DEF IInv, TypeOK, SlotsTypeOK, SlotInv, HandleInv, Exists
<1>a. GivenStep(q, m, q2, m2, g)
  BY <1>3, GivenAdvances
<1>4. Written(c) = Given(q, g) /\ Written(c)' = Given(q2, g)
  BY <1>2 DEF Written, Given
<1>5. /\ m.generation \in Nat /\ m.state \in States
      /\ m2.generation \in Nat /\ m2.state \in States
  BY <1>3 DEF Meta
<1>6. /\ Status(c) = "expired" <=> m.generation # g
      /\ Status(c)' = "expired" <=> m2.generation # g
  BY <1>2, <1>5, StatesDiffer DEF Status
<1>7. /\ c \in RecycledView <=> m.generation # g
      /\ c \in RecycledView' <=> m2.generation # g
  BY <1>1, <1>6, ViewFacts, ViewFactsNext
<1>8. /\ Given(q, g) = {} => OutcomeView[c] = "open"
      /\ \A st : Given(q2, g) = {st} => OutcomeView'[c] = st
      /\ \A st : Given(q, g) = {st} => OutcomeView[c] = st
  BY <1>1, <1>4, ViewFacts, ViewFactsNext
<1>9. Given(q2, g) = Given(q, g) => OutcomeView'[c] = OutcomeView[c]
  BY <1>1, <1>4 DEF OutcomeView
<1>10. Touches(q, m, q2, m2) => SameView(c)
  <2>1. Touches(q, m, q2, m2) => Given(q2, g) = Given(q, g) /\ m2.generation = m.generation
    BY DEF Touches
  <2> QED BY <1>7, <1>9, <2>1 DEF SameView
<1>11. ASSUME Advances(q, m, q2, m2), g # m.generation
       PROVE  SameView(c)
  <2>1. Given(q2, g) = Given(q, g)
    BY <1>11, <1>a DEF Advances, GivenStep
  <2>2. m2.generation # g
    BY <1>3, <1>5, <1>11 DEF Advances, Touches, Ends, Opens, EndsAndOpens
  <2> QED BY <1>7, <1>9, <1>11, <2>1, <2>2 DEF SameView
<1>12. ASSUME NEW st \in Outcomes, Ends(q, m, q2, m2, st), g = m.generation
       PROVE  OutcomeView[c] = "open" /\ OutcomeView'[c] = st /\ c \notin RecycledView'
  <2>1. Given(q, g) = {} /\ Given(q2, g) = {st}
    BY <1>12, <1>a DEF GivenStep
  <2>2. m2.generation = g
    BY <1>12 DEF Ends
  <2> QED BY <1>7, <1>8, <2>1, <2>2
<1>13. ASSUME Opens(q, m, q2, m2), g = m.generation
       PROVE  /\ OutcomeView[c] \in Outcomes /\ OutcomeView'[c] = OutcomeView[c]
              /\ c \in RecycledView'
  <2>1. Given(q2, g) = Given(q, g)
    BY <1>13, <1>a DEF GivenStep
  <2>2. m2.generation # g /\ m.state \in Outcomes
    BY <1>3, <1>5, <1>13 DEF Opens
  <2>3. Given(q, g) = {m.state}
    <3>1. Given(q, m.generation) = IF m.state = "created" THEN {} ELSE {m.state}
      BY <1>3, <1>13, GivenNow
    <3> QED BY <1>13, <2>2, <3>1, StatesDiffer
  <2> QED BY <1>7, <1>8, <1>9, <2>1, <2>2, <2>3
<1>14. ASSUME EndsAndOpens(q, m, q2, m2), g = m.generation
       PROVE  OutcomeView[c] = "open" /\ OutcomeView'[c] = "abandoned" /\ c \in RecycledView'
  <2>1. Given(q, g) = {} /\ Given(q2, g) = {"abandoned"}
    BY <1>14, <1>a DEF GivenStep
  <2>2. m2.generation # g
    BY <1>3, <1>5, <1>14 DEF EndsAndOpens
  <2> QED BY <1>7, <1>8, <2>1, <2>2
<1> QED BY <1>7, <1>10, <1>11, <1>12, <1>13, <1>14

\* Views are functions and sets of events: they change where an event does.
LEMMA ViewsChange ==
  /\ OutcomeView = [c \in Creates |-> OutcomeView[c]]
  /\ OutcomeView' = [c \in Creates |-> OutcomeView'[c]]
  /\ RecycledView \subseteq Creates /\ RecycledView' \subseteq Creates
<1> QED BY DEF OutcomeView, RecycledView

\* If nothing changes for any event, and no waiter moves, it is a stutter.
LEMMA StutterRefines ==
  ASSUME \A c \in Creates : SameView(c), UNCHANGED <<target, told>>
  PROVE  UNCHANGED Promise!evars
<1>1. OutcomeView' = OutcomeView /\ RecycledView' = RecycledView
  BY ViewsChange DEF SameView
<1> QED BY <1>1 DEF Promise!evars

\* The parts of EventPromise's next-state relation: an event changes, ...
LEMMA EventMoves ==
  ASSUME NEW c \in Creates, UNCHANGED <<target, told>>, OutcomeView'[c] # OutcomeView[c],
         \/ Promise!Create(c)
         \/ \E old \in Creates \ {c} : Promise!Replace(c, old) \/ Promise!Evict(c, old)
         \/ \E o \in TerminalStates \cup {"abandoned"} : Promise!End(c, o)
  PROVE  Promise!Next
<1>1. OutcomeView' # OutcomeView
  OBVIOUS
<1> QED BY <1>1 DEF Promise!Next

\* ... or a waiter does.
LEMMA WaiterMoves ==
  ASSUME NEW w \in Waits, UNCHANGED <<OutcomeView, RecycledView>>,
         target' # target \/ told' # told,
         \/ \E c \in Creates : Promise!Ask(w, c)
         \/ Promise!TellOutcome(w) \/ Promise!TellExpired(w) \/ Promise!TellNothing(w)
  PROVE  Promise!Next
BY DEF Promise!Next

\* A step that touches no slot but its times.
LEMMA TouchRefines ==
  ASSUME IInv, [Next]_vars, handle' = handle, UNCHANGED <<target, told>>,
         \A s \in Slots : Touches(log[s], meta[s], log'[s], meta'[s])
  PROVE  UNCHANGED Promise!evars
<1>1. ASSUME NEW c \in Creates, Exists(c)
      PROVE  SameView(c)
  <2>1. Slot(c) \in Slots
    BY HolderType DEF IInv
  <2>2. PICK q, m, q2, m2, g :
          /\ q = log[Slot(c)] /\ m = meta[Slot(c)] /\ q2 = log'[Slot(c)] /\ m2 = meta'[Slot(c)]
          /\ g = Generation(c)
    OBVIOUS
  <2>3. Touches(q, m, q2, m2)
    BY <2>1, <2>2
  <2> QED BY <1>1, <2>2, <2>3, EventStep
<1>2. ASSUME NEW c \in Creates, ~Exists(c)
      PROVE  SameView(c)
  BY <1>2, UnbornView
<1> QED BY <1>1, <1>2, StutterRefines

\* In a step that changes one slot, only its newest event changes.
LEMMA OthersSame ==
  ASSUME IInv, [Next]_vars, NEW s \in Slots,
         \A u \in Slots \ {s} : meta'[u] = meta[u] /\ log'[u] = log[u],
         NEW c \in Creates, handle'[c] = handle[c],
         handle[c] # [slot |-> s, generation |-> meta[s].generation]
  PROVE  SameView(c)
<1>1. CASE ~Exists(c)
  BY <1>1, UnbornView
<1>2. CASE Exists(c)
  <2>1. Slot(c) \in Slots /\ handle[c] = [slot |-> Slot(c), generation |-> Generation(c)]
    BY DEF IInv, TypeOK, Handle, Slot, Generation
  <2>2. PICK q, m, q2, m2, g :
          /\ q = log[Slot(c)] /\ m = meta[Slot(c)] /\ q2 = log'[Slot(c)] /\ m2 = meta'[Slot(c)]
          /\ g = Generation(c)
    OBVIOUS
  <2>3. Advances(q, m, q2, m2)
    BY <2>1, <2>2, StepAdvances DEF SlotsAdvance, IInv
  <2>4. CASE Slot(c) # s
    <3>1. Touches(q, m, q2, m2)
      BY <2>1, <2>2, <2>4 DEF Touches
    <3> QED BY <1>2, <2>2, <3>1, EventStep
  <2>5. CASE Slot(c) = s
    <3>1. g # m.generation
      BY <2>1, <2>2, <2>5
    <3> QED BY <1>2, <2>2, <2>3, <3>1, EventStep
  <2> QED BY <2>4, <2>5
<1> QED BY <1>1, <1>2

\* A script that ends an event is EventPromise's End.
LEMMA EndRefines ==
  ASSUME IInv, [Next]_vars, handle' = handle, UNCHANGED <<target, told>>,
         NEW s \in Slots, NEW st \in Outcomes,
         Ends(log[s], meta[s], log'[s], meta'[s], st),
         \A u \in Slots \ {s} : meta'[u] = meta[u] /\ log'[u] = log[u]
  PROVE  Promise!Next
<1>1. meta[s].generation \in 1 .. meta[s].generation
  BY DEF Ends, IInv, TypeOK, SlotsTypeOK, Meta
<1>2. PICK c \in Creates : handle[c] = [slot |-> s, generation |-> meta[s].generation]
  BY <1>1 DEF IInv, CoverInv
<1>3. Exists(c) /\ Slot(c) = s /\ Generation(c) = meta[s].generation
  BY <1>1, <1>2 DEF Exists, Slot, Generation
<1>4. PICK q, m, q2, m2, g :
        /\ q = log[Slot(c)] /\ m = meta[Slot(c)] /\ q2 = log'[Slot(c)] /\ m2 = meta'[Slot(c)]
        /\ g = Generation(c)
  OBVIOUS
<1>5. Ends(q, m, q2, m2, st) /\ g = m.generation
  BY <1>3, <1>4
<1>6. /\ OutcomeView[c] = "open" /\ OutcomeView'[c] = st
      /\ c \notin RecycledView /\ c \notin RecycledView'
  BY <1>3, <1>4, <1>5, EventStep
<1>7. ASSUME NEW d \in Creates \ {c}
      PROVE  SameView(d)
  <2>1. handle[d] # handle[c]
    BY <1>3 DEF IInv, UniqueIdentity
  <2> QED BY <1>2, <2>1, OthersSame
<1>8. OutcomeView' = [OutcomeView EXCEPT ![c] = st]
  BY <1>6, <1>7, ViewsChange DEF SameView
<1>9. RecycledView' = RecycledView
  <2>1. \A d \in Creates : d \in RecycledView' <=> d \in RecycledView
    BY <1>6, <1>7 DEF SameView
  <2>2. RecycledView \subseteq Creates /\ RecycledView' \subseteq Creates
    BY ViewsChange
  <2> QED BY ONLY <2>1, <2>2
<1>10. Promise!End(c, st)
  BY <1>6, <1>8, <1>9 DEF Promise!End
<1>11. OutcomeView'[c] # OutcomeView[c]
  BY <1>6 DEF Outcomes, TerminalStates
<1> QED BY <1>10, <1>11, EventMoves DEF Outcomes

\* A script that claims a slot opens an event: in a new place, in the place of
\* an ended event, or of one it abandons.
LEMMA ClaimRefines ==
  ASSUME IInv, [Next]_vars, NEW c \in Creates, Claimed(c)
  PROVE  Promise!Next
<1>1. PICK s \in Slots, g \in Nat :
        /\ s = Probed(c)
        /\ g = meta[s].generation
        /\ handle'[c] = [slot |-> s, generation |-> g + 1]
        /\ \A d \in Creates \ {c} : handle'[d] = handle[d]
        /\ \A u \in Slots \ {s} : meta'[u] = meta[u] /\ log'[u] = log[u]
        /\ \/ Opens(log[s], meta[s], log'[s], meta'[s])
           \/ EndsAndOpens(log[s], meta[s], log'[s], meta'[s])
        /\ ~Exists(c)
  <2>1. Probed(c) \in Slots /\ meta[Probed(c)].generation \in Nat
    BY ProbedType DEF IInv, TypeOK, SlotsTypeOK, Meta
  <2> QED BY <2>1, ClaimedFacts DEF IInv
<1>2. UNCHANGED <<target, told>>
  BY DEF Claimed, waitVars
<1>3. OutcomeView[c] = "unborn" /\ c \notin RecycledView
  BY <1>1, ViewFacts
<1>4. OutcomeView'[c] = "open" /\ c \notin RecycledView'
  <2>1. PICK q2 \in Seq(Entry), m2 \in Meta : q2 = log'[s] /\ m2 = meta'[s] /\ Ordered(q2) /\ Agrees(q2, m2)
    BY SlotStep DEF IInv, SlotInv
  <2>2. m2.generation = g + 1 /\ m2.state = "created"
    BY <1>1, <2>1 DEF Opens, EndsAndOpens
  <2>3. Given(q2, m2.generation) = {}
    <3>1. m2.generation > 0
      BY <2>2
    <3>2. Given(q2, m2.generation) = IF m2.state = "created" THEN {} ELSE {m2.state}
      BY <2>1, <3>1, GivenNow
    <3> QED BY <2>2, <3>2
  <2>4. Slot(c)' = s /\ Generation(c)' = g + 1
    BY <1>1 DEF Slot, Generation
  <2>5. Exists(c)' /\ Written(c)' = {} /\ Status(c)' # "expired"
    BY <2>1, <2>2, <2>3, <2>4 DEF Exists, Written, Given, Status
  <2> QED BY <2>5, ViewFactsNext
<1>5. CASE g = 0
  <2>1. ASSUME NEW d \in Creates \ {c}
        PROVE  SameView(d)
    <3>1. CASE ~Exists(d)
      BY <1>1, <3>1, UnbornView
    <3>2. CASE Exists(d)
      <4>1. handle[d].generation # 0
        BY <3>2 DEF Exists, Generation
      <4>2. handle[d] # [slot |-> s, generation |-> meta[s].generation]
        BY <1>1, <1>5, <4>1
      <4> QED BY <1>1, <4>2, OthersSame
    <3> QED BY <3>1, <3>2
  <2>2. OutcomeView' = [OutcomeView EXCEPT ![c] = "open"] /\ RecycledView' = RecycledView
    BY <1>3, <1>4, <2>1, ViewsChange DEF SameView
  <2>3. Promise!Create(c)
    BY <1>2, <1>3, <2>2 DEF Promise!Create
  <2> QED BY <1>2, <1>3, <1>4, <2>3, EventMoves
<1>6. CASE g > 0
  <2>1. PICK old \in Creates : handle[old] = [slot |-> s, generation |-> g]
    <3>1. g \in 1 .. meta[s].generation
      BY <1>1, <1>6
    <3> QED BY <3>1 DEF IInv, CoverInv
  <2>2. Exists(old) /\ Slot(old) = s /\ Generation(old) = g /\ old # c
    BY <1>1, <1>6, <2>1 DEF Exists, Slot, Generation
  <2>3. PICK q, m, q2, m2 :
          q = log[Slot(old)] /\ m = meta[Slot(old)] /\ q2 = log'[Slot(old)] /\ m2 = meta'[Slot(old)]
    OBVIOUS
  <2>4. g = m.generation /\ (Opens(q, m, q2, m2) \/ EndsAndOpens(q, m, q2, m2))
    BY <1>1, <2>2, <2>3
  <2>5. old \notin RecycledView
    BY <2>2, <2>3, <2>4, EventStep
  <2>6. ASSUME NEW d \in Creates \ {c, old}
        PROVE  SameView(d)
    <3>1. handle[d] # handle[old]
      BY <2>2 DEF IInv, UniqueIdentity
    <3> QED BY <1>1, <2>1, <3>1, OthersSame
  <2>7. CASE Opens(q, m, q2, m2)
    <3>1. /\ OutcomeView[old] \in Outcomes /\ OutcomeView'[old] = OutcomeView[old]
          /\ old \in RecycledView'
      BY <2>2, <2>3, <2>4, <2>7, EventStep
    <3>2. /\ OutcomeView' = [OutcomeView EXCEPT ![c] = "open"]
          /\ RecycledView' = RecycledView \cup {old}
      BY <1>3, <1>4, <2>6, <3>1, ViewsChange DEF SameView
    <3>3. Promise!Replace(c, old)
      BY <1>2, <1>3, <2>5, <3>1, <3>2 DEF Promise!Replace, Promise!Ended, Outcomes, TerminalStates
    <3> QED BY <1>2, <1>3, <1>4, <2>2, <3>3, EventMoves
  <2>8. CASE EndsAndOpens(q, m, q2, m2)
    <3>1. /\ OutcomeView[old] = "open" /\ OutcomeView'[old] = "abandoned"
          /\ old \in RecycledView'
      BY <2>2, <2>3, <2>4, <2>8, EventStep
    <3>2. /\ OutcomeView' = [OutcomeView EXCEPT ![c] = "open", ![old] = "abandoned"]
          /\ RecycledView' = RecycledView \cup {old}
      BY <1>3, <1>4, <2>2, <2>6, <3>1, ViewsChange DEF SameView
    <3>3. Promise!Evict(c, old)
      BY <1>2, <1>3, <3>1, <3>2 DEF Promise!Evict
    <3> QED BY <1>2, <1>3, <1>4, <2>2, <3>3, EventMoves
  <2> QED BY <2>4, <2>7, <2>8
<1> QED BY <1>5, <1>6

\* The other steps of create() probe a slot they cannot have.
LEMMA CreateRefines ==
  ASSUME IInv, [Next]_vars, NEW c \in Creates, CreateStep(c)
  PROVE  Promise!Next \/ UNCHANGED Promise!evars
<1>1. CASE CreateStart(c) \/ ReadClock(c)
  <2>1. UNCHANGED <<handle, target, told, meta, log>>
    BY <1>1 DEF CreateStart, ReadClock, NextSlot, slotVars, waitVars
  <2> QED BY <2>1, TouchRefines DEF Touches
<1>2. CASE Claimed(c)
  BY <1>2, ClaimRefines
<1>3. CASE Refused(c)
  <2>1. UNCHANGED <<handle, target, told>>
    BY <1>3 DEF Refused, waitVars
  <2>2. PICK s \in Slots, t \in Nat, r \in Nat :
          Refuse(s, t) \/ Abandon(s, t, r)
    <3>1. Probed(c) \in Slots /\ seen[c] \in Nat /\ Retention[c] \in Nat
      BY ProbedType DEF IInv, TypeOK
    <3> QED BY <1>3, <3>1 DEF Refused
  <2>3. CASE Refuse(s, t)
    <3>1. UNCHANGED <<meta, log>>
      BY <2>3 DEF Refuse, slotVars
    <3> QED BY <2>1, <3>1, TouchRefines DEF Touches
  <2>4. CASE Abandon(s, t, r)
    <3>1. t + r \in Nat /\ "abandoned" \in Outcomes
      BY StatesDiffer
    <3>2. /\ Ends(log[s], meta[s], log'[s], meta'[s], "abandoned")
          /\ \A u \in Slots \ {s} : meta'[u] = meta[u] /\ log'[u] = log[u]
      BY <2>4, <3>1, EndAdvances DEF Abandon, LeaseExpired, IInv
    <3> QED BY <2>1, <3>1, <3>2, EndRefines
  <2> QED BY <2>2, <2>3, <2>4
<1> QED BY <1>1, <1>2, <1>3 DEF CreateStep

\* set() ends an event; refresh_lease() and release() move its times.
LEMMA HolderRefines ==
  ASSUME IInv, [Next]_vars, NEW c \in Creates, HolderStep(c)
  PROVE  Promise!Next \/ UNCHANGED Promise!evars
<1>1. UNCHANGED <<handle, target, told>>
  BY DEF HolderStep, Set, Refresh, ReleaseEvent, createVars, waitVars
<1>2. Slot(c) \in Slots
  BY HolderType DEF IInv
<1>3. ASSUME NEW st \in SetStates, Set(c, st)
      PROVE  Promise!Next
  <2>1. /\ Exists(c)
        /\ meta[Slot(c)].generation = Generation(c)
        /\ meta[Slot(c)].state = "created"
        /\ meta'[Slot(c)].generation = Generation(c)
        /\ meta'[Slot(c)].state = st
        /\ \A u \in Slots \ {Slot(c)} : meta'[u] = meta[u] /\ log'[u] = log[u]
        /\ log'[Slot(c)] = Append(log[Slot(c)], Note(Generation(c), st))
    BY <1>3, SetFacts DEF IInv
  <2>2. PICK s \in Slots : s = Slot(c)
    BY <1>2
  <2>3. Ends(log[s], meta[s], log'[s], meta'[s], st)
    BY <2>1, <2>2 DEF Ends, Exists
  <2>4. st \in Outcomes
    BY StatesDiffer
  <2>5. \A u \in Slots \ {s} : meta'[u] = meta[u] /\ log'[u] = log[u]
    BY <2>1, <2>2
  <2> QED BY <1>1, <2>3, <2>4, <2>5, EndRefines
<1>4. CASE Refresh(c) \/ ReleaseEvent(c)
  <2>1. PICK t \in Nat : \/ meta' = [meta EXCEPT ![Slot(c)].leaseUntil = t]
                         \/ meta' = [meta EXCEPT ![Slot(c)].reusableAt = t]
    <3>1. now \in Nat /\ \A t \in 0 .. now, lease \in RefreshLeases : t + lease \in Nat
      BY DEF IInv, TypeOK
    <3>2. CASE Refresh(c)
      <4>1. PICK t \in 0 .. now, lease \in RefreshLeases :
              meta' = [meta EXCEPT ![Slot(c)].leaseUntil = t + lease]
        BY <3>2 DEF Refresh, RefreshLease
      <4>2. t + lease \in Nat
        BY <3>1
      <4> QED BY <4>1, <4>2
    <3>3. CASE ReleaseEvent(c)
      <4>1. PICK t \in 0 .. now : meta' = [meta EXCEPT ![Slot(c)].reusableAt = t]
        BY <3>3 DEF ReleaseEvent, Release
      <4>2. t \in Nat
        BY <3>1
      <4> QED BY <4>1, <4>2
    <3> QED BY <1>4, <3>2, <3>3
  <2>2. log' = log
    BY <1>4 DEF Refresh, RefreshLease, ReleaseEvent, Release
  <2>3. \A u \in Slots : meta'[u].generation = meta[u].generation /\ meta'[u].state = meta[u].state
    BY <1>2, <2>1, <2>2, TimesAdvance DEF IInv
  <2> QED BY <1>1, <2>2, <2>3, TouchRefines DEF Touches
<1> QED BY <1>3, <1>4 DEF HolderStep

\* wait() asks, looks, and tells.
LEMMA WaitRefines ==
  ASSUME IInv, [Next]_vars, NEW w \in Waits, WaitStep(w) \/ \E c \in Creates : WaitStart(w, c)
  PROVE  Promise!Next \/ UNCHANGED Promise!evars
<1>1. UNCHANGED <<meta, log, handle>>
  BY WaitKeeps
<1>2. UNCHANGED <<OutcomeView, RecycledView>>
  BY <1>1 DEF OutcomeView, RecycledView, Exists, Written, Status, Slot, Generation
<1>3. ASSUME NEW c \in Creates, WaitStart(w, c)
      PROVE  Promise!Next
  <2>1. OutcomeView[c] # "unborn"
    <3>1. \A st \in Written(c) : st # "unborn"
      BY DEF Written, Outcomes, TerminalStates
    <3>2. Written(c) # {} => (CHOOSE st \in Written(c) : TRUE) \in Written(c)
      OBVIOUS
    <3>3. Exists(c)
      BY <1>3 DEF WaitStart
    <3> QED BY <3>1, <3>2, <3>3 DEF OutcomeView
  <2>2. target[w] = NoEvent /\ target' = [target EXCEPT ![w] = c] /\ told' = told
    BY <1>3 DEF WaitStart, IInv, WaitInv
  <2>3. Promise!Ask(w, c)
    BY <1>2, <2>1, <2>2 DEF Promise!Ask
  <2>4. target' # target
    BY <2>2, EventAssumption DEF IInv, TypeOK
  <2> QED BY <1>2, <2>3, <2>4, WaiterMoves
<1>4. ASSUME WaitStep(w), NEW what, Return(w, what)
      PROVE  Promise!Next
  <2>1. PICK c \in Creates :
          /\ c = target[w] /\ Exists(c) /\ wpc[w] \in Waiting
          /\ \/ what = "timeout" /\ Timeout[w] # "none"
             \/ what = "expired" /\ Status(c) = "expired"
             \/ what \in Outcomes /\ what \in Written(c)
    BY <1>4, ReturnHonest DEF IInv
  <2>2. told[w] = "none"
    BY <2>1 DEF IInv, WaitInv, Waiting
  <2>3. Promise!Tell(w, what)
    BY <1>2, <1>4, <2>2 DEF Return, Promise!Tell
  <2>7. told' # told
    <3>1. what # "none"
      BY <2>1 DEF Outcomes, TerminalStates
    <3>2. told' = [told EXCEPT ![w] = what]
      BY <1>4 DEF Return
    <3>3. told'[w] = what
      BY <3>2 DEF IInv, TypeOK
    <3> QED BY <2>2, <3>1, <3>3
  <2>4. CASE what = "timeout" /\ Timeout[w] # "none"
    BY <1>2, <2>1, <2>3, <2>4, <2>7, WaiterMoves DEF Promise!TellNothing
  <2>5. CASE what = "expired" /\ Status(c) = "expired"
    <3>1. c \in RecycledView
      BY <2>1, <2>5, ViewFacts
    <3> QED BY <2>1, <2>3, <2>5, <2>7, <3>1, <1>2, WaiterMoves DEF Promise!TellExpired
  <2>6. CASE what \in Outcomes /\ what \in Written(c)
    <3>1. Written(c) = {what}
      BY <2>6, OutcomeOnce DEF OneOutcome
    <3>2. OutcomeView[c] = what
      BY <2>1, <3>1, ViewFacts
    <3>3. what \notin {"unborn", "open"}
      BY <2>6 DEF Outcomes, TerminalStates
    <3> QED BY <2>1, <2>3, <2>7, <3>2, <3>3, <1>2, WaiterMoves DEF Promise!TellOutcome, Promise!Ended
  <2> QED BY <2>1, <2>4, <2>5, <2>6
<1>5. CASE WaitStep(w) /\ ~ \E what : Return(w, what)
  <2>1. UNCHANGED <<target, told>>
    BY <1>5 DEF WaitStep, Snapshot, Read, TimedOut
  <2> QED BY <1>2, <2>1 DEF Promise!evars
<1> QED BY <1>3, <1>4, <1>5

\* Nothing exists at first, there or here.
LEMMA InitRefines == Init => Promise!Init
<1> SUFFICES ASSUME Init PROVE Promise!Init
  OBVIOUS
<1>1. \A c \in Creates : ~Exists(c)
  BY DEF Init, Exists, Generation
<1> QED BY <1>1 DEF Init, Promise!Init, OutcomeView, RecycledView

\* Every step is a step of EventPromise, or none.
LEMMA StepRefines == IInv /\ [Next]_vars => [Promise!Next]_(Promise!evars)
<1> SUFFICES ASSUME IInv, [Next]_vars
             PROVE  Promise!Next \/ UNCHANGED Promise!evars
  OBVIOUS
<1>1. CASE Tick \/ UNCHANGED vars
  <2>1. UNCHANGED <<handle, target, told, meta, log>>
    BY <1>1 DEF Tick, vars, slotVars, createVars, waitVars
  <2> QED BY <2>1, TouchRefines DEF Touches
<1> QED BY <1>1, CreateRefines, HolderRefines, WaitRefines DEF Next

\* The events in Redis do what EventPromise promises: one outcome at most,
\* a place lost only by ended events, and honest answers.
THEOREM EventsRefine == Spec => RefinesEventPromise
<1> QED BY InitInv, NextInv, InitRefines, StepRefines, PTL DEF Spec, RefinesEventPromise, Promise!Spec

-----------------------------------------------------------------------------
(* The scan of create().                                                   *)

\* One turn around the pool, from any slot, comes to every slot.
LEMMA TurnCovers ==
  ASSUME NEW a \in Slots, NEW s \in Slots
  PROVE  \E o \in Slots : s = (a + o) % PoolSize
<1>1. a \in Nat /\ s \in Nat /\ a < PoolSize /\ s < PoolSize
  BY DEF Slots
<1>2. \A n \in Nat \ {0} : \A x \in Nat : x < n => x % n = x /\ (x + n) % n = x
  OBVIOUS
<1>3. CASE a <= s
  <2>1. s - a \in Slots /\ a + (s - a) = s
    BY <1>1, <1>3 DEF Slots
  <2>2. (a + (s - a)) % PoolSize = s
    BY <1>1, <1>2, <2>1
  <2> QED BY <2>1, <2>2
<1>4. CASE s < a
  <2>1. s - a + PoolSize \in Slots /\ a + (s - a + PoolSize) = s + PoolSize
    BY <1>1, <1>4 DEF Slots
  <2>2. (a + (s - a + PoolSize)) % PoolSize = s
    BY <1>1, <1>2, <2>1
  <2> QED BY <2>1, <2>2
<1> QED BY <1>1, <1>3, <1>4

\* A slot that was claimable all along the scan is still to be probed.
Ahead(c, s) == \E o \in Slots : offset[c] <= o /\ s = (start[c] + o) % PoolSize

ScanInv == \A c \in Creates :
  /\ cpc[c] \in {"idle", "clock"} => offset[c] = 0
  /\ cpc[c] = "scan" => \A s \in spare[c] : Claimable(s, seen[c]) /\ Ahead(c, s)

LEMMA InitScan == ScanInit => IInv /\ ScanInv
<1> QED BY InitInv DEF ScanInit, Init, ScanInv

\* Another's step leaves the local variables of create() as they are.
LEMMA OthersScan ==
  ASSUME TypeOK, NEW c \in Creates, [Next]_vars, ~CreateStep(c)
  PROVE  cpc'[c] = cpc[c] /\ start'[c] = start[c] /\ offset'[c] = offset[c] /\ seen'[c] = seen[c]
<1>1. CASE UNCHANGED createVars
  BY <1>1 DEF createVars
<1>2. ASSUME NEW d \in Creates, CreateStep(d)
      PROVE  cpc'[c] = cpc[c] /\ start'[c] = start[c] /\ offset'[c] = offset[c] /\ seen'[c] = seen[c]
  <2>1. c # d
    BY <1>2
  <2> QED BY <1>2, <2>1 DEF CreateStep, CreateStart, ReadClock, Claimed, Refused, LeaveCreate, TypeOK
<1>3. UNCHANGED createVars \/ \E d \in Creates : CreateStep(d)
  BY DEF Next, vars, HolderStep, Set, Refresh, ReleaseEvent, WaitStart, WaitStep, Snapshot, Read,
         TimedOut, Return, Tick
<1> QED BY <1>1, <1>2, <1>3

\* A slot that a scan was refused was not claimable then.
LEMMA RefusedNotSpare ==
  ASSUME ScanInv, NEW c \in Creates, Refused(c)
  PROVE  Probed(c) \notin spare[c]
<1>1. cpc[c] = "scan" /\ ~Claimable(Probed(c), seen[c])
  <2>1. LeaseExpired(Probed(c), seen[c]) => ~Claimable(Probed(c), seen[c])
    BY StatesDiffer DEF LeaseExpired, Claimable
  <2> QED BY <2>1 DEF Refused, Refuse, Abandon
<1> QED BY <1>1 DEF ScanInv

LEMMA ScanStep ==
  ASSUME IInv, ScanInv, [ScanNext]_scanVars
  PROVE  ScanInv'
<1>t. TypeOK /\ TypeOK'
  BY NextInv DEF IInv, ScanNext, scanVars
<1>1. CASE UNCHANGED scanVars
  BY <1>1 DEF scanVars, vars, createVars, slotVars, ScanInv, Claimable, Ahead
<1>2. CASE ScanNext
  <2> SUFFICES ASSUME NEW c \in Creates
               PROVE  /\ cpc'[c] \in {"idle", "clock"} => offset'[c] = 0
                      /\ cpc'[c] = "scan" =>
                           \A s \in spare'[c] : Claimable(s, seen[c])' /\ Ahead(c, s)'
    BY DEF ScanInv
  <2>1. /\ Next
        /\ cpc'[c] = "scan" => spare'[c] = {s \in IF cpc[c] = "scan" THEN spare[c] ELSE Slots :
                                              Claimable(s, seen[c])'}
    BY <1>2 DEF ScanNext, Observe
  <2>2. CASE ~CreateStep(c)
    <3>1. cpc'[c] = cpc[c] /\ start'[c] = start[c] /\ offset'[c] = offset[c]
      BY <1>t, <2>1, <2>2, OthersScan
    <3> QED BY <2>1, <3>1 DEF ScanInv, Ahead
  <2>3. CASE CreateStart(c)
    BY <2>3, <1>t DEF CreateStart, ScanInv, TypeOK
  <2>4. CASE ReadClock(c)
    <3>1. cpc'[c] = "scan" /\ cpc[c] = "clock" /\ offset'[c] = 0 /\ start'[c] \in Slots
      BY <2>4, <1>t DEF ReadClock, ScanInv, TypeOK
    <3>2. ASSUME NEW s \in Slots
          PROVE  Ahead(c, s)'
      <4>1. PICK o \in Slots : s = (start'[c] + o) % PoolSize
        BY <3>1, TurnCovers
      <4>2. offset'[c] <= o
        BY <3>1 DEF Slots
      <4> QED BY <4>1, <4>2 DEF Ahead
    <3> QED BY <2>1, <3>1, <3>2
  <2>5. CASE Claimed(c)
    <3>1. cpc'[c] = "done"
      BY <2>5, <1>t DEF Claimed, TypeOK
    <3> QED BY <3>1
  <2>6. CASE Refused(c)
    <3>1. CASE cpc'[c] = "scan"
      <4>1. /\ cpc[c] = "scan" /\ offset'[c] = offset[c] + 1 /\ start'[c] = start[c]
        BY <2>6, <3>1, <1>t DEF Refused, TypeOK
      <4>2. ASSUME NEW s \in spare'[c]
            PROVE  Ahead(c, s)'
        <5>1. s \in spare[c] /\ s # Probed(c)
          BY <2>1, <2>6, <3>1, <4>1, RefusedNotSpare
        <5>2. PICK o \in Slots : offset[c] <= o /\ s = (start[c] + o) % PoolSize
          BY <4>1, <5>1 DEF ScanInv, Ahead
        <5>3. o # offset[c]
          BY <5>1, <5>2 DEF Probed
        <5>4. offset[c] \in Int /\ o \in Int
          BY <1>t DEF TypeOK, Slots
        <5>5. offset'[c] <= o
          BY <4>1, <5>2, <5>3, <5>4
        <5> QED BY <4>1, <5>2, <5>5 DEF Ahead
      <4> QED BY <2>1, <3>1, <4>1, <4>2
    <3>2. CASE cpc'[c] # "scan"
      <4>1. cpc'[c] = "exhausted"
        BY <2>6, <3>2, <1>t DEF Refused, TypeOK
      <4> QED BY <4>1
    <3> QED BY <3>1, <3>2
  <2> QED BY <2>2, <2>3, <2>4, <2>5, <2>6 DEF CreateStep
<1> QED BY <1>1, <1>2

\* When the scan ends without a slot, it has been all around the pool.
LEMMA ExhaustedStep ==
  ASSUME IInv, ScanInv, ScanNext, NEW c \in Creates, cpc[c] = "scan", cpc'[c] = "exhausted"
  PROVE  spare[c] = {}
<1>t. TypeOK
  BY DEF IInv
<1>1. Refused(c)
  <2>1. CreateStep(c)
    BY <1>t, OthersScan DEF ScanNext
  <2> QED BY <2>1, <1>t DEF CreateStep, CreateStart, ReadClock, Claimed, TypeOK
<1>2. offset[c] + 1 = PoolSize
  BY <1>1 DEF Refused
<1> SUFFICES ASSUME NEW s \in spare[c]
             PROVE  FALSE
  OBVIOUS
<1>3. PICK o \in Slots : offset[c] <= o /\ s = (start[c] + o) % PoolSize
  BY DEF ScanInv, Ahead
<1>4. o = offset[c]
  BY <1>2, <1>3, <1>t DEF TypeOK, Slots
<1> QED BY <1>1, <1>3, <1>4, RefusedNotSpare DEF Probed

\* create() gives up only if no slot was claimable all along its scan, for a
\* pool of any size, wherever the scan started.
THEOREM ExhaustedHonestly == ScanSpec => ExhaustedMeansBusy
<1>1. IInv /\ [ScanNext]_scanVars => IInv'
  BY NextInv DEF ScanNext, scanVars
<1>2. IInv /\ ScanInv /\ [ScanNext]_scanVars => ScanInv'
  BY ScanStep
<1>3. IInv /\ ScanInv /\ [ScanNext]_scanVars =>
        [\A c \in Creates :
           cpc[c] = "scan" /\ cpc'[c] = "exhausted" => spare[c] = {}]_scanVars
  BY ExhaustedStep
<1> QED BY <1>1, <1>2, <1>3, InitScan, PTL DEF ScanSpec, ExhaustedMeansBusy
=============================================================================
