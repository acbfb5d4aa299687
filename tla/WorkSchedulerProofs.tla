------------------------- MODULE WorkSchedulerProofs -------------------------
(***************************************************************************)
(* Proofs about WorkScheduler: its type invariant, and that the tick of a  *)
(* bucket is found as it was asked for while nobody has run it.            *)
(***************************************************************************)
EXTENDS WorkScheduler, SequenceTheorems, TLAPS

IsTick(k) == k.handler # Scan

\* What every scheduler asks of a tick: its availability is the start of its bucket, which
\* is in its key, and its attempts are those of a policy.
AsAsked(k, r) == r.availableAt = k.subject /\ r.maxAttempts \in Budgets

\* A tick nobody has run is on record as schedulers ask for it.
TicksOnRecord ==
  \A k \in Key : IsTick(k) /\ row[k].status = "PENDING" => AsAsked(k, row[k])

\* A cycle asks for ticks in no other way, at whatever time it gets to them.
TicksWanted ==
  \A s \in Scheduler : \A n \in DOMAIN sched[s].todo :
    LET wanted == sched[s].todo[n] IN IsTick(wanted.key) => AsAsked(wanted.key, wanted)

Inv == TypeOK /\ TicksOnRecord /\ TicksWanted

\* The part of TicksAgree that holds whatever becomes of the policy in between: a tick that
\* nobody has run has the availability its cycle asks for, and the attempts of some policy.
TimesAgree ==
  \A s \in Scheduler :
    LET wanted == Head(sched[s].todo) IN
    /\ sched[s].pc = "compare"
    /\ IsTick(wanted.key)
    /\ row[wanted.key].status = "PENDING"
    => /\ row[wanted.key].availableAt = wanted.availableAt
       /\ {row[wanted.key].maxAttempts, wanted.maxAttempts} \subseteq Budgets

-----------------------------------------------------------------------------
(* What the operators return *)

LEMMA BucketStartType ==
  ASSUME NEW h \in Handler \ {Scan}, NEW now \in 0..MaxTime
  PROVE  BucketStart(h, now) \in 0..MaxTime
<1>1. PICK p \in Nat \ {0} : p = Period[h]
  BY PeriodAssumption DEF Handler
<1>2. MaxTime \in Nat
  BY BoundAssumption
<1>3. now \in Nat
  BY <1>2
<1>4. (now \div p) * p <= now
  BY <1>1, <1>3
<1>5. now \div p \in Nat
  BY <1>1, <1>3
<1>6. (now \div p) * p \in Nat
  BY <1>1, <1>5
<1> QED
  BY <1>1, <1>2, <1>3, <1>4, <1>6 DEF BucketStart

\* Taking the elements of a sequence, but one, keeps their type.
LEMMA WithoutType ==
  ASSUME waiting \in Seq(Doc), NEW d
  PROVE  Without(d) \in Seq(Doc)
<1>1. CASE d \notin Range(waiting)
  BY <1>1 DEF Without
<1>2. CASE d \in Range(waiting)
  <2> DEFINE n == CHOOSE i \in DOMAIN waiting : waiting[i] = d
  <2>1. n \in DOMAIN waiting
    BY <1>2 DEF Range
  <2>2. n \in 1..Len(waiting) /\ Len(waiting) \in Nat
    BY <2>1, LenProperties
  <2>3. SubSeq(waiting, 1, n - 1) \in Seq(Doc)
    <3>1. \A i \in 1..(n - 1) : waiting[i] \in Doc
      BY <2>2, ElementOfSeq
    <3> QED
      BY <2>2, <3>1, SubSeqProperties
  <2>4. SubSeq(waiting, n + 1, Len(waiting)) \in Seq(Doc)
    <3>1. \A i \in (n + 1)..Len(waiting) : waiting[i] \in Doc
      BY <2>2, ElementOfSeq
    <3> QED
      BY <2>2, <3>1, SubSeqProperties
  <2>5. SubSeq(waiting, 1, n - 1) \o SubSeq(waiting, n + 1, Len(waiting)) \in Seq(Doc)
    BY <2>3, <2>4, ConcatProperties
  <2> QED
    BY <1>2, <2>5 DEF Without, RemoveAt
<1> QED
  BY <1>1, <1>2

LEMMA RequestsType ==
  ASSUME TypeOK, NEW h \in Handler, NEW now \in 0..MaxTime
  PROVE  /\ Requests(h, now) \in Seq(Request)
         /\ \A n \in DOMAIN Requests(h, now) :
              LET wanted == Requests(h, now)[n] IN IsTick(wanted.key) => AsAsked(wanted.key, wanted)
<1>1. CASE policy[h] = 0
  BY <1>1 DEF Requests
<1> SUFFICES ASSUME policy[h] # 0 PROVE
             /\ Requests(h, now) \in Seq(Request)
             /\ \A n \in DOMAIN Requests(h, now) :
                  LET wanted == Requests(h, now)[n]
                  IN  IsTick(wanted.key) => AsAsked(wanted.key, wanted)
  BY <1>1
<1>2. policy[h] \in Budgets /\ policy[h] \in Nat
  BY BudgetAssumption DEF TypeOK
<1>3. MaxTime \in Nat /\ now \in Nat
  BY BoundAssumption
<1>4. CASE h = Scan
  <2> DEFINE m == IF Len(waiting) < ScanLimit THEN Len(waiting) ELSE ScanLimit
             w(n) == [key |-> [handler |-> h, subject |-> waiting[n]],
                      availableAt |-> now, maxAttempts |-> policy[h]]
  <2>1. Requests(h, now) = [n \in 1..m |-> w(n)]
    BY <1>4 DEF Requests
  <2>2. m \in Nat /\ m <= Len(waiting) /\ Len(waiting) \in Nat
    BY BoundAssumption, LenProperties DEF TypeOK
  <2>3. \A n \in 1..m : w(n) \in Request /\ ~IsTick(w(n).key)
    <3> TAKE n \in 1..m
    <3>1. waiting[n] \in Doc
      BY <2>2, ElementOfSeq DEF TypeOK
    <3>2. [handler |-> h, subject |-> waiting[n]] \in Key
      BY <1>4, <3>1 DEF Key
    <3> QED
      BY <1>2, <1>3, <1>4, <3>2 DEF Request, IsTick
  <2> HIDE DEF m, w
  <2>4. [n \in 1..m |-> w(n)] \in Seq(Request)
    BY <2>2, <2>3, IsASeq
  <2> QED
    BY <2>1, <2>3, <2>4
<1>5. CASE h # Scan
  <2> DEFINE b == BucketStart(h, now)
             w == [key |-> [handler |-> h, subject |-> b], availableAt |-> b,
                   maxAttempts |-> policy[h]]
  <2>1. Requests(h, now) = <<w>>
    BY <1>5 DEF Requests
  <2>2. b \in 0..MaxTime
    BY <1>5, BucketStartType
  <2> HIDE DEF b
  <2>3. b \in Nat
    BY <2>2, <1>3
  <2>4. [handler |-> h, subject |-> b] \in Key
    BY <1>5, <2>2 DEF Key
  <2>5. w \in Request /\ AsAsked(w.key, w)
    BY <1>2, <2>3, <2>4 DEF Request, AsAsked
  <2> HIDE DEF w
  <2> QED
    BY <2>1, <2>5
<1> QED
  BY <1>4, <1>5

-----------------------------------------------------------------------------
(* The inductive invariant *)

LEMMA InitInv == Init => Inv
<1> SUFFICES ASSUME Init PROVE Inv
  OBVIOUS
<1>1. MaxTime \in Nat /\ 0 \in 0..MaxTime
  BY BoundAssumption
<1>2. waiting \in Seq(Doc)
  BY EmptySeq DEF Init
<1>3. Idle \in [pc : {"idle", "handler", "insert", "compare"}, now : 0..MaxTime,
                at : Nat \ {0}, todo : Seq(Request)]
  BY <1>1, EmptySeq DEF Idle
<1>4. TypeOK
  BY <1>1, <1>2, <1>3 DEF Init, TypeOK, Idle
<1>5. TicksOnRecord /\ TicksWanted
  BY DEF Init, TicksOnRecord, TicksWanted, Absent, Idle
<1> QED
  BY <1>4, <1>5 DEF Inv

Cycle == [pc : {"idle", "handler", "insert", "compare"}, now : 0..MaxTime,
          at : Nat \ {0}, todo : Seq(Request)]

\* A step of scheduler s that leaves the rows alone and gives s a cycle that asks for ticks
\* as every scheduler does.
LEMMA CycleStep ==
  ASSUME Inv, NEW s \in Scheduler, NEW cycle \in Cycle,
         sched' = [sched EXCEPT ![s] = cycle],
         cycle.pc = "compare" => cycle.todo # <<>>,
         \A n \in DOMAIN cycle.todo : LET wanted == cycle.todo[n]
                                      IN  IsTick(wanted.key) => AsAsked(wanted.key, wanted),
         UNCHANGED <<clock, policy, waiting, row>>
  PROVE  Inv'
<1>1. sched' \in [Scheduler -> Cycle]
  BY DEF Inv, TypeOK, Cycle
<1>2. \A x \in Scheduler : sched'[x] = IF x = s THEN cycle ELSE sched[x]
  BY DEF Inv, TypeOK
<1>3. TypeOK'
  BY <1>1, <1>2 DEF Inv, TypeOK, Cycle
<1>4. TicksOnRecord'
  BY DEF Inv, TicksOnRecord, AsAsked
<1>5. TicksWanted'
  BY <1>2 DEF Inv, TicksWanted, AsAsked
<1> QED
  BY <1>3, <1>4, <1>5 DEF Inv

\* A step that leaves the cycles alone and gives row k a type, without making it pending.
LEMMA RowStep ==
  ASSUME Inv, NEW k \in Key, NEW r \in Row, r.status # "PENDING",
         row' = [row EXCEPT ![k] = r], waiting' \in Seq(Doc),
         UNCHANGED <<clock, policy, sched>>
  PROVE  Inv'
<1>1. row' \in [Key -> Row \cup {Absent}] /\ \A x \in Key : row'[x] = IF x = k THEN r ELSE row[x]
  BY DEF Inv, TypeOK
<1>2. TypeOK'
  BY <1>1 DEF Inv, TypeOK
<1>3. TicksOnRecord'
  BY <1>1 DEF Inv, TicksOnRecord, AsAsked
<1>4. TicksWanted'
  BY DEF Inv, TicksWanted, AsAsked
<1> QED
  BY <1>2, <1>3, <1>4 DEF Inv

\* The row of an item that is there.
LEMMA RowOnRecord ==
  ASSUME TypeOK, NEW k \in Key, row[k].status # "ABSENT"
  PROVE  row[k] \in Row
BY DEF TypeOK, Absent

LEMMA TickInv == ASSUME Inv, Tick PROVE Inv'
<1>1. MaxTime \in Nat
  BY BoundAssumption
<1>2. TypeOK'
  BY <1>1 DEF Inv, TypeOK, Tick
<1> QED
  BY <1>2 DEF Inv, TicksOnRecord, TicksWanted, AsAsked, Tick

LEMMA SetPolicyInv == ASSUME Inv, NEW h \in Handler, SetPolicy(h) PROVE Inv'
<1>1. TypeOK'
  BY DEF Inv, TypeOK, SetPolicy
<1> QED
  BY <1>1 DEF Inv, TicksOnRecord, TicksWanted, AsAsked, SetPolicy

LEMMA QuarantineDocumentInv == ASSUME Inv, NEW d \in Doc, QuarantineDocument(d) PROVE Inv'
<1>1. waiting' \in Seq(Doc)
  BY DEF Inv, TypeOK, QuarantineDocument
<1>2. TypeOK'
  BY <1>1 DEF Inv, TypeOK, QuarantineDocument
<1> QED
  BY <1>2 DEF Inv, TicksOnRecord, TicksWanted, AsAsked, QuarantineDocument

LEMMA ConsumeItemInv == ASSUME Inv, NEW k \in Key, ConsumeItem(k) PROVE Inv'
<1>1. row[k] \in Row
  BY RowOnRecord DEF Inv, ConsumeItem, Runnable
<1>2. waiting \in Seq(Doc) /\ clock + RetryDelay \in Nat
  BY BoundAssumption DEF Inv, TypeOK
<1>3. UNCHANGED <<clock, policy, sched>>
  BY DEF ConsumeItem
<1>4. CASE /\ row' = [row EXCEPT ![k].status = "SUCCEEDED"]
           /\ waiting' = IF k.handler = Scan THEN Without(k.subject) ELSE waiting
  <2> DEFINE r == [row[k] EXCEPT !.status = "SUCCEEDED"]
  <2>1. r \in Row /\ r.status # "PENDING"
    BY <1>1 DEF Row, Status
  <2>2. row' = [row EXCEPT ![k] = r]
    BY <1>4
  <2>3. waiting' \in Seq(Doc)
    BY <1>2, <1>4, WithoutType
  <2> HIDE DEF r
  <2> QED
    BY <1>3, <2>1, <2>2, <2>3, RowStep
<1>5. CASE /\ row' = [row EXCEPT ![k].status = "RETRY", ![k].availableAt = clock + RetryDelay]
           /\ UNCHANGED waiting
  <2> DEFINE r == [row[k] EXCEPT !.status = "RETRY", !.availableAt = clock + RetryDelay]
  <2>1. r \in Row /\ r.status # "PENDING"
    BY <1>1, <1>2 DEF Row, Status
  <2>2. row' = [row EXCEPT ![k] = r]
    BY <1>1, <1>5 DEF Row, Inv, TypeOK
  <2> HIDE DEF r
  <2> QED
    BY <1>2, <1>3, <1>5, <2>1, <2>2, RowStep
<1>6. CASE row' = [row EXCEPT ![k].status = "DEAD_LETTER"] /\ UNCHANGED waiting
  <2> DEFINE r == [row[k] EXCEPT !.status = "DEAD_LETTER"]
  <2>1. r \in Row /\ r.status # "PENDING"
    BY <1>1 DEF Row, Status
  <2>2. row' = [row EXCEPT ![k] = r]
    BY <1>6
  <2> HIDE DEF r
  <2> QED
    BY <1>2, <1>3, <1>6, <2>1, <2>2, RowStep
<1> QED
  BY <1>4, <1>5, <1>6 DEF ConsumeItem

LEMMA ReplayItemInv == ASSUME Inv, NEW k \in Key, ReplayItem(k) PROVE Inv'
<1>1. row[k] \in Row
  BY RowOnRecord DEF Inv, ReplayItem
<1>2. waiting \in Seq(Doc) /\ clock \in Nat
  BY BoundAssumption DEF Inv, TypeOK
<1> DEFINE r == [row[k] EXCEPT !.status = "RETRY", !.availableAt = clock,
                               !.maxAttempts = row[k].maxAttempts + 1]
<1>3. r \in Row /\ r.status # "PENDING"
  <2>1. row[k].maxAttempts + 1 \in Nat
    BY <1>1 DEF Row
  <2> QED
    BY <1>1, <1>2, <2>1 DEF Row, Status
<1>4. row' = [row EXCEPT ![k] = r]
  BY <1>1 DEF ReplayItem, Row, Inv, TypeOK
<1>5. UNCHANGED <<clock, policy, waiting, sched>>
  BY DEF ReplayItem
<1> HIDE DEF r
<1> QED
  BY <1>2, <1>3, <1>4, <1>5, RowStep

LEMMA StartCycleInv == ASSUME Inv, NEW s \in Scheduler, StartCycle(s) PROVE Inv'
<1> DEFINE cycle == [pc |-> "handler", now |-> clock, at |-> 1, todo |-> <<>>]
<1>1. cycle \in Cycle
  BY EmptySeq DEF Cycle, Inv, TypeOK
<1>2. cycle.pc = "handler" /\ cycle.todo = <<>> /\ DOMAIN cycle.todo = {}
  OBVIOUS
<1>3. sched' = [sched EXCEPT ![s] = cycle] /\ UNCHANGED <<clock, policy, waiting, row>>
  BY DEF StartCycle
<1> HIDE DEF cycle
<1> QED
  BY <1>1, <1>2, <1>3, CycleStep

LEMMA IdleIsCycle == Idle \in Cycle /\ Idle.pc = "idle" /\ DOMAIN Idle.todo = {}
BY EmptySeq, BoundAssumption DEF Idle, Cycle

LEMMA ScheduleHandlerInv == ASSUME Inv, NEW s \in Scheduler, ScheduleHandler(s) PROVE Inv'
<1>1. PICK was \in Cycle : was = sched[s]
  BY DEF Inv, TypeOK, Cycle
<1>2. UNCHANGED <<clock, policy, waiting, row>>
  BY DEF ScheduleHandler
<1>3. CASE was.at > Len(Catalog)
  <2>1. sched' = [sched EXCEPT ![s] = Idle]
    BY <1>1, <1>3 DEF ScheduleHandler
  <2> QED
    BY <1>2, <2>1, IdleIsCycle, CycleStep
<1>4. CASE ~(was.at > Len(Catalog))
  <2> DEFINE asked == Requests(Catalog[was.at], was.now)
             cycle == [was EXCEPT !.pc = "insert", !.todo = asked]
  <2>1. was.at \in 1..Len(Catalog)
    BY <1>1, <1>4, CatalogAssumption, LenProperties DEF Cycle
  <2>2. Catalog[was.at] \in Handler
    BY <2>1, CatalogAssumption, ElementOfSeq DEF Handler
  <2>3. was.now \in 0..MaxTime
    BY <1>1 DEF Cycle
  <2>4. /\ asked \in Seq(Request)
        /\ \A n \in DOMAIN asked :
             LET wanted == asked[n] IN IsTick(wanted.key) => AsAsked(wanted.key, wanted)
    BY <2>2, <2>3, RequestsType DEF Inv
  <2>5. sched' = [sched EXCEPT ![s] = cycle]
    BY <1>1, <1>4 DEF ScheduleHandler
  <2> HIDE DEF asked
  <2>6. cycle \in Cycle /\ cycle.pc = "insert" /\ cycle.todo = asked
    BY <1>1, <2>4 DEF Cycle
  <2> HIDE DEF cycle
  <2> QED
    BY <1>2, <2>4, <2>5, <2>6, CycleStep
<1> QED
  BY <1>3, <1>4

\* An insert makes its request pending where no row was, and the rest it leaves alone.
LEMMA InsertInv == ASSUME Inv, NEW s \in Scheduler, Insert(s) PROVE Inv'
<1>1. PICK was \in Cycle : was = sched[s]
  BY DEF Inv, TypeOK, Cycle
<1>2. CASE was.todo = <<>>
  <2> DEFINE cycle == [was EXCEPT !.pc = "handler", !.at = was.at + 1]
  <2>1. cycle \in Cycle /\ cycle.pc = "handler" /\ cycle.todo = <<>>
    <3>1. was.at + 1 \in Nat \ {0}
      BY <1>1 DEF Cycle
    <3> QED
      BY <1>1, <1>2, <3>1 DEF Cycle
  <2>2. UNCHANGED <<clock, policy, waiting, row>>
    BY <1>1, <1>2 DEF Insert
  <2>3. sched' = [sched EXCEPT ![s] = cycle]
    BY <1>1, <1>2 DEF Insert, Inv, TypeOK, Cycle
  <2>4. DOMAIN cycle.todo = {}
    BY <2>1
  <2> HIDE DEF cycle
  <2> QED
    BY <2>1, <2>2, <2>3, <2>4, CycleStep
<1>3. CASE was.todo # <<>>
  <2> DEFINE wanted == Head(was.todo)
             new == [status |-> "PENDING", availableAt |-> wanted.availableAt,
                     maxAttempts |-> wanted.maxAttempts]
             cycle == [was EXCEPT !.pc = "compare"]
  <2>1. was.todo \in Seq(Request)
    BY <1>1 DEF Cycle
  <2>2. wanted \in Request /\ wanted = was.todo[1] /\ 1 \in DOMAIN was.todo
    BY <1>3, <2>1, HeadTailProperties, LenProperties, EmptySeq
  <2>3. IsTick(wanted.key) => AsAsked(wanted.key, wanted)
    BY <1>1, <2>2 DEF Inv, TicksWanted
  <2>4. /\ row' = [row EXCEPT ![wanted.key] = IF row[wanted.key] # Absent
                                              THEN row[wanted.key] ELSE new]
        /\ sched' = [sched EXCEPT ![s].pc = "compare"]
        /\ UNCHANGED <<clock, policy, waiting>>
    BY <1>1, <1>3 DEF Insert
  <2> HIDE DEF wanted
  <2>5. wanted.key \in Key /\ new \in Row
    BY <2>2 DEF Request, Row, Status
  <2>6. new.availableAt = wanted.availableAt /\ new.maxAttempts = wanted.maxAttempts
    OBVIOUS
  <2>7. sched' = [sched EXCEPT ![s] = cycle]
    BY <1>1, <2>4
  <2>8. cycle \in Cycle /\ cycle.todo = was.todo
    BY <1>1 DEF Cycle
  <2> HIDE DEF new, cycle
  <2>9. \A x \in Scheduler : sched'[x] = IF x = s THEN cycle ELSE sched[x]
    BY <2>7 DEF Inv, TypeOK
  <2>10. \A k \in Key : row'[k] = row[k] \/ (k = wanted.key /\ row'[k] = new)
    BY <2>4, <2>5 DEF Inv, TypeOK
  <2>11. row' \in [Key -> Row \cup {Absent}]
    <3>1. row \in [Key -> Row \cup {Absent}]
      BY DEF Inv, TypeOK
    <3>2. (IF row[wanted.key] # Absent THEN row[wanted.key] ELSE new) \in Row \cup {Absent}
      BY <2>5, <3>1
    <3> QED
      BY <2>4, <3>1, <3>2
  <2>12. sched' \in [Scheduler -> Cycle]
    BY <2>7, <2>8 DEF Inv, TypeOK, Cycle
  <2>13. TypeOK'
    BY <1>1, <1>3, <2>4, <2>8, <2>9, <2>11, <2>12 DEF Inv, TypeOK, Cycle
  <2>14. TicksOnRecord'
    BY <2>3, <2>6, <2>10 DEF Inv, TicksOnRecord, AsAsked
  <2>15. TicksWanted'
    BY <1>1, <2>8, <2>9 DEF Inv, TicksWanted, AsAsked
  <2> QED
    BY <2>13, <2>14, <2>15 DEF Inv
<1> QED
  BY <1>2, <1>3

LEMMA CompareInv == ASSUME Inv, NEW s \in Scheduler, Compare(s) PROVE Inv'
<1>1. PICK was \in Cycle : was = sched[s]
  BY DEF Inv, TypeOK, Cycle
<1>2. UNCHANGED <<clock, policy, waiting, row>>
  BY DEF Compare
<1>3. was.todo # <<>> /\ was.todo \in Seq(Request)
  BY <1>1 DEF Compare, Inv, TypeOK, Cycle
<1>4. CASE sched' = [sched EXCEPT ![s] = Idle]
  BY <1>2, <1>4, IdleIsCycle, CycleStep
<1>5. CASE sched' = [sched EXCEPT ![s] = [was EXCEPT !.pc = "insert", !.todo = Tail(was.todo)]]
  <2> DEFINE rest == Tail(was.todo)
             cycle == [was EXCEPT !.pc = "insert", !.todo = rest]
  <2>1. /\ rest \in Seq(Request)
        /\ \A n \in DOMAIN rest : n + 1 \in DOMAIN was.todo /\ rest[n] = was.todo[n + 1]
    BY <1>3, HeadTailProperties, LenProperties
  <2> HIDE DEF rest
  <2>2. cycle \in Cycle /\ cycle.pc = "insert" /\ cycle.todo = rest
    BY <1>1, <2>1 DEF Cycle
  <2>3. \A n \in DOMAIN rest : LET wanted == rest[n]
                               IN  IsTick(wanted.key) => AsAsked(wanted.key, wanted)
    BY <1>1, <2>1 DEF Inv, TicksWanted
  <2>4. sched' = [sched EXCEPT ![s] = cycle]
    BY <1>5 DEF rest
  <2> HIDE DEF cycle
  <2> QED
    BY <1>2, <2>2, <2>3, <2>4, CycleStep
<1> QED
  BY <1>1, <1>4, <1>5 DEF Compare

LEMMA NextInv == Inv /\ [Next]_vars => Inv'
<1> SUFFICES ASSUME Inv, [Next]_vars PROVE Inv'
  OBVIOUS
<1>1. CASE UNCHANGED vars
  BY <1>1 DEF vars, Inv, TypeOK, TicksOnRecord, TicksWanted, AsAsked
<1>2. CASE Tick
  BY <1>2, TickInv
<1>3. CASE \E h \in Handler : SetPolicy(h)
  BY <1>3, SetPolicyInv
<1>4. CASE \E d \in Doc : QuarantineDocument(d)
  BY <1>4, QuarantineDocumentInv
<1>5. CASE \E k \in Key : ConsumeItem(k) \/ ReplayItem(k)
  BY <1>5, ConsumeItemInv, ReplayItemInv
<1>6. CASE \E s \in Scheduler : StartCycle(s) \/ ScheduleHandler(s) \/ Insert(s) \/ Compare(s)
  BY <1>6, StartCycleInv, ScheduleHandlerInv, InsertInv, CompareInv
<1> QED
  BY <1>1, <1>2, <1>3, <1>4, <1>5, <1>6 DEF Next

LEMMA SpecInv == Spec => []Inv
BY InitInv, NextInv, PTL DEF Spec

-----------------------------------------------------------------------------
(* Theorems *)

\* Every reachable state of the scheduler has the types of TypeOK: a cycle asks for what the
\* catalog, its clock reading and the waiting documents give it, and compares only what it
\* has inserted.
THEOREM SchedulerTypes == Spec => []TypeOK
BY SpecInv, PTL DEF Inv

\* What the comparison of a tick meets.
LEMMA TickCompared ==
  ASSUME Inv, NEW s \in Scheduler, sched[s].pc = "compare", IsTick(Head(sched[s].todo).key),
         row[Head(sched[s].todo).key].status = "PENDING"
  PROVE  LET wanted == Head(sched[s].todo)
         IN  AsAsked(wanted.key, wanted) /\ AsAsked(wanted.key, row[wanted.key])
<1>1. sched[s].todo # <<>> /\ sched[s].todo \in Seq(Request)
  BY DEF Inv, TypeOK
<1>2. PICK todo \in Seq(Request) : todo = sched[s].todo /\ todo # <<>>
  BY <1>1
<1>3. Head(todo) \in Request /\ Head(todo) = todo[1] /\ 1 \in DOMAIN todo
  BY <1>2, HeadTailProperties, LenProperties, EmptySeq
<1>4. AsAsked(Head(todo).key, Head(todo))
  BY <1>2, <1>3 DEF Inv, TicksWanted
<1>5. Head(todo).key \in Key
  BY <1>3 DEF Request
<1>6. AsAsked(Head(todo).key, row[Head(todo).key])
  BY <1>2, <1>5 DEF Inv, TicksOnRecord
<1> QED
  BY <1>2, <1>4, <1>6

\* Whatever the policies become between two cycles, and however long a cycle takes, a tick
\* nobody has run is available when every scheduler says: a changed policy is all that can
\* make two schedulers disagree about it.
THEOREM SchedulersAgreeOnTime == Spec => []TimesAgree
<1>1. Inv => TimesAgree
  BY TickCompared DEF TimesAgree, AsAsked
<1> QED
  BY <1>1, SpecInv, PTL

\* While the policies of the handlers give one number of attempts, no cycle of any number of
\* schedulers ends in a conflict over a tick that nobody has run.
THEOREM OnePolicyOneTick ==
  ASSUME \A b, c \in Budgets : b = c
  PROVE  Spec => []TicksAgree
<1>1. Inv => TicksAgree
  BY TickCompared DEF TicksAgree, Same, AsAsked, IsTick
<1> QED
  BY <1>1, SpecInv, PTL
=============================================================================
