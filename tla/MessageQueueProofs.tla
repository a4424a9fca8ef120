------------------------- MODULE MessageQueueProofs -------------------------
(***************************************************************************)
(* Proofs about MessageQueue for every number of events, workers, batches  *)
(* and every choice of the delays.                                         *)
(***************************************************************************)
EXTENDS MessageQueue, FiniteSetTheorems, TLAPS

USE DEF MaxAttempts

(* An item id is never the value that stands for no item. *)
LEMMA ItemIds == /\ Items \subseteq Int
                 /\ \A i \in JobIds : i \in Items
                 /\ \A b \in BatchIds : b \in Items
                 /\ NoItem \notin Items
                 /\ JobIds \subseteq Nat
<1>1. Len(LegacyQueue) \in Nat
  BY LegacyAssumption
<1> QED
  BY <1>1, TimingAssumption DEF Items, JobIds, BatchIds, NoItem

(* inbound_events.id of the rows an older release left. *)
LEMMA InitialIds ==
  ASSUME NEW e \in LegacyEvents
  PROVE  (CHOOSE i \in JobIds : LegacyQueue[i] = e) \in JobIds
BY DEF LegacyEvents

LEMMA TypeInit == Init => TypeOK
<1> SUFFICES ASSUME Init PROVE TypeOK
  OBVIOUS
<1>1. eventId \in [Events -> JobIds \cup {0}]
  BY InitialIds DEF Init
<1>2. link = [e \in Events |-> eventId[e]]
  BY DEF Init
<1>3. \A e \in Events : eventId[e] \in Nat /\ eventId[e] \in Items \cup {NoItem}
  <2> TAKE e \in Events
  <2>1. eventId[e] \in JobIds \/ eventId[e] = 0
    BY <1>1
  <2>2. CASE eventId[e] \in JobIds
    <3>1. eventId[e] \in Nat
      BY <2>2, ItemIds
    <3>2. eventId[e] \in Items
      BY <2>2, ItemIds
    <3> QED
      BY <3>1, <3>2
  <2>3. CASE eventId[e] = 0
    BY <2>3 DEF NoItem
  <2> QED
    BY <2>1, <2>2, <2>3
<1>4. eventId \in [Events -> Nat] /\ link \in [Events -> Items \cup {NoItem}]
  BY <1>1, <1>2, <1>3
<1>5. item \in [Items -> RowType]
  BY ItemIds DEF Init, RowType, Statuses, Row
<1>6. webhook \in [Handlers -> Events \cup {NoEvent}]
  BY DEF Init
<1>7. worker \in [Workers -> LoopType] /\ \A w \in Workers : ~Holding(w)
  BY DEF Init, LoopType, AtLoop, Holding
<1>8. handled \subseteq Events /\ age \in [Events -> Nat]
  BY DEF Init
<1> QED
  BY <1>4, <1>5, <1>6, <1>7, <1>8 DEF TypeOK

(* Steps of the webhook and of the queue link keep the types. *)
LEMMA TypeEnqueue ==
  ASSUME TypeOK, NEW e \in Events, EnqueueEvent(e)
  PROVE  /\ link' \in [Events -> Items \cup {NoItem}]
         /\ item' \in [Items -> RowType]
         /\ age' \in [Events -> Nat]
<1> USE DEF TypeOK, EnqueueEvent
<1>1. CASE AlreadyQueued(e)
  BY <1>1 DEF AlreadyQueued
<1>2. CASE JoinBatch(e)
  <2>1. PICK b \in OpenBatches(PhoneOf[e]) :
          /\ link' = [link EXCEPT ![e] = b]
          /\ item' = [item EXCEPT ![b].wait = Debounce]
    BY <1>2 DEF JoinBatch
  <2>2. b \in Items
    BY ItemIds DEF OpenBatches
  <2> QED
    BY <1>2, <2>1, <2>2, TimingAssumption DEF JoinBatch, RowType
<1>3. CASE OpenBatch(e)
  <2>1. PICK b \in BatchIds :
          /\ link' = [link EXCEPT ![e] = b]
          /\ item' = [item EXCEPT ![b] =
                 Row("pending", 0, Debounce)]
    BY <1>3 DEF OpenBatch
  <2>2. b \in Items
    BY ItemIds
  <2> QED
    BY <1>3, <2>1, <2>2, TimingAssumption DEF OpenBatch, RowType, Statuses, Row
<1> QED
  BY <1>1, <1>2, <1>3

(* The next id of inbound_events is a natural number. *)
LEMMA StoredCount == Cardinality({d \in Events : Stored(d)}) \in Nat
<1>1. IsFiniteSet({d \in Events : Stored(d)})
  BY EventsAssumption, FS_Subset
<1> QED
  BY <1>1, FS_CardinalityType

LEMMA TypeClaim ==
  ASSUME TypeOK, NEW w \in Workers, NEW i \in Items, ClaimItem(w, i)
  PROVE  TypeOK'
<1>1. item[i] \in RowType /\ item[i].attempts \in Nat
  BY DEF TypeOK, RowType
<1>2. item' \in [Items -> RowType]
  BY <1>1, TimingAssumption DEF TypeOK, ClaimItem, RowType, Statuses
<1>3. worker' \in [Workers -> LoopType]
  BY <1>1 DEF TypeOK, ClaimItem, LoopType, Linked
<1>4. ASSUME NEW v \in Workers, Holding(v)'
      PROVE  worker'[v].item \in Items /\ worker'[v].attempt > 0
  <2>1. CASE v = w
    BY <1>1, <2>1 DEF TypeOK, ClaimItem
  <2>2. CASE v # w
    BY <1>4, <2>2 DEF TypeOK, ClaimItem, Holding
  <2> QED
    BY <2>1, <2>2
<1> QED
  BY <1>2, <1>3, <1>4 DEF TypeOK, ClaimItem

(* A step that only moves one worker loop to another point, or empties it. *)
LEMMA TypeLoop ==
  ASSUME TypeOK, NEW w \in Workers,
         \/ worker' = [worker EXCEPT ![w] = AtLoop]
         \/ worker' = [worker EXCEPT ![w].pc = "polling"]
         \/ worker' = [worker EXCEPT ![w].lease = "ended"]
         \/ /\ Holding(w)
            /\ \E pc \in {"finishing", "failing"} :
                 worker' = [worker EXCEPT ![w].pc = pc]
  PROVE  /\ worker' \in [Workers -> LoopType]
         /\ \A v \in Workers :
              Holding(v)' => worker'[v].item \in Items /\ worker'[v].attempt > 0
<1>1. CASE worker' = [worker EXCEPT ![w] = AtLoop]
  BY <1>1 DEF TypeOK, LoopType, AtLoop, Holding
<1>2. CASE worker' = [worker EXCEPT ![w].pc = "polling"]
  BY <1>2 DEF TypeOK, LoopType, Holding
<1>3. CASE worker' = [worker EXCEPT ![w].lease = "ended"]
  <2>1. worker' \in [Workers -> LoopType]
    BY <1>3 DEF TypeOK, LoopType
  <2>2. \A v \in Workers : /\ worker'[v].pc = worker[v].pc
                           /\ worker'[v].item = worker[v].item
                           /\ worker'[v].attempt = worker[v].attempt
    BY <1>3 DEF TypeOK, LoopType
  <2> QED
    BY <2>1, <2>2 DEF TypeOK, Holding
<1>4. ASSUME Holding(w), NEW pc \in {"finishing", "failing"},
             worker' = [worker EXCEPT ![w].pc = pc]
      PROVE  /\ worker' \in [Workers -> LoopType]
             /\ \A v \in Workers : Holding(v)' =>
                  worker'[v].item \in Items /\ worker'[v].attempt > 0
  BY <1>4 DEF TypeOK, LoopType, Holding
<1> QED
  BY <1>1, <1>2, <1>3, <1>4

(* The rows after the two ways an attempt goes wrong. *)
LEMMA TypeReclaimed ==
  ASSUME NEW row \in RowType
  PROVE  Reclaimed(row) \in RowType
BY DEF RowType, Reclaimed, Statuses, Row

LEMMA TypeAfterFailure ==
  ASSUME NEW row \in RowType, NEW i \in Items, NEW n \in Nat, n > 0
  PROVE  AfterFailure(i, row, n) \in RowType
<1>1. n < 3 => RetryDelay[n] \in Int
  BY TimingAssumption
<1> QED
  BY <1>1 DEF RowType, AfterFailure, Statuses, Row

LEMMA TypeNext == TypeOK /\ [Next]_vars => TypeOK'
<1> SUFFICES ASSUME TypeOK, [Next]_vars PROVE TypeOK'
  OBVIOUS
<1>1. ASSUME NEW h \in Handlers, NEW e \in Events, RegisterEvent(h, e)
      PROVE  TypeOK'
  BY <1>1, StoredCount DEF TypeOK, RegisterEvent, Holding
<1>2. ASSUME NEW h \in Handlers, QueueEvent(h)
      PROVE  TypeOK'
  <2>1. webhook[h] \in Events
    BY <1>2 DEF TypeOK, QueueEvent
  <2> QED
    BY <1>2, <2>1, TypeEnqueue DEF TypeOK, QueueEvent, Holding
<1>3. ASSUME NEW h \in Handlers, LoseRequest(h)
      PROVE  TypeOK'
  BY <1>3 DEF TypeOK, LoseRequest, Holding
<1>4. ASSUME NEW w \in Workers, NEW e \in Events, RecoverOrphan(w, e)
      PROVE  TypeOK'
  BY <1>4, TypeEnqueue DEF TypeOK, RecoverOrphan, Holding
<1>5. ASSUME NEW w \in Workers, ReclaimExpired(w)
      PROVE  TypeOK'
  <2>1. item' \in [Items -> RowType]
    BY <1>5, TypeReclaimed DEF TypeOK, ReclaimExpired
  <2> QED
    BY <1>5, <2>1, TypeLoop DEF TypeOK, ReclaimExpired
<1>6. ASSUME NEW w \in Workers, NEW i \in Items, ClaimItem(w, i)
      PROVE  TypeOK'
  BY <1>6, TypeClaim
<1>7. ASSUME NEW w \in Workers, ClaimNothing(w)
      PROVE  TypeOK'
  BY <1>7, TypeLoop DEF TypeOK, ClaimNothing
<1>8. ASSUME NEW w \in Workers, RenewLease(w)
      PROVE  TypeOK'
  <2>1. worker[w].item \in Items
    BY <1>8 DEF TypeOK, RenewLease, Holding
  <2>2. ASSUME item' = [item EXCEPT ![worker[w].item].wait = Lease]
        PROVE  item' \in [Items -> RowType]
    BY <2>1, <2>2, TimingAssumption DEF TypeOK, RowType
  <2>3. item' \in [Items -> RowType]
    BY <1>8, <2>2 DEF TypeOK, RenewLease
  <2> QED
    BY <1>8, <2>3, TypeLoop DEF TypeOK, RenewLease, Holding
<1>9. ASSUME NEW w \in Workers, NEW outcome \in {"finishing", "failing"},
             CheckOutcome(w, outcome)
      PROVE  TypeOK'
  <2>1. handled' \subseteq Events
    BY <1>9 DEF TypeOK, CheckOutcome, LoopType
  <2> QED
    BY <1>9, <2>1, TypeLoop DEF TypeOK, CheckOutcome, Holding
<1>10. ASSUME NEW w \in Workers, WriteDone(w)
       PROVE  TypeOK'
  <2>1. worker[w].item \in Items
    BY <1>10 DEF TypeOK, WriteDone, Holding
  <2>2. item' \in [Items -> RowType]
    BY <1>10, <2>1 DEF TypeOK, WriteDone, RowType, Statuses
  <2> QED
    BY <1>10, <2>2, TypeLoop DEF TypeOK, WriteDone
<1>11. ASSUME NEW w \in Workers, WriteFailure(w)
       PROVE  TypeOK'
  <2>1. /\ worker[w].item \in Items /\ worker[w].attempt \in Nat
        /\ worker[w].attempt > 0
    BY <1>11 DEF TypeOK, WriteFailure, Holding, LoopType
  <2>2. AfterFailure(worker[w].item, item[worker[w].item], worker[w].attempt)
          \in RowType
    BY <2>1, TypeAfterFailure DEF TypeOK
  <2>3. item' \in [Items -> RowType]
    BY <1>11, <2>1, <2>2 DEF TypeOK, WriteFailure
  <2> QED
    BY <1>11, <2>3, TypeLoop DEF TypeOK, WriteFailure
<1>12. ASSUME NEW w \in Workers, CrashWorker(w)
       PROVE  TypeOK'
  BY <1>12, TypeLoop DEF TypeOK, CrashWorker
<1>13. CASE Tick
  <2>1. item' \in [Items -> RowType] /\ age' \in [Events -> Nat]
    BY <1>13 DEF TypeOK, Tick, RowType, Row
  <2> QED
    BY <1>13, <2>1 DEF TypeOK, Tick, Holding
<1>14. CASE UNCHANGED vars
  BY <1>14 DEF TypeOK, vars, Holding
<1> QED
  BY <1>1, <1>2, <1>3, <1>4, <1>5, <1>6, <1>7, <1>8, <1>9, <1>10, <1>11, <1>12,
     <1>13, <1>14 DEF Next, WorkerStep

(* Every variable keeps its type in every behaviour. *)
THEOREM TypeCorrect == Spec => []TypeOK
BY TypeInit, TypeNext, PTL DEF Spec
-----------------------------------------------------------------------------
(* What a step may do to a row, and what it may do to a worker's block. *)

SameCount(i) == /\ item'[i].status = item[i].status
                /\ item'[i].attempts = item[i].attempts

Opened(i) == /\ item[i].status = "absent"
             /\ item'[i].status = "pending" /\ item'[i].attempts = 0

Wrote(w, i) == /\ worker[w].item = i
               /\ \/ WriteDone(w) /\ item'[i].status = "done"
                  \/ /\ WriteFailure(w)
                     /\ item'[i].status = IF worker[w].attempt < MaxAttempts
                                          THEN "pending" ELSE "failed"
               /\ item'[i].attempts = item[i].attempts

RowStep(i) ==
  \/ SameCount(i)
  \/ Opened(i)
  \/ \E w \in Workers : ClaimItem(w, i)
  \/ Expired(i) /\ item'[i] = Reclaimed(item[i])
  \/ \E w \in Workers : Wrote(w, i)

LEMMA RowEnqueue ==
  ASSUME TypeOK, NEW e \in Events, EnqueueEvent(e), NEW i \in Items
  PROVE  SameCount(i) \/ Opened(i)
<1>1. CASE AlreadyQueued(e)
  BY <1>1 DEF AlreadyQueued, SameCount
<1>2. CASE JoinBatch(e)
  <2>1. PICK b \in OpenBatches(PhoneOf[e]) :
          item' = [item EXCEPT ![b].wait = Debounce]
    BY <1>2 DEF JoinBatch
  <2> QED
    BY <2>1 DEF SameCount, TypeOK, RowType
<1>3. CASE OpenBatch(e)
  <2>1. PICK b \in BatchIds :
          /\ item[b].status = "absent"
          /\ item' = [item EXCEPT ![b] = Row("pending", 0, Debounce)]
    BY <1>3 DEF OpenBatch
  <2> QED
    BY <2>1 DEF SameCount, Opened, TypeOK, RowType, Row
<1> QED
  BY <1>1, <1>2, <1>3 DEF EnqueueEvent

LEMMA RowSteps ==
  ASSUME TypeOK, [Next]_vars, NEW i \in Items
  PROVE  RowStep(i)
<1> SUFFICES RowStep(i)
  OBVIOUS
<1>1. ASSUME UNCHANGED item PROVE RowStep(i)
  BY <1>1 DEF RowStep, SameCount
<1>2. ASSUME NEW e \in Events, EnqueueEvent(e) PROVE RowStep(i)
  BY <1>2, RowEnqueue DEF RowStep
<1>3. ASSUME NEW w \in Workers, ReclaimExpired(w) PROVE RowStep(i)
  BY <1>3 DEF RowStep, ReclaimExpired, SameCount
<1>4. ASSUME NEW w \in Workers, NEW j \in Items, ClaimItem(w, j)
      PROVE  RowStep(i)
  BY <1>4 DEF RowStep, ClaimItem, SameCount, TypeOK
<1>5. ASSUME NEW w \in Workers, RenewLease(w) PROVE RowStep(i)
  BY <1>5 DEF RowStep, RenewLease, SameCount, TypeOK, RowType
<1>6. ASSUME NEW w \in Workers, WriteDone(w) PROVE RowStep(i)
  <2>1. CASE worker[w].item = i
    BY <1>6, <2>1 DEF RowStep, WriteDone, Wrote, TypeOK, RowType
  <2>2. CASE worker[w].item # i
    BY <1>6, <2>2 DEF RowStep, WriteDone, SameCount, TypeOK, RowType
  <2> QED
    BY <2>1, <2>2
<1>7. ASSUME NEW w \in Workers, WriteFailure(w) PROVE RowStep(i)
  <2>1. CASE worker[w].item = i
    <3>1. item'[i] = AfterFailure(i, item[i], worker[w].attempt)
      BY <1>7, <2>1 DEF WriteFailure, TypeOK
    <3>2. CASE worker[w].attempt < MaxAttempts
      BY <1>7, <2>1, <3>1, <3>2 DEF RowStep, Wrote, AfterFailure, Row
    <3>3. CASE ~(worker[w].attempt < MaxAttempts)
      BY <1>7, <2>1, <3>1, <3>3 DEF RowStep, Wrote, AfterFailure, Row
    <3> QED
      BY <3>2, <3>3
  <2>2. CASE worker[w].item # i
    BY <1>7, <2>2 DEF RowStep, WriteFailure, SameCount, TypeOK
  <2> QED
    BY <2>1, <2>2
<1>8. ASSUME Tick PROVE RowStep(i)
  BY <1>8 DEF RowStep, Tick, SameCount, TypeOK, Row
<1>9. ASSUME NEW h \in Handlers, QueueEvent(h) PROVE RowStep(i)
  BY <1>9, <1>2 DEF QueueEvent, TypeOK
<1> QED
  BY <1>1, <1>2, <1>3, <1>4, <1>5, <1>6, <1>7, <1>8, <1>9
     DEF Next, WorkerStep, vars, RegisterEvent, LoseRequest,
         RecoverOrphan, ClaimNothing, CheckOutcome, CrashWorker

(* A worker in the processing block was there before, with the same item,  *)
(* attempt and payload, or has just claimed.                               *)
SameBlock(w) == /\ Holding(w)
                /\ worker'[w].item = worker[w].item
                /\ worker'[w].attempt = worker[w].attempt
                /\ worker'[w].payload = worker[w].payload
                /\ \/ worker'[w].pc = worker[w].pc
                   \/ Current(w) /\ CheckOutcome(w, worker'[w].pc)

LEMMA BlockSteps ==
  ASSUME TypeOK, [Next]_vars, NEW w \in Workers, Holding(w)'
  PROVE  SameBlock(w) \/ \E i \in Items : ClaimItem(w, i)
<1>1. ASSUME worker'[w] = worker[w] PROVE SameBlock(w)
  BY <1>1 DEF SameBlock, Holding
<1>2. ASSUME NEW v \in Workers, v # w,
             \/ ReclaimExpired(v) \/ ClaimNothing(v) \/ RenewLease(v)
             \/ \E i \in Items : ClaimItem(v, i)
             \/ \E outcome \in {"finishing", "failing"} : CheckOutcome(v, outcome)
             \/ WriteDone(v) \/ WriteFailure(v) \/ CrashWorker(v)
      PROVE  SameBlock(w)
  <2>1. worker'[w] = worker[w]
    BY <1>2 DEF TypeOK, ReclaimExpired, ClaimNothing, RenewLease, ClaimItem,
                CheckOutcome, WriteDone, WriteFailure, CrashWorker
  <2> QED
    BY <2>1, <1>1
<1>3. ~(\/ ReclaimExpired(w) \/ ClaimNothing(w) \/ WriteDone(w)
        \/ WriteFailure(w) \/ CrashWorker(w))
  BY DEF TypeOK, LoopType, Holding, AtLoop, ReclaimExpired, ClaimNothing,
         WriteDone, WriteFailure, CrashWorker
<1>4. ASSUME RenewLease(w) PROVE SameBlock(w)
  BY <1>4 DEF TypeOK, LoopType, RenewLease, SameBlock, Holding
<1>5. ASSUME NEW outcome \in {"finishing", "failing"}, CheckOutcome(w, outcome)
      PROVE  SameBlock(w)
  <2>1. Current(w) /\ worker' = [worker EXCEPT ![w].pc = outcome]
    BY <1>5 DEF TypeOK, LoopType, CheckOutcome, Holding, AtLoop
  <2> QED
    BY <1>5, <2>1 DEF TypeOK, LoopType, SameBlock, Holding, CheckOutcome
<1>6. ASSUME UNCHANGED worker PROVE SameBlock(w)
  BY <1>1, <1>6
<1> QED
  BY <1>2, <1>3, <1>4, <1>5, <1>6
     DEF Next, WorkerStep, vars, RegisterEvent, QueueEvent, LoseRequest,
         RecoverOrphan, Tick
-----------------------------------------------------------------------------
(* The fencing of attempts, which needs nothing of the transactions. *)

LEMMA ClaimFacts ==
  ASSUME TypeOK, NEW w \in Workers, NEW i \in Items, ClaimItem(w, i)
  PROVE  /\ item[i].status = "pending" /\ item'[i].status = "processing"
         /\ item'[i].attempts = item[i].attempts + 1
         /\ worker'[w].item = i /\ worker'[w].pc = "working"
         /\ worker'[w].attempt = item[i].attempts + 1
         /\ worker'[w].payload = Linked(i)
         /\ \A v \in Workers : v # w => worker'[v] = worker[v]
         /\ ~Holding(w)
         /\ UNCHANGED <<link, handled>>
<1>1. item[i].status = "pending"
  BY DEF ClaimItem, NextClaims, Claimable
<1>2. /\ item'[i].status = "processing"
      /\ item'[i].attempts = item[i].attempts + 1
  BY DEF ClaimItem, TypeOK, RowType
<1> QED
  BY <1>1, <1>2 DEF ClaimItem, TypeOK, Holding

LEMMA AttemptsGrow ==
  ASSUME TypeOK, TypeOK', FenceInv, [Next]_vars, NEW i \in Items
  PROVE  /\ item[i].attempts <= item'[i].attempts
         /\ item'[i].status = "absent" => item'[i].attempts = 0
<1>1. item[i].attempts \in Nat /\ item'[i].attempts \in Nat
  BY DEF TypeOK, RowType
<1>2. CASE SameCount(i)
  BY <1>1, <1>2 DEF SameCount, FenceInv
<1>3. CASE Opened(i)
  BY <1>1, <1>3 DEF Opened, FenceInv
<1>4. ASSUME NEW w \in Workers, ClaimItem(w, i)
      PROVE  /\ item[i].attempts <= item'[i].attempts
             /\ item'[i].status # "absent"
  BY <1>1, <1>4, ClaimFacts
<1>5. CASE item'[i] = Reclaimed(item[i])
  BY <1>1, <1>5 DEF Reclaimed, Row
<1>6. ASSUME NEW w \in Workers, Wrote(w, i)
      PROVE  /\ item[i].attempts <= item'[i].attempts
             /\ item'[i].status # "absent"
  BY <1>1, <1>6 DEF Wrote
<1> QED
  BY <1>2, <1>3, <1>4, <1>5, <1>6, RowSteps DEF RowStep

LEMMA FenceInit == Init => FenceInv
BY DEF Init, FenceInv, UniqueAttempt, Holding, AtLoop, Row

LEMMA FenceNext == TypeOK /\ TypeOK' /\ FenceInv /\ [Next]_vars => FenceInv'
<1> SUFFICES ASSUME TypeOK, TypeOK', FenceInv, [Next]_vars PROVE FenceInv'
  OBVIOUS
<1>1. \A i \in Items : /\ item[i].attempts \in Nat
                       /\ item'[i].attempts \in Nat
  BY DEF TypeOK, RowType
<1>2. \A w \in Workers : worker[w].attempt \in Nat /\ worker'[w].attempt \in Nat
  BY DEF TypeOK, LoopType
<1>3. ASSUME NEW w \in Workers, Holding(w)'
      PROVE  worker'[w].attempt <= item'[worker'[w].item].attempts
  <2>1. CASE SameBlock(w)
    <3>1. /\ worker[w].item \in Items
          /\ worker[w].attempt <= item[worker[w].item].attempts
          /\ worker'[w].item = worker[w].item
          /\ worker'[w].attempt = worker[w].attempt
      BY <2>1 DEF SameBlock, TypeOK, FenceInv
    <3> QED
      BY <1>1, <1>2, <3>1, AttemptsGrow
  <2>2. ASSUME NEW i \in Items, ClaimItem(w, i)
        PROVE  worker'[w].attempt <= item'[worker'[w].item].attempts
    BY <1>1, <2>2, ClaimFacts
  <2> QED
    BY <1>3, <2>1, <2>2, BlockSteps
<1>4. ASSUME NEW v \in Workers, NEW w \in Workers, v # w, Holding(v)', Holding(w)',
             worker'[v].item = worker'[w].item, SameBlock(w)
      PROVE  worker'[v].attempt # worker'[w].attempt
  <2>1. CASE SameBlock(v)
    BY <1>4, <2>1 DEF SameBlock, FenceInv, UniqueAttempt
  <2>2. ASSUME NEW i \in Items, ClaimItem(v, i)
        PROVE  worker'[v].attempt # worker'[w].attempt
    <3>1. /\ worker'[v].item = i
          /\ worker'[v].attempt = item[i].attempts + 1
      BY <2>2, ClaimFacts
    <3>2. worker'[w].attempt <= item[i].attempts
      BY <1>4, <3>1 DEF SameBlock, FenceInv
    <3> QED
      BY <1>1, <1>2, <3>1, <3>2
  <2> QED
    BY <1>4, <2>1, <2>2, BlockSteps
<1>5. ASSUME NEW v \in Workers, NEW w \in Workers, v # w, Holding(v)', Holding(w)'
      PROVE  SameBlock(v) \/ SameBlock(w)
  <2>1. ASSUME NEW i \in Items, ClaimItem(v, i) PROVE worker'[w] = worker[w]
    BY <1>5, <2>1, ClaimFacts
  <2>2. ASSUME NEW j \in Items, ClaimItem(w, j) PROVE ~Holding(w)
    BY <2>2, ClaimFacts
  <2> QED
    BY <1>5, <2>1, <2>2, BlockSteps DEF Holding
<1>6. UniqueAttempt'
  BY <1>4, <1>5 DEF UniqueAttempt
<1> QED
  BY <1>3, <1>6, AttemptsGrow DEF FenceInv

(* No two workers ever hold the same attempt of the same item, even when   *)
(* transactions land inside finish_job or fail_job.                        *)
THEOREM AttemptsAreUnique == Spec => []UniqueAttempt
<1>1. Init => TypeOK /\ FenceInv
  BY TypeInit, FenceInit
<1>2. TypeOK /\ FenceInv /\ [Next]_vars => TypeOK' /\ FenceInv'
  BY TypeNext, FenceNext
<1>3. FenceInv => UniqueAttempt
  BY DEF FenceInv
<1> QED
  BY <1>1, <1>2, <1>3, PTL DEF Spec
-----------------------------------------------------------------------------
(* What isolated outcomes add: nobody touches a row between the read and   *)
(* the write of finish_job and fail_job.                                   *)

(* A link is written once, to a row that is waiting. *)
LEMMA LinkSteps ==
  ASSUME TypeOK, [Next]_vars, NEW e \in Events, link'[e] # link[e]
  PROVE  /\ link[e] = NoItem
         /\ item[link'[e]].status \in {"absent", "pending"}
         /\ item'[link'[e]].status = "pending"
<1>1. ASSUME NEW d \in Events, EnqueueEvent(d)
      PROVE  /\ link[e] = NoItem
             /\ item[link'[e]].status \in {"absent", "pending"}
             /\ item'[link'[e]].status = "pending"
  <2>1. CASE JoinBatch(d)
    <3>1. PICK b \in OpenBatches(PhoneOf[d]) :
            /\ link' = [link EXCEPT ![d] = b]
            /\ item' = [item EXCEPT ![b].wait = Debounce]
      BY <2>1 DEF JoinBatch
    <3>2. b \in Items /\ item[b].status = "pending"
      BY ItemIds DEF OpenBatches
    <3>3. e = d /\ link'[e] = b
      BY <3>1 DEF TypeOK
    <3> QED
      BY <2>1, <3>1, <3>2, <3>3 DEF JoinBatch, TypeOK, RowType
  <2>2. CASE OpenBatch(d)
    <3>1. PICK b \in BatchIds :
            /\ item[b].status = "absent"
            /\ link' = [link EXCEPT ![d] = b]
            /\ item' = [item EXCEPT ![b] = Row("pending", 0, Debounce)]
      BY <2>2 DEF OpenBatch
    <3>2. b \in Items
      BY ItemIds
    <3>3. e = d /\ link'[e] = b
      BY <3>1 DEF TypeOK
    <3> QED
      BY <2>2, <3>1, <3>2, <3>3 DEF OpenBatch, TypeOK, Row
  <2> QED
    BY <1>1, <2>1, <2>2 DEF EnqueueEvent, AlreadyQueued
<1>2. ASSUME NEW h \in Handlers, QueueEvent(h)
      PROVE  \E d \in Events : EnqueueEvent(d)
  BY <1>2 DEF QueueEvent, TypeOK
<1>3. ASSUME NEW w \in Workers, NEW d \in Events, RecoverOrphan(w, d)
      PROVE  EnqueueEvent(d)
  BY <1>3 DEF RecoverOrphan
<1>4. ~UNCHANGED link
  OBVIOUS
<1> QED
  BY <1>1, <1>2, <1>3, <1>4
     DEF Next, WorkerStep, vars, RegisterEvent, LoseRequest, ReclaimExpired,
         ClaimItem, ClaimNothing, RenewLease, CheckOutcome, WriteDone,
         WriteFailure, CrashWorker, Tick

LEMMA LinkedSame ==
  ASSUME TypeOK, [Next]_vars, NEW i \in Items,
         item[i].status \notin {"absent", "pending"} \/ item'[i].status # "pending"
  PROVE  Linked(i)' = Linked(i)
<1>1. ASSUME NEW e \in Events PROVE link'[e] = i <=> link[e] = i
  <2>1. CASE link'[e] # link[e]
    BY <2>1, LinkSteps, ItemIds
  <2> QED
    BY <2>1
<1> QED
  BY <1>1 DEF Linked

LEMMA HandledGrows == TypeOK /\ [Next]_vars => handled \subseteq handled'
BY DEF Next, WorkerStep, vars, RegisterEvent, QueueEvent, LoseRequest, RecoverOrphan,
       ReclaimExpired, ClaimItem, ClaimNothing, RenewLease, CheckOutcome, WriteDone,
       WriteFailure, CrashWorker, Tick

(* The writer of an outcome is the holder of the current attempt. *)
LEMMA WriterIsCurrent ==
  ASSUME TypeOK, HolderInv, NEW w \in Workers, NEW i \in Items, Wrote(w, i)
  PROVE  /\ worker[w].pc \in {"finishing", "failing"} /\ Holding(w)
         /\ item[i].status = "processing"
         /\ item[i].attempts = worker[w].attempt
         /\ worker[w].payload = Linked(i)
<1>1. worker[w].pc \in {"finishing", "failing"}
  BY DEF Wrote, WriteDone, WriteFailure
<1>2. Holding(w) /\ Current(w) /\ worker[w].item = i
  BY <1>1 DEF HolderInv, Holding, Wrote
<1> QED
  BY <1>1, <1>2 DEF HolderInv, Current

LEMMA ReclaimedRow ==
  ASSUME NEW row
  PROVE  /\ Reclaimed(row).status \in {"pending", "failed"}
         /\ Reclaimed(row).attempts = row.attempts
BY DEF Reclaimed, Row

LEMMA AttemptsNext ==
  TypeOK /\ AttemptsInv /\ HolderInv /\ [Next]_vars => AttemptsInv'
<1> SUFFICES ASSUME TypeOK, AttemptsInv, HolderInv, [Next]_vars, NEW i \in Items
             PROVE  /\ item'[i].status = "absent" => item'[i].attempts = 0
                    /\ item'[i].status = "pending" => item'[i].attempts < MaxAttempts
                    /\ item'[i].status = "processing" => item'[i].attempts > 0
                    /\ item'[i].status = "failed" => item'[i].attempts = MaxAttempts
                    /\ item'[i].attempts <= MaxAttempts
  BY DEF AttemptsInv
<1>1. item[i].attempts \in Nat
  BY DEF TypeOK, RowType
<1>2. CASE SameCount(i)
  BY <1>2 DEF SameCount, AttemptsInv
<1>3. CASE Opened(i)
  BY <1>3 DEF Opened
<1>4. ASSUME NEW w \in Workers, ClaimItem(w, i)
      PROVE  /\ item'[i].status = "processing" /\ item'[i].attempts > 0
             /\ item'[i].attempts <= MaxAttempts
  BY <1>1, <1>4, ClaimFacts DEF AttemptsInv
<1>5. CASE Expired(i) /\ item'[i] = Reclaimed(item[i])
  BY <1>1, <1>5 DEF Expired, Reclaimed, Row, AttemptsInv
<1>6. ASSUME NEW w \in Workers, Wrote(w, i)
      PROVE  /\ item'[i].status # "absent" /\ item'[i].status # "processing"
             /\ item'[i].status = "pending" => item'[i].attempts < MaxAttempts
             /\ item'[i].status = "failed" => item'[i].attempts = MaxAttempts
             /\ item'[i].attempts <= MaxAttempts
  BY <1>1, <1>6, WriterIsCurrent DEF Wrote, AttemptsInv
<1> QED
  BY <1>2, <1>3, <1>4, <1>5, <1>6, RowSteps DEF RowStep

LEMMA HolderNext ==
  ASSUME Isolated, TypeOK, TypeOK', FenceInv, FenceInv', HolderInv, [Next]_vars
  PROVE  HolderInv'
<1>1. ASSUME NEW w \in Workers, Holding(w)', Current(w)'
      PROVE  worker'[w].payload = Linked(worker[w].item)'
  <2>1. CASE SameBlock(w)
    <3> DEFINE i == worker[w].item
    <3>1. i \in Items /\ worker'[w].item = i /\ Holding(w)
      BY <2>1 DEF SameBlock, TypeOK
    <3>2. item'[i].status = "processing" /\ item'[i].attempts = worker[w].attempt
      BY <1>1, <2>1, <3>1 DEF Current, SameBlock
    <3>3. item[i].attempts \in Nat /\ worker[w].attempt \in Nat
          /\ worker[w].attempt <= item[i].attempts
      BY <3>1 DEF TypeOK, RowType, LoopType, FenceInv
    <3>4. ASSUME NEW v \in Workers PROVE ~ClaimItem(v, i)
      BY <3>1, <3>2, <3>3, <3>4, ClaimFacts
    <3>5. SameCount(i)
      <4>1. item'[i] # Reclaimed(item[i]) /\ ~Opened(i)
        BY <3>2, ReclaimedRow DEF Opened
      <4>2. ASSUME NEW v \in Workers PROVE ~Wrote(v, i)
        BY <3>2 DEF Wrote
      <4> QED
        BY <3>1, <3>4, <4>1, <4>2, RowSteps DEF RowStep
    <3>6. Current(w)
      BY <3>2, <3>5 DEF SameCount, Current
    <3>7. Linked(i)' = Linked(i)
      BY <3>1, <3>2, LinkedSame
    <3> QED
      BY <2>1, <3>1, <3>6, <3>7 DEF HolderInv, SameBlock
  <2>2. ASSUME NEW i \in Items, ClaimItem(w, i)
        PROVE  worker'[w].payload = Linked(worker[w].item)'
    BY <2>2, ClaimFacts DEF Linked
  <2> QED
    BY <1>1, <2>1, <2>2, BlockSteps
<1>2. ASSUME NEW w \in Workers, worker'[w].pc \in {"finishing", "failing"}
      PROVE  /\ SameBlock(w)
             /\ Current(w)
             /\ \/ worker'[w].pc = worker[w].pc
                \/ CheckOutcome(w, worker'[w].pc)
  BY <1>2, BlockSteps, ClaimFacts DEF Holding, HolderInv, SameBlock
<1>3. ASSUME NEW w \in Workers, worker'[w].pc \in {"finishing", "failing"}
      PROVE  Current(w)'
  <2> DEFINE i == worker[w].item
  <2>1. /\ i \in Items /\ worker'[w].item = i /\ Holding(w)
        /\ worker'[w].attempt = worker[w].attempt
        /\ item[i].status = "processing" /\ item[i].attempts = worker[w].attempt
    BY <1>2, <1>3 DEF SameBlock, Current, TypeOK
  <2>2. CASE CheckOutcome(w, worker'[w].pc)
    BY <2>1, <2>2 DEF CheckOutcome, Current
  <2>3. CASE worker'[w].pc = worker[w].pc
    <3>1. InOutcome(i)
      BY <1>3, <2>3 DEF InOutcome
    <3>2. ASSUME NEW v \in Workers, Wrote(v, i) PROVE FALSE
      <4>1. v = w
        BY <2>1, <3>2, WriterIsCurrent DEF FenceInv, UniqueAttempt, Wrote
      <4>2. worker'[w].pc = "loop"
        BY <3>2, <4>1 DEF Wrote, WriteDone, WriteFailure, AtLoop, TypeOK
      <4> QED
        BY <1>3, <4>2
    <3>3. ASSUME NEW v \in Workers PROVE ~ClaimItem(v, i)
      BY <2>1, ClaimFacts
    <3>4. SameCount(i)
      BY <2>1, <3>1, <3>2, <3>3, RowSteps DEF RowStep, Opened, Expired
    <3> QED
      BY <2>1, <3>4 DEF SameCount, Current
  <2> QED
    BY <1>2, <1>3, <2>2, <2>3
<1>4. ASSUME NEW w \in Workers, worker'[w].pc = "finishing"
      PROVE  worker'[w].payload \subseteq handled'
  <2>1. CASE worker[w].pc = "finishing"
    BY <1>2, <1>4, <2>1, HandledGrows DEF HolderInv, SameBlock
  <2>2. CASE CheckOutcome(w, "finishing")
    BY <1>2, <1>4, <2>2 DEF CheckOutcome, SameBlock
  <2> QED
    BY <1>2, <1>4, <2>1, <2>2
<1> QED
  BY <1>1, <1>3, <1>4 DEF HolderInv

LEMMA DoneNext ==
  TypeOK /\ HolderInv /\ DoneMeansHandled /\ [Next]_vars => DoneMeansHandled'
<1> SUFFICES ASSUME TypeOK, HolderInv, DoneMeansHandled, [Next]_vars,
                    NEW i \in Items, item'[i].status = "done"
             PROVE  Linked(i)' \subseteq handled'
  BY DEF DoneMeansHandled
<1>1. Linked(i)' = Linked(i)
  BY LinkedSame
<1>2. CASE SameCount(i)
  BY <1>1, <1>2, HandledGrows DEF SameCount, DoneMeansHandled
<1>3. ASSUME NEW w \in Workers, Wrote(w, i)
      PROVE  Linked(i) \subseteq handled
  <2>1. worker[w].pc = "finishing"
    BY <1>3 DEF Wrote, WriteDone
  <2> QED
    BY <1>3, <2>1, WriterIsCurrent DEF HolderInv
<1>4. ASSUME NEW w \in Workers PROVE ~ClaimItem(w, i)
  BY ClaimFacts
<1>5. item'[i] # Reclaimed(item[i]) /\ ~Opened(i)
  BY ReclaimedRow DEF Opened
<1>6. Linked(i) \subseteq handled
  BY <1>2, <1>3, <1>4, <1>5, RowSteps DEF RowStep, SameCount, DoneMeansHandled
<1> QED
  BY <1>1, <1>6, HandledGrows

LEMMA QueueInit == Init => QueueInv
<1> SUFFICES ASSUME Init PROVE QueueInv
  OBVIOUS
<1>1. TypeOK /\ FenceInv
  BY TypeInit, FenceInit
<1>2. AttemptsInv /\ DoneMeansHandled
  BY DEF Init, AttemptsInv, DoneMeansHandled, Row
<1>3. HolderInv
  BY DEF Init, HolderInv, Holding, AtLoop
<1> QED
  BY <1>1, <1>2, <1>3 DEF QueueInv

LEMMA QueueNext ==
  ASSUME Isolated
  PROVE  QueueInv /\ [Next]_vars => QueueInv'
BY TypeNext, FenceNext, AttemptsNext, HolderNext, DoneNext DEF QueueInv

(* A batch is done only when the processing of each of its messages ended  *)
(* well, whatever leases expire, workers crash or messages join meanwhile. *)
THEOREM NothingClosedUnhandled ==
  ASSUME Isolated PROVE Spec => []DoneMeansHandled
<1>1. Init => QueueInv
  BY QueueInit
<1>2. QueueInv /\ [Next]_vars => QueueInv'
  BY QueueNext
<1>3. QueueInv => DoneMeansHandled
  BY DEF QueueInv
<1> QED
  BY <1>1, <1>2, <1>3, PTL DEF Spec

(* No item is tried a fourth time, and only the third failure gives it up. *)
THEOREM ThreeAttempts ==
  ASSUME Isolated PROVE Spec => []AbandonedOnlyWhenExhausted
<1>1. Init => QueueInv
  BY QueueInit
<1>2. QueueInv /\ [Next]_vars => QueueInv'
  BY QueueNext
<1>3. QueueInv => AbandonedOnlyWhenExhausted
  BY DEF QueueInv, AttemptsInv, AbandonedOnlyWhenExhausted
<1> QED
  BY <1>1, <1>2, <1>3, PTL DEF Spec
-----------------------------------------------------------------------------
(* What renewals in time add: a live worker keeps the row it claimed.      *)

RenewalInv == \A w \in Workers :
                Holding(w) => Current(w) /\ item[worker[w].item].wait >= 1

LEMMA RenewalInit == Init => RenewalInv
BY DEF Init, RenewalInv, Holding, AtLoop

(* While a worker holds an item whose lease runs, only its own renewals,   *)
(* the clock and its own outcome change the row.                           *)
LEMMA LeaseKept ==
  ASSUME RenewsOnTime, TypeOK, FenceInv, RenewalInv, [Next]_vars,
         NEW w \in Workers, Holding(w), Holding(w)'
  PROVE  LET i == worker[w].item IN
         item'[i].status = "processing" /\ SameCount(i) /\ item'[i].wait >= 1
<1> DEFINE i == worker[w].item
           Kept == item'[i].status = "processing" /\ SameCount(i) /\ item'[i].wait >= 1
<1> SUFFICES Kept
  OBVIOUS
<1>1. /\ i \in Items /\ item[i] \in RowType
      /\ item[i].status = "processing" /\ item[i].attempts = worker[w].attempt
      /\ item[i].wait >= 1
  BY DEF TypeOK, RenewalInv, Current
<1>2. ASSUME item'[i] = item[i] PROVE Kept
  BY <1>1, <1>2 DEF SameCount
<1>3. ASSUME NEW e \in Events, EnqueueEvent(e) PROVE Kept
  <2>1. CASE AlreadyQueued(e)
    BY <1>2, <2>1 DEF AlreadyQueued
  <2>2. CASE JoinBatch(e)
    BY <1>1, <1>2, <2>2 DEF JoinBatch, OpenBatches, TypeOK
  <2>3. CASE OpenBatch(e)
    BY <1>1, <1>2, <2>3 DEF OpenBatch, TypeOK
  <2> QED
    BY <1>3, <2>1, <2>2, <2>3 DEF EnqueueEvent
<1>4. ASSUME NEW v \in Workers, ReclaimExpired(v) PROVE Kept
  <2>1. ~Expired(i)
    BY <1>1 DEF Expired, Due, RowType
  <2> QED
    BY <1>1, <1>2, <1>4, <2>1 DEF ReclaimExpired
<1>5. ASSUME NEW v \in Workers, NEW j \in Items, ClaimItem(v, j) PROVE Kept
  <2>1. j # i
    BY <1>1, <1>5, ClaimFacts
  <2> QED
    BY <1>2, <1>5, <2>1 DEF ClaimItem, TypeOK
<1>6. ASSUME NEW v \in Workers, RenewLease(v) PROVE Kept
  <2>1. CASE worker[v].item = i /\ item' = [item EXCEPT ![i].wait = Lease]
    BY <1>1, <2>1, TimingAssumption DEF SameCount, TypeOK, RowType
  <2>2. CASE worker[v].item # i /\ item' = [item EXCEPT ![worker[v].item].wait = Lease]
    BY <1>2, <2>2 DEF TypeOK
  <2>3. CASE UNCHANGED item
    BY <1>2, <2>3
  <2> QED
    BY <1>6, <2>1, <2>2, <2>3 DEF RenewLease
<1>7. ASSUME NEW v \in Workers, WriteDone(v) \/ WriteFailure(v) PROVE Kept
  <2>1. Holding(v) /\ v # w
    BY <1>7 DEF Holding, WriteDone, WriteFailure, AtLoop, TypeOK
  <2>2. worker[v].item # i
    <3> SUFFICES ASSUME worker[v].item = i PROVE FALSE
      OBVIOUS
    <3>1. worker[v].attempt = item[i].attempts
      BY <2>1 DEF RenewalInv, Current
    <3> QED
      BY <1>1, <2>1, <3>1 DEF FenceInv, UniqueAttempt
  <2> QED
    BY <1>2, <1>7, <2>2 DEF WriteDone, WriteFailure, TypeOK
<1>8. ASSUME Tick PROVE Kept
  <2>1. item[i].wait > 1
    BY <1>8, <1>1 DEF Tick, RenewalInv
  <2>2. item'[i] = item[i] \/ item'[i] = Row(item[i].status, item[i].attempts, item[i].wait - 1)
    BY <1>1, <1>8 DEF Tick
  <2> QED
    BY <1>1, <1>2, <2>1, <2>2 DEF SameCount, Row, RowType
<1>9. ASSUME NEW h \in Handlers, QueueEvent(h) PROVE Kept
  BY <1>3, <1>9 DEF QueueEvent, TypeOK
<1>10. ASSUME UNCHANGED item PROVE Kept
  BY <1>2, <1>10
<1> QED
  BY <1>3, <1>4, <1>5, <1>6, <1>7, <1>8, <1>9, <1>10
     DEF Next, WorkerStep, vars, RegisterEvent, LoseRequest, RecoverOrphan,
         ClaimNothing, CheckOutcome, CrashWorker

LEMMA RenewalNext ==
  ASSUME RenewsOnTime
  PROVE  TypeOK /\ TypeOK' /\ FenceInv /\ RenewalInv /\ [Next]_vars => RenewalInv'
<1> SUFFICES ASSUME TypeOK, TypeOK', FenceInv, RenewalInv, [Next]_vars,
                    NEW w \in Workers, Holding(w)'
             PROVE  Current(w)' /\ item'[worker'[w].item].wait >= 1
  BY DEF RenewalInv
<1>1. CASE SameBlock(w)
  <2>1. Holding(w) /\ worker'[w].item = worker[w].item
        /\ worker'[w].attempt = worker[w].attempt
    BY <1>1 DEF SameBlock
  <2> QED
    BY <2>1, LeaseKept DEF RenewalInv, Current, SameCount
<1>2. ASSUME NEW i \in Items, ClaimItem(w, i)
      PROVE  Current(w)' /\ item'[worker'[w].item].wait >= 1
  <2>1. item'[i].wait = Lease
    BY <1>2 DEF ClaimItem, TypeOK, RowType
  <2> QED
    BY <1>2, <2>1, ClaimFacts, TimingAssumption DEF Current
<1> QED
  BY <1>1, <1>2, BlockSteps

(* While live workers renew their leases in time no two of them process    *)
(* the same item, whatever crashes and whatever lands inside finish_job.   *)
THEOREM OneWorkerPerItem ==
  ASSUME RenewsOnTime PROVE Spec => []NoConcurrentProcessing
<1>1. Init => TypeOK /\ FenceInv /\ RenewalInv
  BY TypeInit, FenceInit, RenewalInit
<1>2. TypeOK /\ FenceInv /\ RenewalInv /\ [Next]_vars
        => TypeOK' /\ FenceInv' /\ RenewalInv'
  BY TypeNext, FenceNext, RenewalNext
<1>3. FenceInv /\ RenewalInv => NoConcurrentProcessing
  BY DEF FenceInv, UniqueAttempt, RenewalInv, NoConcurrentProcessing, Current
<1> QED
  BY <1>1, <1>2, <1>3, PTL DEF Spec
-----------------------------------------------------------------------------
(* What queueing an event does, by the batch it goes to.                   *)

Goes(e, b) ==
  /\ link[e] = NoItem
  /\ link' = [link EXCEPT ![e] = b] /\ age' = [age EXCEPT ![e] = 0]
  /\ item'[b].status = "pending" /\ item'[b].wait = Debounce
  /\ \A i \in Items \ {b} : item'[i] = item[i]

Joins(e, b) == b \in OpenBatches(PhoneOf[e])
Opens(e, b) ==
  /\ item[b].status = "absent" /\ OpenBatches(PhoneOf[e]) = {}
  /\ \A c \in BatchIds : c > b => item[c].status # "absent"

LEMMA EnqueueEffect ==
  ASSUME TypeOK, NEW e \in Events, EnqueueEvent(e)
  PROVE  \/ UNCHANGED <<link, item, age>>
         \/ \E b \in BatchIds : Goes(e, b) /\ (Joins(e, b) \/ Opens(e, b))
<1>1. CASE AlreadyQueued(e)
  BY <1>1 DEF AlreadyQueued
<1>2. CASE JoinBatch(e)
  <2>1. PICK b \in OpenBatches(PhoneOf[e]) :
          /\ link' = [link EXCEPT ![e] = b]
          /\ item' = [item EXCEPT ![b].wait = Debounce]
    BY <1>2 DEF JoinBatch
  <2>2. b \in BatchIds /\ b \in Items /\ item[b].status = "pending"
    BY ItemIds DEF OpenBatches
  <2>3. item'[b].status = "pending" /\ item'[b].wait = Debounce
        /\ \A i \in Items \ {b} : item'[i] = item[i]
    BY <2>1, <2>2 DEF TypeOK, RowType
  <2>4. Goes(e, b) /\ Joins(e, b)
    BY <1>2, <2>1, <2>3 DEF JoinBatch, Goes, Joins
  <2> QED
    BY <2>2, <2>4
<1>3. CASE OpenBatch(e)
  <2>1. PICK b \in BatchIds :
          /\ item[b].status = "absent"
          /\ \A c \in BatchIds : c > b => item[c].status # "absent"
          /\ link' = [link EXCEPT ![e] = b]
          /\ item' = [item EXCEPT ![b] = Row("pending", 0, Debounce)]
    BY <1>3 DEF OpenBatch
  <2>2. item'[b].status = "pending" /\ item'[b].wait = Debounce
        /\ \A i \in Items \ {b} : item'[i] = item[i]
    BY <2>1, ItemIds DEF TypeOK, Row
  <2>3. Goes(e, b) /\ Opens(e, b)
    BY <1>3, <2>1, <2>2 DEF OpenBatch, Goes, Opens
  <2> QED
    BY <2>3
<1> QED
  BY <1>1, <1>2, <1>3 DEF EnqueueEvent

(* Only queueing writes links.                                             *)
LEMMA LinkedByQueueing ==
  ASSUME TypeOK, [Next]_vars, link' # link
  PROVE  \E e \in Events, b \in BatchIds : Goes(e, b) /\ (Joins(e, b) \/ Opens(e, b))
<1>1. ASSUME NEW h \in Handlers, QueueEvent(h)
      PROVE  \E e \in Events : EnqueueEvent(e)
  BY <1>1 DEF QueueEvent, TypeOK
<1>2. ASSUME NEW w \in Workers, NEW e \in Events, RecoverOrphan(w, e)
      PROVE  EnqueueEvent(e)
  BY <1>2 DEF RecoverOrphan
<1>3. \E e \in Events : EnqueueEvent(e)
  BY <1>1, <1>2
     DEF Next, WorkerStep, vars, RegisterEvent, LoseRequest, ReclaimExpired,
         ClaimItem, ClaimNothing, RenewLease, CheckOutcome, WriteDone,
         WriteFailure, CrashWorker, Tick
<1> QED
  BY <1>3, EnqueueEffect

LEMMA PhonesAfter ==
  ASSUME TypeOK, NEW e \in Events, NEW b \in BatchIds, Goes(e, b), NEW c \in BatchIds
  PROVE  ItemPhones(c)' \subseteq IF c = b THEN ItemPhones(b) \cup {PhoneOf[e]}
                                  ELSE ItemPhones(c)
<1> SUFFICES ASSUME NEW d \in Events, link'[d] = c
             PROVE  PhoneOf[d] \in IF c = b THEN ItemPhones(b) \cup {PhoneOf[e]}
                                    ELSE ItemPhones(c)
  BY DEF ItemPhones, Linked
<1>1. CASE d = e
  BY <1>1 DEF Goes, TypeOK
<1>2. CASE d # e
  <2>1. link[d] = c
    BY <1>2 DEF Goes, TypeOK
  <2>2. PhoneOf[d] \in ItemPhones(c)
    BY <2>1 DEF ItemPhones, Linked
  <2> QED
    BY <2>2
<1> QED
  BY <1>1, <1>2

(* A row that was closed or is being processed was tried; a link leads to  *)
(* a row; batch ids are handed out one after the other.                    *)
OrderInv ==
  /\ \A i \in Items : item[i].status \notin {"absent", "pending"} => item[i].attempts > 0
  /\ \A e \in Events : link[e] # NoItem => item[link[e]].status # "absent"
  /\ \A b, c \in BatchIds : b < c /\ item[c].status = "absent" => item[b].status = "absent"
  /\ OlderBatchesAttempted

LEMMA OrderInit == Init => OrderInv
<1> SUFFICES ASSUME Init PROVE OrderInv
  OBVIOUS
<1>1. \A i \in Items : item[i] = Row(IF i \in JobIds THEN "pending" ELSE "absent", 0, 0)
  BY DEF Init
<1>2. ASSUME NEW i \in Items
      PROVE  item[i].status = IF i \in JobIds THEN "pending" ELSE "absent"
  <2>1. CASE i \in JobIds
    <3>1. item[i] = Row("pending", 0, 0)
      BY <1>1, <2>1
    <3> QED
      BY <2>1, <3>1 DEF Row
  <2>2. CASE i \notin JobIds
    <3>1. item[i] = Row("absent", 0, 0)
      BY <1>1, <2>2
    <3> QED
      BY <2>2, <3>1 DEF Row
  <2> QED
    BY <2>1, <2>2
<1>3. \A e \in Events : link[e] \in JobIds \cup {NoItem}
  BY InitialIds DEF Init, NoItem
<1>4. \A b \in BatchIds : b \notin JobIds /\ b # NoItem
  BY LegacyAssumption, TimingAssumption DEF BatchIds, JobIds, NoItem
<1>5. OlderBatchesAttempted
  BY <1>3, <1>4 DEF OlderBatchesAttempted, ItemPhones, Linked
<1>6. \A i \in Items : item[i].status \in {"absent", "pending"}
  BY <1>2
<1>7. \A b \in BatchIds : item[b].status = "absent"
  BY <1>2, <1>4, ItemIds
<1>8. \A e \in Events : link[e] # NoItem => item[link[e]].status # "absent"
  BY <1>2, <1>3, ItemIds
<1> QED
  BY <1>5, <1>6, <1>7, <1>8 DEF OrderInv

(* A row once opened is never absent again.                                *)
LEMMA RowsStay ==
  ASSUME TypeOK, [Next]_vars, NEW i \in Items, item[i].status # "absent"
  PROVE  item'[i].status # "absent"
<1>1. ASSUME NEW w \in Workers, ClaimItem(w, i) PROVE item'[i].status # "absent"
  BY <1>1, ClaimFacts
<1>2. CASE item'[i] = Reclaimed(item[i])
  BY <1>2, ReclaimedRow
<1>3. ASSUME NEW w \in Workers, Wrote(w, i) PROVE item'[i].status # "absent"
  BY <1>3 DEF Wrote
<1> QED
  BY <1>1, <1>2, <1>3, RowSteps DEF RowStep, SameCount, Opened

(* Only queueing opens a row.                                              *)
LEMMA OpenedByQueueing ==
  ASSUME TypeOK, FenceInv, [Next]_vars, NEW i \in Items, Opened(i)
  PROVE  \E e \in Events, b \in BatchIds : Goes(e, b) /\ (Joins(e, b) \/ Opens(e, b))
<1>1. item[i].status = "absent" /\ item'[i].status = "pending"
  BY DEF Opened
<1>2. ASSUME NEW h \in Handlers, QueueEvent(h)
      PROVE  \E e \in Events : EnqueueEvent(e)
  BY <1>2 DEF QueueEvent, TypeOK
<1>3. ASSUME NEW w \in Workers, NEW e \in Events, RecoverOrphan(w, e)
      PROVE  EnqueueEvent(e)
  BY <1>3 DEF RecoverOrphan
<1>4. ASSUME NEW e \in Events, EnqueueEvent(e)
      PROVE  \E d \in Events, b \in BatchIds : Goes(d, b) /\ (Joins(d, b) \/ Opens(d, b))
  BY <1>1, <1>4, EnqueueEffect
<1>5. ASSUME NEW w \in Workers, ReclaimExpired(w) PROVE FALSE
  BY <1>1, <1>5 DEF ReclaimExpired, Expired
<1>6. ASSUME NEW w \in Workers, NEW j \in Items, ClaimItem(w, j) PROVE FALSE
  <2>1. item[j].status = "pending"
    BY <1>6, ClaimFacts
  <2> QED
    BY <1>1, <1>6, <2>1 DEF ClaimItem, TypeOK
<1>7. ASSUME NEW w \in Workers, RenewLease(w) PROVE FALSE
  BY <1>1, <1>7 DEF RenewLease, TypeOK, RowType
<1>8. ASSUME NEW w \in Workers, WriteDone(w) \/ WriteFailure(w) PROVE FALSE
  <2>1. Holding(w)
    BY <1>8 DEF WriteDone, WriteFailure, Holding
  <2>2. worker[w].item \in Items /\ worker[w].attempt > 0 /\ worker[w].attempt \in Nat
        /\ worker[w].attempt <= item[worker[w].item].attempts
    BY <2>1 DEF TypeOK, FenceInv, LoopType
  <2>3. worker[w].item # i
    BY <1>1, <2>2 DEF FenceInv
  <2> QED
    BY <1>1, <1>8, <2>3 DEF WriteDone, WriteFailure, TypeOK
<1>9. ASSUME Tick PROVE FALSE
  BY <1>1, <1>9 DEF Tick, Row
<1> QED
  BY <1>1, <1>2, <1>3, <1>4, <1>5, <1>6, <1>7, <1>8, <1>9
     DEF Next, WorkerStep, vars, RegisterEvent, LoseRequest, ClaimNothing,
         CheckOutcome, CrashWorker

LEMMA TriedNext ==
  ASSUME TypeOK, FenceInv, OrderInv, [Next]_vars, NEW i \in Items,
         item'[i].status \notin {"absent", "pending"}
  PROVE  item'[i].attempts > 0
<1>1. item[i].attempts \in Nat
  BY DEF TypeOK, RowType
<1>2. CASE SameCount(i)
  BY <1>2 DEF SameCount, OrderInv
<1>3. ASSUME NEW w \in Workers, ClaimItem(w, i) PROVE item'[i].attempts > 0
  BY <1>1, <1>3, ClaimFacts
<1>4. CASE Expired(i) /\ item'[i] = Reclaimed(item[i])
  BY <1>4, ReclaimedRow DEF Expired, OrderInv
<1>5. ASSUME NEW w \in Workers, Wrote(w, i) PROVE item'[i].attempts > 0
  <2>1. Holding(w) /\ worker[w].item = i
    BY <1>5 DEF Wrote, WriteDone, WriteFailure, Holding
  <2>2. worker[w].attempt > 0 /\ worker[w].attempt <= item[i].attempts
        /\ worker[w].attempt \in Nat
    BY <2>1 DEF TypeOK, FenceInv, LoopType
  <2> QED
    BY <1>1, <1>5, <2>2 DEF Wrote
<1> QED
  BY <1>2, <1>3, <1>4, <1>5, RowSteps DEF RowStep, Opened

LEMMA OlderNext ==
  ASSUME TypeOK, TypeOK', FenceInv, OrderInv, [Next]_vars
  PROVE  OlderBatchesAttempted'
<1> SUFFICES ASSUME NEW b \in BatchIds, NEW c \in BatchIds, c > b,
                    NEW p \in ItemPhones(b)', p \in ItemPhones(c)'
             PROVE  item'[c].attempts > 0
  BY DEF OlderBatchesAttempted
<1>1. /\ b \in Items /\ c \in Items
      /\ item[c].attempts \in Nat /\ item'[c].attempts \in Nat
      /\ item[c].attempts <= item'[c].attempts
  BY ItemIds, AttemptsGrow DEF TypeOK, RowType
<1>2. CASE p \in ItemPhones(b) /\ p \in ItemPhones(c)
  BY <1>1, <1>2 DEF OrderInv, OlderBatchesAttempted
<1>3. ASSUME NEW e \in Events, NEW a \in BatchIds, Goes(e, a), Joins(e, a)
      PROVE  item'[c].attempts > 0
  <2>1. PhoneOf[e] \in ItemPhones(a)
    BY <1>3 DEF Joins, OpenBatches
  <2>2. ItemPhones(b)' \subseteq ItemPhones(b) /\ ItemPhones(c)' \subseteq ItemPhones(c)
    BY <1>3, <2>1, PhonesAfter
  <2> QED
    BY <1>2, <2>2
<1>4. ASSUME NEW e \in Events, NEW a \in BatchIds, Goes(e, a), Opens(e, a)
      PROVE  item'[c].attempts > 0
  <2>1. \A d \in Events : link[d] # a
    BY <1>4, ItemIds DEF OrderInv, Opens
  <2>2. ItemPhones(a) = {}
    BY <2>1 DEF ItemPhones, Linked
  <2>3. CASE b # a /\ c # a
    BY <1>2, <1>4, <2>3, PhonesAfter
  <2>4. CASE b = a
    <3>1. p = PhoneOf[e] /\ p \in ItemPhones(c)
      <4>1. ItemPhones(b)' \subseteq ItemPhones(a) \cup {PhoneOf[e]}
        BY <1>4, <2>4, PhonesAfter
      <4>2. ItemPhones(c)' \subseteq ItemPhones(c)
        <5>1. c # a
          BY <2>4, TimingAssumption DEF BatchIds
        <5> QED
          BY <1>4, <5>1, PhonesAfter
      <4> QED
        BY <2>2, <4>1, <4>2
    <3>2. PICK d \in Events : link[d] = c /\ PhoneOf[d] = p
      BY <3>1 DEF ItemPhones, Linked
    <3>3. item[c].status # "pending"
      BY <1>4, <3>1 DEF Opens, OpenBatches
    <3>4. c # NoItem
      BY <1>1, ItemIds
    <3>5. item[c].status # "absent"
      BY <3>2, <3>4 DEF OrderInv
    <3> QED
      BY <1>1, <3>3, <3>5 DEF OrderInv
  <2>5. CASE c = a
    <3>1. p \in ItemPhones(b)
      <4>1. b # a
        BY <2>5, TimingAssumption DEF BatchIds
      <4>2. ItemPhones(b)' \subseteq ItemPhones(b)
        BY <1>4, <4>1, PhonesAfter
      <4> QED
        BY <4>2
    <3>2. PICK d \in Events : link[d] = b
      BY <3>1 DEF ItemPhones, Linked
    <3>3. b # NoItem
      BY <1>1, ItemIds
    <3>4. item[b].status # "absent"
      BY <3>2, <3>3 DEF OrderInv
    <3> QED
      BY <1>4, <2>5, <3>4 DEF OrderInv, Opens
  <2> QED
    BY <2>3, <2>4, <2>5
<1>5. CASE link' = link
  BY <1>2, <1>5 DEF ItemPhones, Linked
<1> QED
  BY <1>3, <1>4, <1>5, LinkedByQueueing

LEMMA OrderNext ==
  TypeOK /\ TypeOK' /\ FenceInv /\ OrderInv /\ [Next]_vars => OrderInv'
<1> SUFFICES ASSUME TypeOK, TypeOK', FenceInv, OrderInv, [Next]_vars PROVE OrderInv'
  OBVIOUS
<1>1. ASSUME NEW e \in Events, link'[e] # NoItem
      PROVE  item'[link'[e]].status # "absent"
  <2>1. CASE link'[e] = link[e]
    BY <1>1, <2>1, RowsStay DEF OrderInv, TypeOK
  <2>2. CASE link'[e] # link[e]
    BY <2>2, LinkSteps
  <2> QED
    BY <2>1, <2>2
<1>2. ASSUME NEW b \in BatchIds, NEW c \in BatchIds, b < c, item'[c].status = "absent"
      PROVE  item'[b].status = "absent"
  <2>1. b \in Items /\ c \in Items
    BY ItemIds
  <2>2. item[c].status = "absent" /\ item[b].status = "absent"
    BY <1>2, <2>1, RowsStay DEF OrderInv
  <2>3. ASSUME Opened(b) PROVE FALSE
    <3>1. PICK e \in Events, a \in BatchIds : Goes(e, a) /\ (Joins(e, a) \/ Opens(e, a))
      BY <2>1, <2>3, OpenedByQueueing
    <3>2. a = b
      BY <2>1, <2>3, <3>1 DEF Goes, Opened
    <3>3. item[b].status # "pending"
      BY <2>2
    <3>4. Opens(e, b)
      BY <3>1, <3>2, <3>3 DEF Joins, OpenBatches
    <3> QED
      BY <1>2, <2>2, <3>4 DEF Opens
  <2>4. ASSUME NEW w \in Workers, ClaimItem(w, b) PROVE FALSE
    BY <2>1, <2>2, <2>4, ClaimFacts
  <2>5. ASSUME NEW w \in Workers, Wrote(w, b) PROVE FALSE
    <3>1. Holding(w) /\ worker[w].item = b
      BY <2>5 DEF Wrote, WriteDone, WriteFailure, Holding
    <3>2. worker[w].attempt > 0 /\ worker[w].attempt \in Nat
          /\ worker[w].attempt <= item[b].attempts /\ item[b].attempts = 0
      BY <2>1, <2>2, <3>1 DEF TypeOK, FenceInv, LoopType
    <3> QED
      BY <3>2
  <2> QED
    BY <2>1, <2>2, <2>3, <2>4, <2>5, RowSteps DEF RowStep, SameCount, Expired
<1> QED
  BY <1>1, <1>2, OlderNext, TriedNext DEF OrderInv
(* Every older batch of a contact was tried before the contact gets a      *)
(* newer one, even when transactions land inside finish_job or fail_job.   *)
THEOREM OlderBatchesFirst == Spec => []OlderBatchesAttempted
<1>1. Init => TypeOK /\ FenceInv /\ OrderInv
  BY TypeInit, FenceInit, OrderInit
<1>2. TypeOK /\ FenceInv /\ OrderInv /\ [Next]_vars => TypeOK' /\ FenceInv' /\ OrderInv'
  BY TypeNext, FenceNext, OrderNext
<1>3. OrderInv => OlderBatchesAttempted
  BY DEF OrderInv
<1> QED
  BY <1>1, <1>2, <1>3, PTL DEF Spec
-----------------------------------------------------------------------------
(* The debounce window, while outcomes are isolated: what is left of the   *)
(* wait of a batch covers what its youngest message lacks.                 *)

DebounceInv ==
  /\ \A e \in Events : age[e] <= Debounce
  /\ \A b \in BatchIds, e \in Events : link[e] = b =>
       /\ item[b].status = "processing" => age[e] = Debounce
       /\ item[b].status = "pending" => age[e] = Debounce \/ age[e] + item[b].wait >= Debounce

Aged(b) == \A e \in Events : link[e] = b =>
  /\ item[b].status = "processing" => age[e] = Debounce
  /\ item[b].status = "pending" => age[e] = Debounce \/ age[e] + item[b].wait >= Debounce

LEMMA DebounceInit == Init => DebounceInv
<1> SUFFICES ASSUME Init PROVE DebounceInv
  OBVIOUS
<1>1. \A e \in Events : age[e] = 0 /\ link[e] \in JobIds \cup {NoItem}
  BY InitialIds DEF Init, NoItem
<1>2. \A b \in BatchIds : b \notin JobIds /\ b # NoItem
  BY LegacyAssumption, TimingAssumption DEF BatchIds, JobIds, NoItem
<1> QED
  BY <1>1, <1>2, TimingAssumption DEF DebounceInv

(* Once a batch is due, all its messages have waited.                      *)
LEMMA DueIsAged ==
  ASSUME TypeOK, DebounceInv, NEW b \in BatchIds, item[b].status = "pending", Due(b),
         NEW e \in Events, link[e] = b
  PROVE  age[e] = Debounce
<1>1. item[b].wait \in Int /\ age[e] \in Nat
  BY ItemIds DEF TypeOK, RowType
<1>2. age[e] <= Debounce /\ (age[e] = Debounce \/ age[e] + item[b].wait >= Debounce)
  BY DEF DebounceInv
<1> QED
  BY <1>1, <1>2, TimingAssumption DEF Due

LEMMA ClaimIsDue ==
  ASSUME NEW w \in Workers, NEW i \in Items, ClaimItem(w, i)
  PROVE  Due(i)
BY DEF ClaimItem, NextClaims, Claimable

LEMMA AgedNext ==
  ASSUME TypeOK, TypeOK', HolderInv, DebounceInv, [Next]_vars, NEW b \in BatchIds
  PROVE  Aged(b)'
<1>1. b \in Items /\ item[b] \in RowType
  BY ItemIds DEF TypeOK
<1>2. Aged(b) /\ \A e \in Events : age[e] <= Debounce
  BY DEF DebounceInv, Aged
<1>3. ASSUME link' = link, age' = age, item'[b] = item[b] PROVE Aged(b)'
  BY <1>2, <1>3 DEF Aged
<1>4. ASSUME link' = link, age' = age, \A e \in Events : link[e] = b => age[e] = Debounce
      PROVE  Aged(b)'
  BY <1>4 DEF Aged
<1>5. ASSUME item[b].status = "processing"
      PROVE  \A e \in Events : link[e] = b => age[e] = Debounce
  BY <1>2, <1>5 DEF Aged
<1>6. ASSUME NEW e \in Events, EnqueueEvent(e) PROVE Aged(b)'
  <2>1. CASE UNCHANGED <<link, item, age>>
    BY <1>3, <2>1
  <2>2. ASSUME NEW a \in BatchIds, Goes(e, a), Joins(e, a) \/ Opens(e, a)
        PROVE  Aged(b)'
    <3>1. CASE a = b
      BY <1>2, <2>2, <3>1, TimingAssumption DEF Aged, Goes, TypeOK
    <3>2. CASE a # b
      <4>1. item'[b] = item[b]
        BY <1>1, <2>2, <3>2 DEF Goes
      <4>2. \A d \in Events : link'[d] = b => link[d] = b /\ age'[d] = age[d]
        BY <2>2, <3>2 DEF Goes, TypeOK
      <4> QED
        BY <1>2, <4>1, <4>2 DEF Aged
    <3> QED
      BY <3>1, <3>2
  <2> QED
    BY <1>6, <2>1, <2>2, EnqueueEffect
<1>7. ASSUME NEW w \in Workers, ReclaimExpired(w) PROVE Aged(b)'
  <2>1. link' = link /\ age' = age
    BY <1>7 DEF ReclaimExpired
  <2>2. CASE Expired(b)
    BY <1>4, <1>5, <2>1, <2>2 DEF Expired
  <2>3. CASE ~Expired(b)
    BY <1>1, <1>3, <1>7, <2>1, <2>3 DEF ReclaimExpired
  <2> QED
    BY <2>2, <2>3
<1>8. ASSUME NEW w \in Workers, NEW i \in Items, ClaimItem(w, i) PROVE Aged(b)'
  <2>1. link' = link /\ age' = age
    BY <1>8 DEF ClaimItem
  <2>2. CASE i = b
    <3>1. item[b].status = "pending" /\ Due(b)
      BY <1>8, <2>2, ClaimFacts, ClaimIsDue
    <3>2. \A e \in Events : link[e] = b => age[e] = Debounce
      BY <3>1, DueIsAged
    <3> QED
      BY <1>4, <2>1, <3>2
  <2>3. CASE i # b
    BY <1>1, <1>3, <1>8, <2>1, <2>3 DEF ClaimItem, TypeOK
  <2> QED
    BY <2>2, <2>3
<1>9. ASSUME NEW w \in Workers, RenewLease(w) PROVE Aged(b)'
  <2>1. link' = link /\ age' = age
    BY <1>9 DEF RenewLease
  <2>2. CASE item' = item
    BY <1>3, <2>1, <2>2
  <2>3. CASE Current(w) /\ item' = [item EXCEPT ![worker[w].item].wait = Lease]
    <3>1. CASE worker[w].item = b
      BY <1>4, <1>5, <2>1, <2>3, <3>1 DEF Current
    <3>2. CASE worker[w].item # b
      BY <1>1, <1>3, <2>1, <2>3, <3>2 DEF TypeOK
    <3> QED
      BY <3>1, <3>2
  <2> QED
    BY <1>9, <2>2, <2>3 DEF RenewLease
<1>10. ASSUME NEW w \in Workers, WriteDone(w) \/ WriteFailure(w) PROVE Aged(b)'
  <2>1. link' = link /\ age' = age /\ worker[w].pc \in {"finishing", "failing"}
    BY <1>10 DEF WriteDone, WriteFailure
  <2>2. CASE worker[w].item = b
    BY <1>4, <1>5, <2>1, <2>2 DEF HolderInv, Current
  <2>3. CASE worker[w].item # b
    BY <1>1, <1>3, <1>10, <2>1, <2>3 DEF WriteDone, WriteFailure, TypeOK
  <2> QED
    BY <2>2, <2>3
<1>11. ASSUME Tick PROVE Aged(b)'
  <2> SUFFICES ASSUME NEW e \in Events, link'[e] = b
               PROVE  /\ item'[b].status = "processing" => age'[e] = Debounce
                      /\ item'[b].status = "pending"
                           => age'[e] = Debounce \/ age'[e] + item'[b].wait >= Debounce
    BY DEF Aged
  <2>1. link[e] = b /\ link[e] # NoItem /\ age[e] \in Nat /\ item[b].wait \in Int
    BY <1>1, <1>11, ItemIds DEF Tick, TypeOK, RowType
  <2>2. age'[e] = IF age[e] < Debounce THEN age[e] + 1 ELSE age[e]
    BY <1>11, <2>1 DEF Tick
  <2>3. CASE age[e] = Debounce
    BY <2>2, <2>3, TimingAssumption
  <2>4. CASE age[e] # Debounce
    <3>1. age[e] < Debounce
      BY <1>2, <2>1, <2>4, TimingAssumption
    <3>2. item[b].status # "processing"
      BY <1>2, <2>1, <2>4 DEF Aged
    <3>3. CASE item[b].status = "pending"
      <4>1. age[e] + item[b].wait >= Debounce
        BY <1>2, <2>1, <2>4, <3>3 DEF Aged
      <4>2. item[b].wait > -MaxLate
        BY <2>1, <3>1, <4>1, TimingAssumption
      <4>3. item'[b] = Row(item[b].status, item[b].attempts, item[b].wait - 1)
        BY <1>1, <1>11, <3>3, <4>2 DEF Tick
      <4>4. item'[b].status = "pending" /\ item'[b].wait = item[b].wait - 1
        BY <3>3, <4>3 DEF Row
      <4> QED
        BY <2>1, <2>2, <3>1, <4>1, <4>4, TimingAssumption
    <3>4. CASE item[b].status # "pending"
      <4>1. item'[b] = item[b]
        BY <1>1, <1>11, <3>2, <3>4 DEF Tick
      <4> QED
        BY <3>2, <3>4, <4>1
    <3> QED
      BY <3>3, <3>4
  <2> QED
    BY <2>3, <2>4
<1>12. ASSUME NEW h \in Handlers, QueueEvent(h) PROVE Aged(b)'
  BY <1>6, <1>12 DEF QueueEvent, TypeOK
<1>13. ASSUME NEW w \in Workers, NEW e \in Events, RecoverOrphan(w, e) PROVE Aged(b)'
  BY <1>6, <1>13 DEF RecoverOrphan
<1>14. ASSUME UNCHANGED <<link, item, age>> PROVE Aged(b)'
  BY <1>3, <1>14
<1> QED
  BY <1>7, <1>8, <1>9, <1>10, <1>11, <1>12, <1>13, <1>14
     DEF Next, WorkerStep, vars, RegisterEvent, LoseRequest, ClaimNothing,
         CheckOutcome, CrashWorker

LEMMA AgeNext ==
  ASSUME TypeOK, DebounceInv, [Next]_vars, NEW e \in Events
  PROVE  age'[e] <= Debounce
<1>1. age[e] \in Nat /\ age[e] <= Debounce
  BY DEF TypeOK, DebounceInv
<1>2. ASSUME NEW d \in Events, EnqueueEvent(d) PROVE age'[e] <= Debounce
  BY <1>1, <1>2, EnqueueEffect, TimingAssumption DEF Goes, TypeOK
<1>3. ASSUME NEW h \in Handlers, QueueEvent(h) PROVE age'[e] <= Debounce
  BY <1>2, <1>3 DEF QueueEvent, TypeOK
<1>4. ASSUME NEW w \in Workers, NEW d \in Events, RecoverOrphan(w, d)
      PROVE  age'[e] <= Debounce
  BY <1>2, <1>4 DEF RecoverOrphan
<1>5. ASSUME Tick PROVE age'[e] <= Debounce
  BY <1>1, <1>5, TimingAssumption DEF Tick
<1> QED
  BY <1>1, <1>3, <1>4, <1>5
     DEF Next, WorkerStep, vars, RegisterEvent, LoseRequest, ReclaimExpired,
         ClaimItem, ClaimNothing, RenewLease, CheckOutcome, WriteDone,
         WriteFailure, CrashWorker

LEMMA DebounceNext ==
  TypeOK /\ TypeOK' /\ HolderInv /\ DebounceInv /\ [Next]_vars => DebounceInv'
BY AgedNext, AgeNext DEF DebounceInv, Aged

(* A batch is claimed only when its contact was silent for the whole       *)
(* debounce window, also after joins, retries and reclaims.                *)
THEOREM SilenceBeforeClaim ==
  ASSUME Isolated PROVE Spec => DebounceRespected
<1>1. Init => QueueInv /\ DebounceInv
  BY QueueInit, DebounceInit
<1>2. QueueInv /\ DebounceInv /\ [Next]_vars => QueueInv' /\ DebounceInv'
  BY QueueNext, DebounceNext DEF QueueInv
<1>3. ASSUME QueueInv, DebounceInv, [Next]_vars, NEW b \in BatchIds, NEW e \in Events,
             item[b].status = "pending", item'[b].status = "processing", link[e] = b
      PROVE  age[e] = Debounce
  <2>1. b \in Items /\ TypeOK
    BY <1>3, ItemIds DEF QueueInv
  <2>2. ASSUME NEW w \in Workers, ClaimItem(w, b) PROVE age[e] = Debounce
    BY <1>3, <2>1, <2>2, ClaimIsDue, DueIsAged
  <2>3. ASSUME NEW w \in Workers, Wrote(w, b) PROVE FALSE
    BY <1>3, <2>3 DEF Wrote
  <2> QED
    BY <1>3, <2>1, <2>2, <2>3, RowSteps, ReclaimedRow DEF RowStep, SameCount, Opened
<1>4. QueueInv /\ DebounceInv /\ [Next]_vars =>
        [\A b \in BatchIds, e \in Events :
           /\ item[b].status = "pending" /\ item'[b].status = "processing"
           /\ link[e] = b
           => age[e] = Debounce]_vars
  BY <1>3
<1> QED
  BY <1>1, <1>2, <1>4, PTL DEF Spec, DebounceRespected
-----------------------------------------------------------------------------
(* The refinement of the event life cycle (EventDelivery).                 *)

(* An event is stored before it is queued or waits between the two         *)
(* transactions of its request, and a payload is made of queued events.    *)
DeliveryInv ==
  /\ \A e \in Events : link[e] # NoItem => Stored(e)
  /\ \A h \in Handlers : webhook[h] # NoEvent => Stored(webhook[h])
  /\ \A w \in Workers : Holding(w) => \A e \in worker[w].payload : link[e] # NoItem

LEMMA DeliveryInit == Init => DeliveryInv
BY DEF Init, DeliveryInv, Stored, Holding, AtLoop, NoItem

(* Events are never unstored.                                              *)
LEMMA StoredStays ==
  ASSUME TypeOK, [Next]_vars, NEW e \in Events, Stored(e)
  PROVE  Stored(e)'
<1>1. ASSUME NEW h \in Handlers, NEW d \in Events, RegisterEvent(h, d)
      PROVE  eventId'[e] = eventId[e]
  BY <1>1 DEF RegisterEvent, TypeOK, Stored
<1> QED
  BY <1>1 DEF Stored, Next, WorkerStep, vars, QueueEvent, LoseRequest, RecoverOrphan,
       ReclaimExpired, ClaimItem, ClaimNothing, RenewLease, CheckOutcome, WriteDone,
       WriteFailure, CrashWorker, Tick

(* What a request has in hand was in its hand before or has just been      *)
(* stored.                                                                 *)
LEMMA RequestSteps ==
  ASSUME TypeOK, [Next]_vars, NEW h \in Handlers, webhook'[h] # NoEvent
  PROVE  webhook'[h] = webhook[h] \/ eventId'[webhook'[h]] # 0
<1>1. ASSUME NEW g \in Handlers, NEW e \in Events, RegisterEvent(g, e)
      PROVE  webhook'[h] = webhook[h] \/ eventId'[webhook'[h]] # 0
  <2>1. webhook' = [webhook EXCEPT ![g] = e]
    BY <1>1 DEF RegisterEvent
  <2>2. eventId'[e] # 0
    <3>1. CASE ~Stored(e)
      BY <1>1, <3>1, StoredCount DEF RegisterEvent, TypeOK, Stored
    <3>2. CASE Stored(e)
      BY <1>1, <3>2 DEF RegisterEvent, Stored
    <3> QED
      BY <3>1, <3>2
  <2>3. webhook'[h] = IF h = g THEN e ELSE webhook[h]
    BY <2>1 DEF TypeOK
  <2> QED
    BY <2>2, <2>3
<1>2. ASSUME NEW g \in Handlers, QueueEvent(g) \/ LoseRequest(g)
      PROVE  webhook'[h] = webhook[h]
  <2>1. webhook' = [webhook EXCEPT ![g] = NoEvent]
    BY <1>2 DEF QueueEvent, LoseRequest
  <2>2. webhook'[h] \in {webhook[h], NoEvent}
    BY <2>1 DEF TypeOK
  <2> QED
    BY <2>2
<1>3. ASSUME UNCHANGED webhook PROVE webhook'[h] = webhook[h]
  BY <1>3
<1> QED
  BY <1>1, <1>2, <1>3 DEF Next, WorkerStep, vars, RecoverOrphan,
       ReclaimExpired, ClaimItem, ClaimNothing, RenewLease, CheckOutcome, WriteDone,
       WriteFailure, CrashWorker, Tick

(* An event that is queued comes from a request or from the orphan scan.   *)
LEMMA QueuedWasStored ==
  ASSUME TypeOK, DeliveryInv, [Next]_vars, NEW e \in Events, link'[e] # link[e]
  PROVE  Stored(e)
<1>1. ASSUME NEW d \in Events, EnqueueEvent(d) PROVE d = e
  BY <1>1, EnqueueEffect DEF Goes, TypeOK
<1>2. ASSUME NEW h \in Handlers, QueueEvent(h) PROVE Stored(e)
  BY <1>1, <1>2 DEF QueueEvent, DeliveryInv, TypeOK
<1>3. ASSUME NEW w \in Workers, NEW d \in Events, RecoverOrphan(w, d) PROVE Stored(e)
  BY <1>1, <1>3 DEF RecoverOrphan, Orphans
<1> QED
  BY <1>2, <1>3
     DEF Next, WorkerStep, vars, RegisterEvent, LoseRequest, ReclaimExpired,
         ClaimItem, ClaimNothing, RenewLease, CheckOutcome, WriteDone,
         WriteFailure, CrashWorker, Tick

LEMMA DeliveryNext ==
  ASSUME TypeOK, TypeOK', DeliveryInv, [Next]_vars
  PROVE  DeliveryInv'
<1>1. ASSUME NEW e \in Events, link'[e] # NoItem PROVE Stored(e)'
  <2>1. CASE link'[e] = link[e]
    BY <1>1, <2>1, StoredStays DEF DeliveryInv
  <2>2. CASE link'[e] # link[e]
    BY <2>2, QueuedWasStored, StoredStays
  <2> QED
    BY <2>1, <2>2
<1>2. ASSUME NEW h \in Handlers, webhook'[h] # NoEvent PROVE Stored(webhook[h])'
  <2>1. CASE webhook'[h] = webhook[h]
    <3>1. PICK e \in Events : e = webhook[h]
      BY <1>2, <2>1 DEF TypeOK
    <3>2. Stored(e)'
      BY <1>2, <2>1, <3>1, StoredStays DEF DeliveryInv
    <3> QED
      BY <2>1, <3>1, <3>2 DEF Stored
  <2> QED
    BY <1>2, <2>1, RequestSteps DEF Stored
<1>3. ASSUME NEW w \in Workers, Holding(w)', NEW e \in Events, e \in worker'[w].payload
      PROVE  link'[e] # NoItem
  <2>1. link[e] # NoItem
    <3>1. CASE SameBlock(w)
      BY <1>3, <3>1 DEF SameBlock, DeliveryInv
    <3>2. ASSUME NEW i \in Items, ClaimItem(w, i) PROVE link[e] # NoItem
      BY <1>3, <3>2, ClaimFacts, ItemIds DEF Linked
    <3> QED
      BY <1>3, <3>1, <3>2, BlockSteps
  <2> QED
    BY <2>1, LinkSteps
<1>4. \A w \in Workers : worker'[w].payload \subseteq Events
  BY DEF TypeOK, LoopType
<1> QED
  BY <1>1, <1>2, <1>3, <1>4 DEF DeliveryInv, Holding

(* The stage of an event stays when its row and its link stay and the      *)
(* status of its item stays, or neither status ends the item.              *)
Kept(i) == \/ item'[i].status = item[i].status
           \/ /\ item[i].status \notin {"done", "failed"}
              /\ item'[i].status \notin {"done", "failed"}

LEMMA StageKept ==
  ASSUME NEW e \in Events, eventId'[e] = eventId[e], link'[e] = link[e],
         link[e] # NoItem => Kept(link[e])
  PROVE  Stage(e)' = Stage(e)
BY DEF Stage, Stored, Kept

Stages == [e \in Events |-> Stage(e)]

LEMMA AllKept ==
  ASSUME TypeOK, UNCHANGED <<eventId, link>>, \A i \in Items : Kept(i)
  PROVE  Stages' = Stages
<1>1. ASSUME NEW e \in Events PROVE Stage(e)' = Stage(e)
  BY <1>1, StageKept DEF TypeOK
<1> QED
  BY <1>1 DEF Stages

(* One item ends, with the events linked to it.                            *)
LEMMA ItemEnds ==
  ASSUME TypeOK, DeliveryInv, UNCHANGED <<eventId, link>>, NEW i \in Items,
         item[i].status \notin {"done", "failed"},
         item'[i].status \in {"done", "failed"},
         \A j \in Items \ {i} : item'[j] = item[j]
  PROVE  LET s == IF item'[i].status = "done" THEN "answered" ELSE "abandoned" IN
         /\ \A e \in Linked(i) : Stage(e) = "queued" /\ Stage(e)' = s
         /\ \A e \in Events \ Linked(i) : Stage(e)' = Stage(e)
<1>1. ASSUME NEW e \in Linked(i)
      PROVE  e \in Events /\ link[e] = i /\ Stored(e) /\ link[e] # NoItem
  BY <1>1, ItemIds DEF Linked, DeliveryInv
<1>2. ASSUME NEW e \in Linked(i)
      PROVE  Stage(e) = "queued"
             /\ Stage(e)' = IF item'[i].status = "done" THEN "answered" ELSE "abandoned"
  BY <1>1 DEF Stage, Stored
<1>3. ASSUME NEW e \in Events \ Linked(i) PROVE Stage(e)' = Stage(e)
  <2>1. link[e] # NoItem => link[e] \in Items \ {i}
    BY <1>3 DEF TypeOK, Linked
  <2> QED
    BY <2>1, StageKept DEF Kept
<1> QED
  BY <1>2, <1>3

Moved(S, s) == Stages' = [e \in Events |-> IF e \in S THEN s ELSE Stages[e]]

LEMMA StoreStep ==
  ASSUME TypeOK, DeliveryInv, NEW h \in Handlers, NEW e \in Events, RegisterEvent(h, e)
  PROVE  \/ Stages' = Stages
         \/ Stages[e] = "new" /\ Moved({e}, "stored")
<1>1. UNCHANGED <<link, item>>
  BY DEF RegisterEvent
<1>2. ASSUME NEW d \in Events, eventId'[d] = eventId[d] PROVE Stage(d)' = Stage(d)
  BY <1>1, <1>2, StageKept DEF Kept
<1>3. CASE Stored(e)
  <2>1. eventId' = eventId
    BY <1>3 DEF RegisterEvent
  <2> QED
    BY <1>2, <2>1 DEF Stages
<1>4. CASE ~Stored(e)
  <2>1. eventId' = [eventId EXCEPT ![e] = 1 + Cardinality({d \in Events : Stored(d)})]
    BY <1>4 DEF RegisterEvent
  <2>2. eventId'[e] # 0 /\ \A d \in Events \ {e} : eventId'[d] = eventId[d]
    BY <2>1, StoredCount DEF TypeOK
  <2>3. link[e] = NoItem
    BY <1>4 DEF DeliveryInv
  <2>4. Stage(e) = "new" /\ Stage(e)' = "stored"
    BY <1>1, <1>4, <2>2, <2>3 DEF Stage, Stored
  <2> QED
    BY <1>2, <2>2, <2>4 DEF Stages, Moved
<1> QED
  BY <1>3, <1>4

LEMMA QueueStep ==
  ASSUME TypeOK, DeliveryInv, NEW e \in Events, Stored(e), EnqueueEvent(e),
         UNCHANGED eventId
  PROVE  \/ Stages' = Stages
         \/ Stages[e] = "stored" /\ Moved({e}, "queued")
<1>1. CASE UNCHANGED <<link, item>>
  BY <1>1, AllKept DEF Kept
<1>2. ASSUME NEW b \in BatchIds, Goes(e, b), Joins(e, b) \/ Opens(e, b)
      PROVE  Stages[e] = "stored" /\ Moved({e}, "queued")
  <2>1. link' = [link EXCEPT ![e] = b] /\ link[e] = NoItem
    BY <1>2 DEF Goes
  <2>2. \A i \in Items : Kept(i)
    <3>1. item[b].status \in {"absent", "pending"} /\ item'[b].status = "pending"
      BY <1>2 DEF Goes, Joins, Opens, OpenBatches
    <3> QED
      BY <1>2, <3>1 DEF Goes, Kept
  <2>3. ASSUME NEW d \in Events, d # e PROVE Stage(d)' = Stage(d)
    <3>1. link'[d] = link[d] /\ link[d] \in Items \cup {NoItem}
      BY <2>1, <2>3 DEF TypeOK
    <3> QED
      BY <2>2, <3>1, StageKept
  <2>4. Stage(e) = "stored"
    BY <2>1 DEF Stage
  <2>5. Stage(e)' = "queued"
    <3>1. link'[e] = b /\ b # NoItem /\ item'[b].status = "pending"
      BY <1>2, <2>1, ItemIds DEF TypeOK, Goes
    <3> QED
      BY <3>1 DEF Stage, Stored
  <2> QED
    BY <2>3, <2>4, <2>5 DEF Stages, Moved
<1> QED
  BY <1>1, <1>2, EnqueueEffect

LEMMA ReclaimStep ==
  ASSUME TypeOK, DeliveryInv, NEW w \in Workers, ReclaimExpired(w)
  PROVE  \E S \in SUBSET Events :
           (\A e \in S : Stages[e] = "queued") /\ Moved(S, "abandoned")
<1> DEFINE S == {e \in Events : /\ link[e] \in Items /\ Expired(link[e])
                                /\ Reclaimed(item[link[e]]).status = "failed"}
<1>1. /\ UNCHANGED <<eventId, link>>
      /\ \A i \in Items : item'[i] = IF Expired(i) THEN Reclaimed(item[i]) ELSE item[i]
  BY DEF ReclaimExpired
<1>2. ASSUME NEW e \in S PROVE Stage(e) = "queued" /\ Stage(e)' = "abandoned"
  <2>1. /\ link[e] \in Items /\ link[e] # NoItem /\ Stored(e)
        /\ item[link[e]].status = "processing" /\ item'[link[e]].status = "failed"
    BY <1>1, ItemIds DEF Expired, DeliveryInv
  <2> QED
    BY <1>1, <2>1 DEF Stage, Stored
<1>3. ASSUME NEW e \in Events \ S PROVE Stage(e)' = Stage(e)
  <2>1. ASSUME link[e] # NoItem PROVE Kept(link[e])
    <3>1. link[e] \in Items
      BY <1>3, <2>1 DEF TypeOK
    <3> QED
      BY <1>1, <1>3, <3>1, ReclaimedRow DEF Kept, Expired
  <2> QED
    BY <1>1, <2>1, StageKept
<1>4. S \in SUBSET Events
  OBVIOUS
<1> HIDE DEF S
<1>5. (\A e \in S : Stages[e] = "queued") /\ Moved(S, "abandoned")
  BY <1>2, <1>3, <1>4 DEF Stages, Moved
<1> QED
  BY <1>4, <1>5

LEMMA WriteStep ==
  ASSUME TypeOK, HolderInv, DeliveryInv, NEW w \in Workers, WriteDone(w) \/ WriteFailure(w)
  PROVE  \/ Stages' = Stages
         \/ \E S \in SUBSET Events :
              /\ \A e \in S : Stages[e] = "queued"
              /\ Moved(S, "abandoned") \/ (S \subseteq handled /\ Moved(S, "answered"))
<1> DEFINE i == worker[w].item
<1>1. worker[w].pc \in {"finishing", "failing"}
  BY DEF WriteDone, WriteFailure
<1>2. Holding(w) /\ Current(w) /\ i \in Items
  BY <1>1 DEF HolderInv, Holding, TypeOK
<1>3. item[i].status = "processing" /\ worker[w].payload = Linked(i)
  BY <1>2 DEF HolderInv, Current
<1>4. UNCHANGED <<eventId, link>>
  BY DEF WriteDone, WriteFailure
<1>5. \A j \in Items \ {i} : item'[j] = item[j]
  BY DEF WriteDone, WriteFailure, TypeOK
<1>6. Linked(i) \in SUBSET Events
  BY DEF Linked
<1> HIDE DEF i
<1>7. CASE WriteDone(w)
  <2>1. item'[i].status = "done"
    BY <1>2, <1>7 DEF WriteDone, TypeOK, RowType, i
  <2>2. Linked(i) \subseteq handled
    BY <1>3, <1>7 DEF HolderInv, WriteDone
  <2>3. /\ \A e \in Linked(i) : Stage(e) = "queued" /\ Stage(e)' = "answered"
        /\ \A e \in Events \ Linked(i) : Stage(e)' = Stage(e)
    BY <1>2, <1>3, <1>4, <1>5, <2>1, ItemEnds
  <2>4. (\A e \in Linked(i) : Stages[e] = "queued") /\ Moved(Linked(i), "answered")
    BY <1>6, <2>3 DEF Stages, Moved
  <2> QED
    BY <1>6, <2>2, <2>4
<1>8. CASE WriteFailure(w)
  <2>1. item'[i] = AfterFailure(i, item[i], worker[w].attempt)
    BY <1>2, <1>8 DEF WriteFailure, TypeOK, i
  <2>2. item'[i].status \in {"pending", "failed"}
    BY <2>1 DEF AfterFailure, Row
  <2>3. CASE item'[i].status = "pending"
    <3>1. \A j \in Items : Kept(j)
      BY <1>3, <1>5, <2>3 DEF Kept
    <3> QED
      BY <1>4, <3>1, AllKept
  <2>4. CASE item'[i].status = "failed"
    <3>1. /\ \A e \in Linked(i) : Stage(e) = "queued" /\ Stage(e)' = "abandoned"
          /\ \A e \in Events \ Linked(i) : Stage(e)' = Stage(e)
      BY <1>2, <1>3, <1>4, <1>5, <2>4, ItemEnds
    <3>2. (\A e \in Linked(i) : Stages[e] = "queued") /\ Moved(Linked(i), "abandoned")
      BY <1>6, <3>1 DEF Stages, Moved
    <3> QED
      BY <1>6, <3>2
  <2> QED
    BY <2>2, <2>3, <2>4
<1> QED
  BY <1>7, <1>8

LEMMA HandleStep ==
  ASSUME TypeOK, DeliveryInv, NEW w \in Workers,
         NEW outcome \in {"finishing", "failing"}, CheckOutcome(w, outcome)
  PROVE  /\ Stages' = Stages
         /\ \/ handled' = handled
            \/ \E S \in SUBSET Events : /\ handled' = handled \cup S
                                        /\ \A e \in S : Stages[e] \notin {"new", "stored"}
<1>1. Stages' = Stages
  BY AllKept DEF CheckOutcome, Kept
<1>2. worker[w].payload \in SUBSET Events
  BY DEF TypeOK, LoopType
<1>3. ASSUME NEW e \in worker[w].payload PROVE Stages[e] \notin {"new", "stored"}
  <2>1. link[e] # NoItem /\ Stored(e)
    BY <1>2 DEF CheckOutcome, DeliveryInv, Holding
  <2> QED
    BY <1>2, <2>1 DEF Stages, Stage
<1> QED
  BY <1>1, <1>2, <1>3 DEF CheckOutcome

(* Steps that leave every event where it is.                               *)
LEMMA QuietStep ==
  ASSUME TypeOK,
         \/ UNCHANGED vars \/ Tick
         \/ \E h \in Handlers : LoseRequest(h)
         \/ \E w \in Workers : \/ ClaimNothing(w) \/ RenewLease(w) \/ CrashWorker(w)
                               \/ \E i \in Items : ClaimItem(w, i)
  PROVE  Stages' = Stages /\ UNCHANGED handled
<1>1. UNCHANGED <<eventId, link, handled>>
  BY DEF vars, Tick, LoseRequest, ClaimNothing, RenewLease, CrashWorker, ClaimItem
<1>2. ASSUME UNCHANGED item PROVE \A i \in Items : Kept(i)
  BY <1>2 DEF Kept
<1>3. ASSUME Tick PROVE \A i \in Items : Kept(i)
  BY <1>3 DEF Tick, Kept, Row
<1>4. ASSUME NEW w \in Workers, RenewLease(w) PROVE \A i \in Items : Kept(i)
  BY <1>4 DEF RenewLease, Kept, TypeOK, RowType
<1>5. ASSUME NEW w \in Workers, NEW i \in Items, ClaimItem(w, i)
      PROVE  \A j \in Items : Kept(j)
  <2>1. item[i].status = "pending" /\ item'[i].status = "processing"
    BY <1>5, ClaimFacts
  <2>2. \A j \in Items \ {i} : item'[j] = item[j]
    BY <1>5 DEF ClaimItem, TypeOK
  <2> QED
    BY <2>1, <2>2 DEF Kept
<1>6. \A i \in Items : Kept(i)
  BY <1>2, <1>3, <1>4, <1>5 DEF vars, LoseRequest, ClaimNothing, CrashWorker
<1> QED
  BY <1>1, <1>6, AllKept

(* A step of the queue is a step of the event life cycle or stutters.      *)
LifeCycle ==
  \/ Stages' = Stages /\ handled' = handled
  \/ /\ handled' = handled
     /\ \E e \in Events : \/ Stages[e] = "new" /\ Moved({e}, "stored")
                          \/ Stages[e] = "stored" /\ Moved({e}, "queued")
  \/ /\ handled' = handled
     /\ \E S \in SUBSET Events :
          /\ \A e \in S : Stages[e] = "queued"
          /\ Moved(S, "abandoned") \/ (S \subseteq handled /\ Moved(S, "answered"))
  \/ /\ Stages' = Stages
     /\ \E S \in SUBSET Events : /\ handled' = handled \cup S
                                 /\ \A e \in S : Stages[e] \notin {"new", "stored"}

LEMMA EachStepDelivers ==
  ASSUME QueueInv, DeliveryInv, [Next]_vars PROVE LifeCycle
<1> USE DEF QueueInv
<1>1. ASSUME NEW h \in Handlers, NEW e \in Events, RegisterEvent(h, e) PROVE LifeCycle
  <2>1. handled' = handled
    BY <1>1 DEF RegisterEvent
  <2> QED
    BY <1>1, <2>1, StoreStep DEF LifeCycle
<1>2. ASSUME NEW e \in Events, Stored(e), EnqueueEvent(e), UNCHANGED <<eventId, handled>>
      PROVE  LifeCycle
  BY <1>2, QueueStep DEF LifeCycle
<1>3. ASSUME NEW h \in Handlers, QueueEvent(h) PROVE LifeCycle
  BY <1>2, <1>3 DEF QueueEvent, DeliveryInv, TypeOK
<1>4. ASSUME NEW w \in Workers, NEW e \in Events, RecoverOrphan(w, e) PROVE LifeCycle
  BY <1>2, <1>4 DEF RecoverOrphan, Orphans
<1>5. ASSUME NEW w \in Workers, ReclaimExpired(w) PROVE LifeCycle
  <2>1. handled' = handled
    BY <1>5 DEF ReclaimExpired
  <2> QED
    BY <1>5, <2>1, ReclaimStep DEF LifeCycle
<1>6. ASSUME NEW w \in Workers, WriteDone(w) \/ WriteFailure(w) PROVE LifeCycle
  <2>1. handled' = handled
    BY <1>6 DEF WriteDone, WriteFailure
  <2> QED
    BY <1>6, <2>1, WriteStep DEF LifeCycle
<1>7. ASSUME NEW w \in Workers, NEW outcome \in {"finishing", "failing"},
             CheckOutcome(w, outcome)
      PROVE  LifeCycle
  BY <1>7, HandleStep DEF LifeCycle
<1>8. ASSUME \/ UNCHANGED vars \/ Tick
             \/ \E h \in Handlers : LoseRequest(h)
             \/ \E w \in Workers : \/ ClaimNothing(w) \/ RenewLease(w) \/ CrashWorker(w)
                                   \/ \E i \in Items : ClaimItem(w, i)
      PROVE  LifeCycle
  BY <1>8, QuietStep DEF LifeCycle
<1> QED
  BY <1>1, <1>3, <1>4, <1>5, <1>6, <1>7, <1>8 DEF Next, WorkerStep

(* The queue implements the event life cycle: an event is stored, queued,  *)
(* and then answered or given up for good; it is answered only after its   *)
(* processing ended without an exception.                                  *)
THEOREM DeliversEvents ==
  ASSUME Isolated PROVE Spec => ImplementsDelivery
<1>1. Init => Delivery!Init
  <2> SUFFICES ASSUME Init PROVE Delivery!Init
    OBVIOUS
  <2>1. ASSUME NEW e \in Events PROVE Stage(e) \in {"new", "queued"}
    <3>1. TypeOK /\ link[e] = eventId[e]
      BY TypeInit DEF Init
    <3>2. CASE eventId[e] = 0
      BY <3>2 DEF Stage, Stored
    <3>3. CASE eventId[e] # 0
      <4>1. link[e] \in Items /\ link[e] # NoItem
        BY <3>1, <3>3 DEF TypeOK, NoItem
      <4>2. item[link[e]].status \in {"pending", "absent"}
        BY <4>1 DEF Init, Row
      <4> QED
        BY <3>3, <4>1, <4>2 DEF Stage, Stored
    <3> QED
      BY <3>2, <3>3
  <2> QED
    BY <2>1 DEF Init, Delivery!Init
<1>2. QueueInv /\ DeliveryInv /\ [Next]_vars => [Delivery!Next]_(Delivery!vars)
  <2> SUFFICES ASSUME QueueInv, DeliveryInv, [Next]_vars
               PROVE  [Delivery!Next]_(Delivery!vars)
    OBVIOUS
  <2>1. LifeCycle
    BY EachStepDelivers
  <2>2. \A s : Delivery!In(s) = {e \in Events : Stages[e] = s}
    BY DEF Delivery!In, Stages
  <2>3. \A S, s : Delivery!Move(S, s) <=> Moved(S, s)
    BY DEF Delivery!Move, Moved, Stages
  <2>4. CASE Stages' = Stages /\ handled' = handled
    BY <2>4 DEF Delivery!vars, Stages
  <2>5. ASSUME handled' = handled, NEW e \in Events, Stages[e] = "new",
               Moved({e}, "stored")
        PROVE  Delivery!Next
    <3>1. Delivery!Store(e)
      BY <2>2, <2>3, <2>5 DEF Delivery!Store
    <3> QED
      BY <3>1 DEF Delivery!Next
  <2>6. ASSUME handled' = handled, NEW e \in Events, Stages[e] = "stored",
               Moved({e}, "queued")
        PROVE  Delivery!Next
    <3>1. Delivery!Queue(e)
      BY <2>2, <2>3, <2>6 DEF Delivery!Queue
    <3> QED
      BY <3>1 DEF Delivery!Next
  <2>7. ASSUME handled' = handled, NEW S \in SUBSET Events,
               \A e \in S : Stages[e] = "queued",
               Moved(S, "abandoned") \/ (S \subseteq handled /\ Moved(S, "answered"))
        PROVE  Delivery!Next
    <3>1. Delivery!Abandon(S) \/ Delivery!Answer(S)
      BY <2>2, <2>3, <2>7 DEF Delivery!Abandon, Delivery!Answer
    <3> QED
      BY <3>1 DEF Delivery!Next
  <2>8. ASSUME Stages' = Stages, NEW S \in SUBSET Events, handled' = handled \cup S,
               \A e \in S : Stages[e] \notin {"new", "stored"}
        PROVE  Delivery!Next
    <3>1. Delivery!Handle(S)
      BY <2>2, <2>8 DEF Delivery!Handle, Stages
    <3> QED
      BY <3>1 DEF Delivery!Next
  <2> QED
    BY <2>1, <2>4, <2>5, <2>6, <2>7, <2>8 DEF LifeCycle
<1>3. Init => QueueInv /\ DeliveryInv
  BY QueueInit, DeliveryInit
<1>4. QueueInv /\ DeliveryInv /\ [Next]_vars => QueueInv' /\ DeliveryInv'
  BY QueueNext, DeliveryNext DEF QueueInv
<1> QED
  BY <1>1, <1>2, <1>3, <1>4, PTL DEF Spec, ImplementsDelivery, Delivery!Spec
=============================================================================
