---------------------------- MODULE MessageQueue ----------------------------
(***************************************************************************)
(* The durable inbound queue of the WhatsApp robot: the webhook stores     *)
(* every callback and links it to a per-contact debounce batch, workers    *)
(* claim batches under a lease, renew the lease while they process, and    *)
(* finish or fail the attempt they hold.  Tables inbound_events, jobs,     *)
(* message_batches and message_batch_events (src/app/storage/database.py), *)
(* the webhook (src/app/main.py) and the worker loop (src/worker.py).      *)
(*                                                                         *)
(* One action is one database transaction or one step of the code between  *)
(* two transactions.  Time is a countdown per row: wait is available_at    *)
(* minus the current time, in clock ticks.                                 *)
(***************************************************************************)
EXTENDS Integers, FiniteSets, Sequences

CONSTANTS
  Events,       \* callbacks by external_id, each one message of one contact
  PhoneOf,      \* the contact of an event
  NoEvent,      \* a webhook request that is not between its transactions
  Manual,       \* the events sent from the store's own number (from_me)
  Workers,      \* worker processes, a restarted one keeps its name
  Handlers,     \* concurrent webhook requests
  LegacyQueue,  \* events of the jobs rows an older release left pending
  MaxBatches,   \* bound on the batch ids handed out
  Debounce,     \* MESSAGE_BATCH_WAIT_SECONDS in ticks
  Lease,        \* JOB_LEASE_SECONDS in ticks
  RetryDelay,   \* ticks before a failed attempt of a batch is due again
  MaxLate,      \* bound: rows overdue by MaxLate or more count as equally late
  ScanLimit,    \* rows unlinked_inbound_events returns (100 in the code)
  Isolated,     \* no other transaction lands inside finish_job or fail_job
  RenewsOnTime  \* the lease of a live worker is renewed before it runs out

MaxAttempts == 3

JobIds   == 1 .. Len(LegacyQueue)
BatchIds == -MaxBatches .. -1
Items    == JobIds \cup BatchIds
NoItem   == 0

ASSUME EventsAssumption ==
  /\ IsFiniteSet(Events) /\ NoEvent \notin Events
  /\ Manual \subseteq Events
  /\ PhoneOf \in [Events -> {PhoneOf[e] : e \in Events}]
ASSUME LegacyAssumption ==
  /\ LegacyQueue \in Seq(Events)
  /\ \A i, j \in JobIds : LegacyQueue[i] = LegacyQueue[j] => i = j
ASSUME TimingAssumption ==
  /\ MaxBatches \in Nat /\ Debounce \in Nat /\ Lease \in Nat \ {0}
  /\ MaxLate \in Nat /\ ScanLimit \in Nat \ {0}
  /\ RetryDelay \in [1 .. MaxAttempts - 1 -> Nat \ {0}]
ASSUME ModeAssumption == Isolated \in BOOLEAN /\ RenewsOnTime \in BOOLEAN

VARIABLES
  eventId,  \* inbound_events.id of an event, 0 while it has no row
  link,     \* the job or batch an event is linked to
  item,     \* the rows of jobs and message_batches
  webhook,  \* the event a webhook request stored and has not queued yet
  worker,   \* the worker loops
  handled,  \* history: events whose processing ended without an exception
  age       \* history: ticks since an event was linked, up to Debounce

vars == <<eventId, link, item, webhook, worker, handled, age>>
-----------------------------------------------------------------------------
Statuses == {"absent", "pending", "processing", "done", "failed"}
Row(s, n, d) == [status |-> s, attempts |-> n, wait |-> d]
AtLoop   == [pc |-> "loop", item |-> NoItem, attempt |-> 0,
             payload |-> {}, lease |-> "ended"]

Stored(e)      == eventId[e] # 0
Linked(i)      == {e \in Events : link[e] = i}
ItemPhones(i)  == {PhoneOf[e] : e \in Linked(i)}
Orphans        == {e \in Events : Stored(e) /\ link[e] = NoItem}
Terminal(i)    == item[i].status \in {"done", "failed"}
Due(i)         == item[i].wait <= 0
LegacyEvents   == {LegacyQueue[i] : i \in JobIds}

(* The worker is inside the block that processes an item it claimed. *)
Holding(w) == worker[w].pc \in {"working", "finishing", "failing"}

(* Faulty variants (names starting with Bad) state plausible bugs of the   *)
(* definition after them; the properties must tell them from the code.     *)
BadCurrentAnyAttempt(w) == item[worker[w].item].status = "processing"

(* The row still is the attempt the worker claimed: the guard that         *)
(* renew_job_lease, finish_job and fail_job put on an expected attempt.    *)
Current(w) ==
  LET row == item[worker[w].item] IN
  row.status = "processing" /\ row.attempts = worker[w].attempt

(* The row is between the SELECT and the UPDATE of finish_job or fail_job. *)
InOutcome(i) == \E w \in Workers : worker[w].pc \in {"finishing", "failing"}
                                   /\ worker[w].item = i

Init ==
  /\ eventId = [e \in Events |->
                  IF e \in LegacyEvents
                  THEN CHOOSE i \in JobIds : LegacyQueue[i] = e ELSE 0]
  /\ link    = [e \in Events |-> eventId[e]]
  /\ item    = [i \in Items |->
                  Row(IF i \in JobIds THEN "pending" ELSE "absent", 0, 0)]
  /\ webhook = [h \in Handlers |-> NoEvent]
  /\ worker  = [w \in Workers |-> AtLoop]
  /\ handled = {}
  /\ age     = [e \in Events |-> 0]
-----------------------------------------------------------------------------
(* Webhook.  A callback is stored in one transaction and queued in a       *)
(* second one; the provider may deliver a callback any number of times.    *)

(* register_inbound_event: idempotent on external_id. *)
RegisterEvent(h, e) ==
  /\ webhook[h] = NoEvent
  /\ webhook' = [webhook EXCEPT ![h] = e]
  /\ \/ Stored(e) /\ UNCHANGED eventId
     \/ /\ ~Stored(e)
        /\ eventId' = [eventId EXCEPT
             ![e] = 1 + Cardinality({d \in Events : Stored(d)})]
  /\ UNCHANGED <<link, item, worker, handled, age>>

BadOpenBatchesNotDue(p) ==
  {b \in BatchIds : item[b].status = "pending" /\ ~Due(b) /\ p \in ItemPhones(b)}

(* The pending batches of a contact. *)
OpenBatches(p) ==
  {b \in BatchIds : item[b].status = "pending" /\ p \in ItemPhones(b)}

AlreadyQueued(e) ==
  /\ link[e] # NoItem
  /\ UNCHANGED <<link, item, age>>

BadJoinBatchNoExtension(e) ==
  /\ link[e] = NoItem
  /\ \E b \in OpenBatches(PhoneOf[e]) :
       /\ \A c \in OpenBatches(PhoneOf[e]) : b <= c
       /\ link' = [link EXCEPT ![e] = b]
  /\ age' = [age EXCEPT ![e] = 0]
  /\ UNCHANGED item

(* The newest pending batch (ids are negated) takes the event and waits    *)
(* for another full debounce window.                                       *)
JoinBatch(e) ==
  /\ link[e] = NoItem
  /\ \E b \in OpenBatches(PhoneOf[e]) :
       /\ \A c \in OpenBatches(PhoneOf[e]) : b <= c
       /\ link' = [link EXCEPT ![e] = b]
       /\ item' = [item EXCEPT ![b].wait = Debounce]
  /\ age' = [age EXCEPT ![e] = 0]

OpenBatch(e) ==
  /\ link[e] = NoItem
  /\ OpenBatches(PhoneOf[e]) = {}
  /\ \E b \in BatchIds :
       /\ item[b].status = "absent"
       /\ \A c \in BatchIds : c > b => item[c].status # "absent"
       /\ link' = [link EXCEPT ![e] = b]
       /\ item' = [item EXCEPT ![b] = Row("pending", 0, Debounce)]
  /\ age' = [age EXCEPT ![e] = 0]

(* _enqueue_job_in_session, one transaction under the contact's advisory   *)
(* lock.  No caller in src/ leaves the phone empty, so no new jobs row.    *)
EnqueueEvent(e) == AlreadyQueued(e) \/ JoinBatch(e) \/ OpenBatch(e)

(* register_inbound_event_and_enqueue, then the answer to the provider. *)
QueueEvent(h) ==
  /\ webhook[h] # NoEvent
  /\ EnqueueEvent(webhook[h])
  /\ webhook' = [webhook EXCEPT ![h] = NoEvent]
  /\ UNCHANGED <<eventId, worker, handled>>

(* The web process dies, or the second transaction fails, in between. *)
LoseRequest(h) ==
  /\ webhook[h] # NoEvent
  /\ webhook' = [webhook EXCEPT ![h] = NoEvent]
  /\ UNCHANGED <<eventId, link, item, worker, handled, age>>
-----------------------------------------------------------------------------
(* Worker loop. *)

(* _recover_unlinked_inbound_events, one event of the scan: the scan sees  *)
(* the oldest ScanLimit orphans and leaves the store's own messages alone. *)
RecoverOrphan(w, e) ==
  /\ worker[w].pc = "loop"
  /\ e \in Orphans \ Manual
  /\ Cardinality({d \in Orphans : eventId[d] < eventId[e]}) < ScanLimit
  /\ EnqueueEvent(e)
  /\ UNCHANGED <<eventId, webhook, worker, handled>>

Expired(i) == /\ item[i].status = "processing" /\ Due(i)
              /\ ~(Isolated /\ InOutcome(i))

BadReclaimedForever(row) == Row("pending", row.attempts, 0)
BadReclaimedAnew(row) == Row("pending", 0, 0)

Reclaimed(row) ==
  Row(IF row.attempts < MaxAttempts THEN "pending" ELSE "failed", row.attempts, 0)

BadReclaimJobsOnly(w) ==
  /\ worker[w].pc = "loop"
  /\ item' = [i \in Items |-> IF i \in JobIds /\ Expired(i)
                             THEN Reclaimed(item[i]) ELSE item[i]]
  /\ worker' = [worker EXCEPT ![w].pc = "polling"]
  /\ UNCHANGED <<eventId, link, webhook, handled, age>>

(* claim_next_job, first transaction: _reclaim_expired_jobs. *)
ReclaimExpired(w) ==
  /\ worker[w].pc = "loop"
  /\ item' = [i \in Items |-> IF Expired(i) THEN Reclaimed(item[i]) ELSE item[i]]
  /\ worker' = [worker EXCEPT ![w].pc = "polling"]
  /\ UNCHANGED <<eventId, link, webhook, handled, age>>

Claimable(ids) == {i \in ids : item[i].status = "pending" /\ Due(i)}

(* Batches are taken by (available_at, id): a smaller wait is earlier. *)
Earlier(a, b) == \/ item[a].wait < item[b].wait
                 \/ /\ item[a].wait = item[b].wait
                    /\ item[a].wait > -MaxLate /\ a > b

(* claim_next_job, second transaction: jobs rows first, oldest id first,   *)
(* then the batch that has been due longest.                               *)
NextClaims ==
  IF Claimable(JobIds) # {}
  THEN {i \in Claimable(JobIds) : \A j \in Claimable(JobIds) : i <= j}
  ELSE {b \in Claimable(BatchIds) : \A c \in Claimable(BatchIds) : ~Earlier(c, b)}

BadClaimUncounted(w, i) ==
  /\ worker[w].pc = "polling"
  /\ i \in NextClaims
  /\ item' = [item EXCEPT ![i].status = "processing", ![i].wait = Lease]
  /\ worker' = [worker EXCEPT ![w] =
                  [pc |-> "working", item |-> i, attempt |-> item[i].attempts,
                   payload |-> Linked(i), lease |-> "renewed"]]
  /\ UNCHANGED <<eventId, link, webhook, handled, age>>

ClaimItem(w, i) ==
  /\ worker[w].pc = "polling"
  /\ i \in NextClaims
  /\ item' = [item EXCEPT ![i].status = "processing",
                          ![i].attempts = @ + 1,
                          ![i].wait = Lease]
  /\ worker' = [worker EXCEPT ![w] =
                  [pc |-> "working", item |-> i, attempt |-> item[i].attempts + 1,
                   payload |-> Linked(i), lease |-> "renewed"]]
  /\ UNCHANGED <<eventId, link, webhook, handled, age>>

ClaimNothing(w) ==
  /\ worker[w].pc = "polling"
  /\ NextClaims = {}
  /\ worker' = [worker EXCEPT ![w] = AtLoop]
  /\ UNCHANGED <<eventId, link, item, webhook, handled, age>>

(* _maintain_job_lease: the renewal of the attempt the task was given; the *)
(* task ends when no row matches.  finish_job and fail_job block the event *)
(* loop, so a renewal happens only while the processor runs.               *)
RenewLease(w) ==
  /\ worker[w].pc = "working" /\ worker[w].lease = "renewed"
  /\ \/ /\ Current(w)
        /\ item' = [item EXCEPT ![worker[w].item].wait = Lease]
        /\ UNCHANGED worker
     \/ /\ ~Current(w)
        /\ worker' = [worker EXCEPT ![w].lease = "ended"]
        /\ UNCHANGED item
  /\ UNCHANGED <<eventId, link, webhook, handled, age>>

BadFinishAlways(w, outcome) ==
  /\ worker[w].pc = "working"
  /\ handled' = IF outcome = "finishing" THEN handled \cup worker[w].payload
                ELSE handled
  /\ \/ Current(w) /\ worker' = [worker EXCEPT ![w].pc = "finishing"]
     \/ ~Current(w) /\ worker' = [worker EXCEPT ![w] = AtLoop]
  /\ UNCHANGED <<eventId, link, item, webhook, age>>

(* The processor returns (outcome "finishing") or raises ("failing"), and  *)
(* finish_job or fail_job reads the row: a row that is no longer the       *)
(* worker's attempt is left alone.                                         *)
CheckOutcome(w, outcome) ==
  /\ worker[w].pc = "working"
  /\ handled' = IF outcome = "finishing" THEN handled \cup worker[w].payload
                ELSE handled
  /\ \/ Current(w) /\ worker' = [worker EXCEPT ![w].pc = outcome]
     \/ ~Current(w) /\ worker' = [worker EXCEPT ![w] = AtLoop]
  /\ UNCHANGED <<eventId, link, item, webhook, age>>

(* finish_job writes by primary key, whatever the row has become. *)
WriteDone(w) ==
  /\ worker[w].pc = "finishing"
  /\ item' = [item EXCEPT ![worker[w].item].status = "done",
                          ![worker[w].item].wait = 0]
  /\ worker' = [worker EXCEPT ![w] = AtLoop]
  /\ UNCHANGED <<eventId, link, webhook, handled, age>>

AfterFailure(i, row, attempt) ==
  IF attempt < MaxAttempts
  THEN Row("pending", row.attempts, IF i \in JobIds THEN 0 ELSE RetryDelay[attempt])
  ELSE Row("failed", row.attempts, 0)

(* fail_job: pending again after a backoff until the third attempt. *)
WriteFailure(w) ==
  LET i == worker[w].item IN
  /\ worker[w].pc = "failing"
  /\ item' = [item EXCEPT ![i] = AfterFailure(i, item[i], worker[w].attempt)]
  /\ worker' = [worker EXCEPT ![w] = AtLoop]
  /\ UNCHANGED <<eventId, link, webhook, handled, age>>

(* The process dies while it holds an item and is started again; before    *)
(* the write, whatever the processor did stays done.                       *)
CrashWorker(w) ==
  /\ Holding(w)
  /\ worker' = [worker EXCEPT ![w] = AtLoop]
  /\ UNCHANGED <<eventId, link, item, webhook, handled, age>>
-----------------------------------------------------------------------------
(* One clock tick.  With RenewsOnTime the clock waits for the renewal that *)
(* the lease task of a live worker performs every third of the lease.      *)
Tick ==
  /\ RenewsOnTime => \A w \in Workers : Holding(w) /\ Current(w) =>
                       item[worker[w].item].wait > 1
  /\ item' = [i \in Items |->
                IF item[i].status \in {"pending", "processing"}
                   /\ item[i].wait > -MaxLate
                THEN Row(item[i].status, item[i].attempts, item[i].wait - 1)
                ELSE item[i]]
  /\ age'  = [e \in Events |->
                IF link[e] # NoItem /\ age[e] < Debounce
                THEN age[e] + 1 ELSE age[e]]
  /\ UNCHANGED <<eventId, link, webhook, worker, handled>>

WorkerStep(w) ==
  \/ ReclaimExpired(w) \/ (\E i \in Items : ClaimItem(w, i)) \/ ClaimNothing(w)
  \/ (\E outcome \in {"finishing", "failing"} : CheckOutcome(w, outcome))
  \/ WriteDone(w) \/ WriteFailure(w)

Next ==
  \/ \E h \in Handlers : \/ \E e \in Events : RegisterEvent(h, e)
                         \/ QueueEvent(h) \/ LoseRequest(h)
  \/ \E w \in Workers : \/ WorkerStep(w) \/ RenewLease(w) \/ CrashWorker(w)
                        \/ \E e \in Events : RecoverOrphan(w, e)
  \/ Tick

Spec == Init /\ [][Next]_vars

(* The clock runs, a worker loop keeps running (calls to the model and to  *)
(* the provider time out, Docker restarts a dead process), and the loop    *)
(* comes back to the orphan scan whenever it is at its top.  Nothing is    *)
(* assumed of the webhook, of renewals or of the result of the processor.  *)
Fairness ==
  /\ WF_vars(Tick)
  /\ \A w \in Workers : WF_vars(WorkerStep(w))
  /\ \A e \in Events : SF_vars(\E w \in Workers : RecoverOrphan(w, e))

FairSpec == Spec /\ Fairness
-----------------------------------------------------------------------------
(* Properties. *)

RowType == [status : Statuses, attempts : Nat, wait : Int]
LoopType == [pc : {"loop", "polling", "working", "finishing", "failing"},
             item : Items \cup {NoItem}, attempt : Nat,
             payload : SUBSET Events, lease : {"renewed", "ended"}]

(* Every variable has its type, and a worker inside the processing block   *)
(* holds one attempt of an item.                                           *)
TypeOK ==
  /\ eventId \in [Events -> Nat]
  /\ link \in [Events -> Items \cup {NoItem}]
  /\ item \in [Items -> RowType]
  /\ webhook \in [Handlers -> Events \cup {NoEvent}]
  /\ worker \in [Workers -> LoopType]
  /\ \A w \in Workers :
       Holding(w) => worker[w].item \in Items /\ worker[w].attempt > 0
  /\ handled \subseteq Events
  /\ age \in [Events -> Nat]

(* A batch is done only when every message linked to it, also one that     *)
(* joined while a reclaimed batch was pending again, has been through a    *)
(* processing that ended well: a late worker cannot close messages it      *)
(* never saw (the expected_attempts guard of finish_job).                  *)
DoneMeansHandled ==
  \A i \in Items : item[i].status = "done" => Linked(i) \subseteq handled

(* The attempt number fences: however leases expire and workers crash, no  *)
(* two workers ever hold the same attempt of the same item.                *)
UniqueAttempt ==
  \A v, w \in Workers :
    v # w /\ Holding(v) /\ Holding(w) /\ worker[v].item = worker[w].item
      => worker[v].attempt # worker[w].attempt

(* Messages are given up only after exactly three attempts, and no item is *)
(* tried a fourth time, whichever of fail_job and the lease reclaim counts.*)
AbandonedOnlyWhenExhausted ==
  \A i \in Items : /\ item[i].attempts <= MaxAttempts
                   /\ item[i].status = "failed" => item[i].attempts = MaxAttempts

(* A contact gets a newer batch only once every older batch of the contact *)
(* was tried: messages of one debounce window never end up in two batches, *)
(* and first attempts follow the order of arrival.                         *)
OlderBatchesAttempted ==
  \A b, c \in BatchIds :
    c > b /\ ItemPhones(b) \cap ItemPhones(c) # {} => item[c].attempts > 0

(* A worker takes a batch only when the contact has been silent for the    *)
(* whole debounce window, also when the batch was extended or retried      *)
(* (Isolated: a stale fail_job would write its shorter backoff over it).    *)
DebounceRespected ==
  [][\A b \in BatchIds, e \in Events :
       /\ item[b].status = "pending" /\ item'[b].status = "processing"
       /\ link[e] = b
       => age[e] = Debounce]_vars

(* While live workers renew on time no two workers process the same item.  *)
NoConcurrentProcessing ==
  \A v, w \in Workers :
    v # w /\ Holding(v) /\ Holding(w) => worker[v].item # worker[w].item

(* Every stored customer message is eventually in a finished or abandoned  *)
(* item, whatever requests are lost and however often workers crash.       *)
CustomerMessagesResolved ==
  \A e \in Events \ Manual :
    Stored(e) ~> (link[e] # NoItem /\ Terminal(link[e]))

-----------------------------------------------------------------------------
(* The inductive strengthening behind the invariants. *)

(* attempts counts the claims of a row and agrees with its status. *)
AttemptsInv ==
  \A i \in Items : /\ item[i].status = "absent" => item[i].attempts = 0
                   /\ item[i].status = "pending" => item[i].attempts < MaxAttempts
                   /\ item[i].status = "processing" => item[i].attempts > 0
                   /\ item[i].status = "failed" => item[i].attempts = MaxAttempts
                   /\ item[i].attempts <= MaxAttempts

(* A worker never holds an attempt that has not been counted yet. *)
FenceInv ==
  /\ \A i \in Items : item[i].status = "absent" => item[i].attempts = 0
  /\ \A w \in Workers :
       Holding(w) => worker[w].attempt <= item[worker[w].item].attempts
  /\ UniqueAttempt

(* The holder of the current attempt saw all messages of the item, and     *)
(* between the read and the write of an outcome it stays the holder.       *)
HolderInv ==
  /\ \A w \in Workers :
       Holding(w) /\ Current(w) => worker[w].payload = Linked(worker[w].item)
  /\ \A w \in Workers :
       worker[w].pc \in {"finishing", "failing"} => Current(w)
  /\ \A w \in Workers :
       worker[w].pc = "finishing" => worker[w].payload \subseteq handled

QueueInv == /\ TypeOK /\ AttemptsInv /\ FenceInv /\ HolderInv
            /\ DoneMeansHandled
-----------------------------------------------------------------------------
(* The promise of the queue to one event, see EventDelivery. *)
Stage(e) ==
  IF ~Stored(e) THEN "new"
  ELSE IF link[e] = NoItem THEN "stored"
  ELSE IF item[link[e]].status = "done" THEN "answered"
  ELSE IF item[link[e]].status = "failed" THEN "abandoned"
  ELSE "queued"

Delivery == INSTANCE EventDelivery WITH
  stage <- [e \in Events |-> Stage(e)]

(* The queue implements the event life cycle of EventDelivery. *)
ImplementsDelivery == Delivery!Spec
=============================================================================
