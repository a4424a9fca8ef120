----------------------------- MODULE RecoverySend -----------------------------
(***************************************************************************)
(* The panel's recovery queue for one contact: an operator sends a         *)
(* reviewed reply to an old conversation while new messages of the contact *)
(* arrive at the webhook and a worker answers older ones.  The send is     *)
(* kept single by locks inside a web process (_KeyedAsyncLocks), a claim   *)
(* row with a lease, and an advisory lock shared with the queue            *)
(* (src/app/main.py, src/app/storage/database.py).                         *)
(*                                                                         *)
(* A step is one transaction, or the code between two awaits.              *)
(***************************************************************************)
EXTENDS Integers, Sequences, FiniteSets

CONSTANTS
  Webs,      \* web processes
  Senders,   \* requests to send a recovery reply
  Events,    \* callbacks of the contact
  WebOf,     \* the process that serves a sender or an event
  Seen,      \* the history row each sender's draft was written for
  Lease,     \* lease_seconds of a claim, in ticks
  NoOne,     \* a lock nobody holds
  MaxTime    \* bound of the clock

ASSUME RecoveryAssumption ==
  /\ Senders \cap Events = {} /\ NoOne \notin Senders \cup Events
  /\ WebOf \in [Senders \cup Events -> Webs]
  /\ Seen \in [Senders -> Nat \ {0}]
  /\ Lease \in Nat \ {0} /\ MaxTime \in Nat

VARIABLES
  now,        \* the database clients' clock
  rows,       \* messages rows of the contact, each with its created_at
  status,     \* conversations.status
  event,      \* the webhook's progress with an event
  received,   \* inbound_events.received_at of a stored event
  recorded,   \* events whose message is a row of the history
  claim,      \* the recovery_send_claims row
  issued,     \* claim tokens issued so far
  sender,     \* the send requests
  phoneLock,  \* the contact's lock of a process
  capacity,   \* the __recovery_send_capacity__ lock of a process
  advisory,   \* the holder of the advisory session lock of the contact
  delivered,  \* history: replies the provider delivered, by reviewed row
  lost        \* history: ... of which no row was written

vars == <<now, rows, status, event, received, recorded, claim, issued, sender,
          phoneLock, capacity, advisory, delivered, lost>>
history == <<rows, recorded, status>>
webhook == <<event, received>>
locks == <<phoneLock, capacity, advisory>>
outbox == <<delivered, lost>>
-----------------------------------------------------------------------------
Last == Len(rows)
Allowed == status \in {"bot_active", "human_pending", "human_active"}
Claim(seen, token, state, expires) ==
  [seen |-> seen, token |-> token, status |-> state, expires |-> expires]
Request(pc, token) == [pc |-> pc, token |-> token]

(* Events whose request is between mark_pending and the end of its queueing. *)
Pending(p) ==
  {e \in Events : WebOf[e] = p /\ event[e] \in {"marked", "stored", "queueing"}}
Stored == {e \in Events : event[e] \notin {"new", "marked"}}
SeenRows == {Seen[s] : s \in Senders}

Init ==
  /\ now = 0
  /\ rows = <<0>>
  /\ status \in {"bot_active", "human_pending"}
  /\ event = [e \in Events |-> "new"]
  /\ received = [e \in Events |-> 0]
  /\ recorded = {}
  /\ claim = Claim(0, 0, "none", 0)
  /\ issued = 0
  /\ sender = [s \in Senders |-> Request("new", 0)]
  /\ phoneLock = [p \in Webs |-> NoOne]
  /\ capacity = [p \in Webs |-> NoOne]
  /\ advisory = NoOne
  /\ delivered = [i \in SeenRows |-> 0]
  /\ lost = [i \in SeenRows |-> 0]
-----------------------------------------------------------------------------
(* The webhook. *)

(* mark_pending, before the event is stored. *)
MarkPending(e) ==
  /\ event[e] = "new"
  /\ event' = [event EXCEPT ![e] = "marked"]
  /\ UNCHANGED <<now, history, received, claim, issued, sender, locks, outbox>>

(* register_inbound_event takes no lock. *)
StoreEvent(e) ==
  /\ event[e] = "marked"
  /\ event' = [event EXCEPT ![e] = "stored"]
  /\ received' = [received EXCEPT ![e] = now]
  /\ UNCHANGED <<now, history, claim, issued, sender, locks, outbox>>

HoldPhone(e) ==
  /\ event[e] = "stored"
  /\ phoneLock[WebOf[e]] = NoOne
  /\ phoneLock' = [phoneLock EXCEPT ![WebOf[e]] = e]
  /\ event' = [event EXCEPT ![e] = "queueing"]
  /\ UNCHANGED <<now, history, received, claim, issued, sender, capacity,
                 advisory, outbox>>

(* register_inbound_event_and_enqueue waits for the advisory lock; the     *)
(* event has a row already, so no claim is invalidated.                    *)
QueueEvent(e) ==
  /\ event[e] = "queueing"
  /\ advisory = NoOne
  /\ event' = [event EXCEPT ![e] = "queued"]
  /\ phoneLock' = [phoneLock EXCEPT ![WebOf[e]] = NoOne]
  /\ UNCHANGED <<now, history, received, claim, issued, sender, capacity,
                 advisory, outbox>>

(* The orphan scan, or the provider's next delivery, of an event whose     *)
(* request died.                                                           *)
QueueOrphan(e) ==
  /\ event[e] = "orphan"
  /\ advisory = NoOne
  /\ event' = [event EXCEPT ![e] = "queued"]
  /\ UNCHANGED <<now, history, received, claim, issued, sender, locks, outbox>>
-----------------------------------------------------------------------------
(* The worker, one turn at a time; the answer's row is written later. *)

RecordMessage(e) ==
  /\ event[e] = "queued"
  /\ \A d \in Events : event[d] # "answering"
  /\ rows' = Append(rows, now)
  /\ recorded' = recorded \cup {e}
  /\ event' = [event EXCEPT
                 ![e] = IF status = "bot_active" THEN "answering" ELSE "answered"]
  /\ UNCHANGED <<now, status, received, claim, issued, sender, locks, outbox>>

RecordAnswer(e) ==
  /\ event[e] = "answering"
  /\ rows' = Append(rows, now)
  /\ event' = [event EXCEPT ![e] = "answered"]
  /\ UNCHANGED <<now, status, recorded, received, claim, issued, sender, locks,
                 outbox>>
-----------------------------------------------------------------------------
(* A request to send a reviewed reply. *)

Web(s) == WebOf[s]
Step(s, pc) == sender' = [sender EXCEPT ![s] = Request(pc, sender[s].token)]

(* _has_newer_inbound_event *)
HasNewerEvent == \E e \in Stored : received[e] >= rows[Last]

(* admin_recovery_send: the first look, before any lock. *)
OpenSend(s) ==
  /\ sender[s].pc = "new"
  /\ Step(s, IF Allowed /\ Last = Seen[s] THEN "admitted" ELSE "ended")
  /\ UNCHANGED <<now, history, webhook, claim, issued, locks, outbox>>

TakeCapacity(s) ==
  /\ sender[s].pc = "admitted"
  /\ capacity[Web(s)] = NoOne
  /\ capacity' = [capacity EXCEPT ![Web(s)] = s]
  /\ Step(s, "limited")
  /\ UNCHANGED <<now, history, webhook, claim, issued, phoneLock, advisory, outbox>>

TakePhone(s) ==
  /\ sender[s].pc = "limited"
  /\ phoneLock[Web(s)] = NoOne
  /\ phoneLock' = [phoneLock EXCEPT ![Web(s)] = s]
  /\ Step(s, "claiming")
  /\ UNCHANGED <<now, history, webhook, claim, issued, capacity, advisory, outbox>>

(* claim_recovery_send accepts: the draft is up to date, was not sent      *)
(* before, and no live claim is in the way.                                *)
Claimable(s) ==
  /\ Allowed /\ Last = Seen[s] /\ ~HasNewerEvent
  /\ ~(claim.seen = Seen[s] /\ claim.status = "sent")
  /\ ~(claim.status = "sending" /\ claim.expires > now)

ClaimSend(s) ==
  /\ sender[s].pc = "claiming"
  /\ advisory = NoOne
  /\ \/ /\ Claimable(s)
        /\ issued' = issued + 1
        /\ claim' = Claim(Seen[s], issued + 1, "sending", now + Lease)
        /\ sender' = [sender EXCEPT ![s] = Request("claimed", issued + 1)]
     \/ /\ ~Claimable(s)
        /\ Step(s, "leaving")
        /\ UNCHANGED <<claim, issued>>
  /\ UNCHANGED <<now, history, webhook, locks, outbox>>

(* Faulty variants (names starting with Bad) state plausible bugs of the   *)
(* definition after them; the properties must tell them from the code.     *)
BadTakeAdvisory(s) ==
  /\ sender[s].pc = "claimed"
  /\ advisory = NoOne
  /\ Step(s, "guarded")
  /\ UNCHANGED <<now, history, webhook, claim, issued, locks, outbox>>

(* acquire_recovery_send_lock *)
TakeAdvisory(s) ==
  /\ sender[s].pc = "claimed"
  /\ advisory = NoOne
  /\ advisory' = s
  /\ Step(s, "guarded")
  /\ UNCHANGED <<now, history, webhook, claim, issued, phoneLock, capacity, outbox>>

BadFinished(s, state) ==
  IF claim.status = "sending" THEN Claim(claim.seen, claim.token, state, now) ELSE claim

(* finish_recovery_send_claim: only the claim with the sender's token. *)
Finished(s, state) ==
  IF claim.token = sender[s].token /\ claim.status = "sending"
  THEN Claim(claim.seen, claim.token, state, now) ELSE claim

(* recovery_send_claim_is_current *)
ClaimIsCurrent(s) ==
  /\ claim.token = sender[s].token /\ claim.status = "sending"
  /\ claim.expires > now
  /\ Allowed
  /\ Last = claim.seen
  /\ ~HasNewerEvent

(* The last look, under the advisory lock: the claim, then has_pending. *)
CheckClaim(s) ==
  /\ sender[s].pc = "guarded"
  /\ \/ /\ ClaimIsCurrent(s) /\ Pending(Web(s)) = {}
        /\ Step(s, "sending")
        /\ UNCHANGED claim
     \/ /\ ~(ClaimIsCurrent(s) /\ Pending(Web(s)) = {})
        /\ claim' = Finished(s, "failed")
        /\ Step(s, "unguarding")
  /\ UNCHANGED <<now, history, webhook, issued, locks, outbox>>

(* send_admin_reply: the provider confirms. *)
SendReply(s) ==
  /\ sender[s].pc = "sending"
  /\ delivered' = [delivered EXCEPT ![Seen[s]] = @ + 1]
  /\ Step(s, "recording")
  /\ UNCHANGED <<now, history, webhook, claim, issued, locks, lost>>

(* The provider refuses, or delivers although the call fails. *)
FailReply(s) ==
  /\ sender[s].pc = "sending"
  /\ \/ UNCHANGED outbox
     \/ /\ delivered' = [delivered EXCEPT ![Seen[s]] = @ + 1]
        /\ lost' = [lost EXCEPT ![Seen[s]] = @ + 1]
  /\ claim' = Finished(s, "failed")
  /\ Step(s, "unguarding")
  /\ UNCHANGED <<now, history, webhook, issued, locks>>

(* add_message, then the end of the claim and of the waiting. *)
RecordReply(s) ==
  /\ sender[s].pc = "recording"
  /\ rows' = Append(rows, now)
  /\ Step(s, "finishing")
  /\ UNCHANGED <<now, recorded, status, webhook, claim, issued, locks, outbox>>

FinishSend(s) ==
  /\ sender[s].pc = "finishing"
  /\ claim' = Finished(s, "sent")
  /\ status' = "human_active"
  /\ Step(s, "unguarding")
  /\ UNCHANGED <<now, rows, recorded, webhook, issued, locks, outbox>>

(* release_recovery_send_lock, then the locks of the process. *)
LeaveGuard(s) ==
  /\ sender[s].pc = "unguarding"
  /\ advisory' = NoOne
  /\ Step(s, "leaving")
  /\ UNCHANGED <<now, history, webhook, claim, issued, phoneLock, capacity, outbox>>

BadLeave(s) ==
  /\ sender[s].pc = "leaving"
  /\ capacity' = [capacity EXCEPT ![Web(s)] = NoOne]
  /\ Step(s, "ended")
  /\ UNCHANGED <<now, history, webhook, claim, issued, phoneLock, advisory, outbox>>

Leave(s) ==
  /\ sender[s].pc = "leaving"
  /\ phoneLock' = [phoneLock EXCEPT ![Web(s)] = NoOne]
  /\ capacity' = [capacity EXCEPT ![Web(s)] = NoOne]
  /\ Step(s, "ended")
  /\ UNCHANGED <<now, history, webhook, claim, issued, advisory, outbox>>
-----------------------------------------------------------------------------
(* Another operator closes the conversation. *)
CloseConversation ==
  /\ status # "closed"
  /\ status' = "closed"
  /\ UNCHANGED <<now, rows, recorded, webhook, claim, issued, sender, locks, outbox>>

(* A web process dies: its requests and locks are gone, its database       *)
(* session gives the advisory lock back, the rows stay.                    *)
CrashWeb(p) ==
  LET mine == {s \in Senders : Web(s) = p}
      unrecorded == {s \in mine : sender[s].pc = "recording"} IN
  /\ sender' = [s \in Senders |->
       IF s \in mine /\ sender[s].pc # "new" THEN Request("ended", 0) ELSE sender[s]]
  /\ event' = [e \in Events |->
       IF e \notin Pending(p) THEN event[e]
       ELSE IF event[e] = "marked" THEN "new" ELSE "orphan"]
  /\ phoneLock' = [phoneLock EXCEPT ![p] = NoOne]
  /\ capacity' = [capacity EXCEPT ![p] = NoOne]
  /\ advisory' = IF advisory \in mine THEN NoOne ELSE advisory
  /\ lost' = [i \in SeenRows |->
       lost[i] + Cardinality({s \in unrecorded : Seen[s] = i})]
  /\ UNCHANGED <<now, history, received, claim, issued, delivered>>

Tick ==
  /\ now < MaxTime
  /\ now' = now + 1
  /\ UNCHANGED <<history, webhook, claim, issued, sender, locks, outbox>>

WebhookStep(e) == MarkPending(e) \/ StoreEvent(e) \/ HoldPhone(e) \/ QueueEvent(e)
WorkerStep(e) == QueueOrphan(e) \/ RecordMessage(e) \/ RecordAnswer(e)
SenderStep(s) ==
  \/ OpenSend(s) \/ TakeCapacity(s) \/ TakePhone(s) \/ ClaimSend(s)
  \/ TakeAdvisory(s) \/ CheckClaim(s) \/ SendReply(s) \/ FailReply(s)
  \/ RecordReply(s) \/ FinishSend(s) \/ LeaveGuard(s) \/ Leave(s)

Next ==
  \/ \E e \in Events : WebhookStep(e) \/ WorkerStep(e)
  \/ \E s \in Senders : SenderStep(s)
  \/ \E p \in Webs : CrashWeb(p)
  \/ CloseConversation \/ Tick

Spec == Init /\ [][Next]_vars

(* A request that was accepted runs on: asyncio's locks are first come,    *)
(* first served, and PostgreSQL grants an advisory lock that is free.      *)
(* Nothing is assumed of the clock, of operators and of new callbacks.     *)
Fairness ==
  /\ \A s \in Senders : WF_vars(SenderStep(s))
  /\ \A e \in Events : WF_vars(StoreEvent(e) \/ HoldPhone(e) \/ QueueEvent(e))
                       /\ WF_vars(WorkerStep(e))
FairSpec == Spec /\ Fairness
-----------------------------------------------------------------------------
(* Properties. *)

(* Every variable has its type. *)
TypeOK ==
  /\ now \in 0 .. MaxTime
  /\ rows \in Seq(0 .. MaxTime)
  /\ status \in {"bot_active", "human_pending", "human_active", "closed"}
  /\ event \in [Events -> {"new", "marked", "stored", "queueing", "orphan",
                           "queued", "answering", "answered"}]
  /\ received \in [Events -> 0 .. MaxTime]
  /\ recorded \subseteq Events
  /\ claim \in [seen : Nat, token : Nat, expires : Nat,
                 status : {"none", "sending", "sent", "failed"}]
  /\ issued \in Nat
  /\ sender \in [Senders -> [token : Nat, pc :
        {"new", "admitted", "limited", "claiming", "claimed", "guarded", "sending",
         "recording", "finishing", "unguarding", "leaving", "ended"}]]
  /\ phoneLock \in [Webs -> Senders \cup Events \cup {NoOne}]
  /\ capacity \in [Webs -> Senders \cup {NoOne}]
  /\ advisory \in Senders \cup {NoOne}
  /\ delivered \in [SeenRows -> Nat] /\ lost \in [SeenRows -> Nat]

(* One reviewed draft reaches the customer once, whoever confirms it, in   *)
(* whichever process, however long a send waits: a second delivery stands  *)
(* for one whose row was lost in a crash or a failed call.                 *)
RecoverySentOnce == \A i \in SeenRows : delivered[i] <= 1 + lost[i]

(* A live claim is ended only by the request that holds its token, and     *)
(* replaced only after its lease.                                          *)
LiveClaimIsFenced ==
  [][claim.status = "sending" /\ claim' # claim =>
       \/ claim.expires <= now
       \/ \E s \in Senders : sender[s].token = claim.token /\ sender'[s] # sender[s]
    ]_vars

(* No set of requests waits for each other: each send ends, and each       *)
(* stored callback is queued, whatever locks the others hold.              *)
RequestsEnd ==
  /\ \A s \in Senders : sender[s].pc = "admitted" ~> sender[s].pc = "ended"
  /\ \A e \in Events : event[e] = "stored" ~> event[e] \in {"queued", "answering", "answered"}

=============================================================================
