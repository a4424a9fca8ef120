-------------------------- MODULE RecoverySendProofs --------------------------
(***************************************************************************)
(* A reviewed reply is sent once, and a live claim is fenced: for any      *)
(* processes, requests, callbacks, lease and clock.                        *)
(***************************************************************************)
EXTENDS RecoverySend, TLAPS, FiniteSetTheorems

(* The part of a request that runs under the advisory lock.                *)
Guarded == {"guarded", "sending", "recording", "finishing", "unguarding"}
MutexInv == \A s \in Senders : sender[s].pc \in Guarded => advisory = s

(* A claim with a request's token is for the draft of that request.        *)
TokenInv ==
  /\ claim.token <= issued
  /\ \A s \in Senders :
       /\ sender[s].token <= issued
       /\ sender[s].pc \in Guarded \cup {"claimed"} /\ sender[s].token = claim.token
            => claim.seen = Seen[s]

(* A reply is sent for the latest row, and not yet delivered and recorded; *)
(* once it is, that row is no longer the latest.                           *)
TurnInv ==
  \A s \in Senders :
    /\ sender[s].pc \in {"sending", "recording"} => Len(rows) >= Seen[s]
    /\ sender[s].pc = "sending" => delivered[Seen[s]] <= lost[Seen[s]]
Recording(i) == \E s \in Senders : sender[s].pc = "recording" /\ Seen[s] = i
RowInv ==
  \A i \in SeenRows : delivered[i] > lost[i] => Len(rows) > i \/ Recording(i)

SendInv == TypeOK /\ MutexInv /\ TokenInv /\ TurnInv /\ RowInv /\ RecoverySentOnce

PCs == {"new", "admitted", "limited", "claiming", "claimed", "guarded", "sending",
        "recording", "finishing", "unguarding", "leaving", "ended"}
Stati == {"none", "sending", "sent", "failed"}
-----------------------------------------------------------------------------
LEMMA RequestType ==
  ASSUME NEW pc \in PCs, NEW n \in Nat
  PROVE  Request(pc, n) \in [token : Nat, pc : PCs]
BY DEF Request

LEMMA ClaimType ==
  ASSUME NEW seen \in Nat, NEW token \in Nat, NEW state \in Stati, NEW expires \in Nat
  PROVE  Claim(seen, token, state, expires) \in [seen : Nat, token : Nat, expires : Nat, status : Stati]
BY DEF Claim

LEMMA FinishedType ==
  ASSUME TypeOK, NEW s \in Senders, NEW state \in Stati
  PROVE  /\ Finished(s, state) \in [seen : Nat, token : Nat, expires : Nat, status : Stati]
         /\ Finished(s, state).seen = claim.seen /\ Finished(s, state).token = claim.token
<1>1. claim \in [seen : Nat, token : Nat, expires : Nat, status : Stati] /\ now \in Nat
  BY RecoveryAssumption DEF TypeOK, Stati
<1>2. claim.seen \in Nat /\ claim.token \in Nat BY <1>1
<1>3. Claim(claim.seen, claim.token, state, now) \in
        [seen : Nat, token : Nat, expires : Nat, status : Stati]
  BY <1>1, <1>2, ClaimType
<1> QED BY <1>1, <1>3 DEF Finished, Claim

LEMMA StepType ==
  ASSUME TypeOK, NEW s \in Senders, NEW pc \in PCs, Step(s, pc)
  PROVE  /\ sender' \in [Senders -> [token : Nat, pc : PCs]]
         /\ sender'[s].pc = pc /\ sender'[s].token = sender[s].token
         /\ \A r \in Senders \ {s} : sender'[r] = sender[r]
<1>1. sender \in [Senders -> [token : Nat, pc : PCs]] BY DEF TypeOK, PCs
<1>2. sender[s].token \in Nat BY <1>1
<1>3. Request(pc, sender[s].token) \in [token : Nat, pc : PCs] BY <1>2, RequestType
<1>4. sender' = [sender EXCEPT ![s] = Request(pc, sender[s].token)] BY DEF Step
<1>5. sender'[s] = Request(pc, sender[s].token) BY <1>1, <1>4
<1> QED BY <1>1, <1>3, <1>4, <1>5 DEF Request

(* At most one request is recording, so a crash counts at most one reply.  *)
LEMMA OneLost ==
  ASSUME MutexInv, NEW i, NEW p
  PROVE  LET unrecorded == {s \in Senders : Web(s) = p /\ sender[s].pc = "recording"}
             mine == {s \in unrecorded : Seen[s] = i}
         IN /\ Cardinality(mine) \in Nat
            /\ mine # {} => Cardinality(mine) = 1
<1> DEFINE unrecorded == {s \in Senders : Web(s) = p /\ sender[s].pc = "recording"}
           mine == {s \in unrecorded : Seen[s] = i}
<1>1. CASE mine = {} BY <1>1, FS_EmptySet
<1>2. CASE mine # {}
  <2>1. PICK s \in mine : TRUE BY <1>2
  <2>2. mine = {s} BY <2>1 DEF MutexInv, Guarded
  <2>3. Cardinality({s}) = 1 BY FS_Singleton
  <2>4. Cardinality(mine) = 1 BY <2>2, <2>3
  <2> QED BY <2>4
<1> QED BY <1>1, <1>2

LEMMA CrashEffect ==
  ASSUME TypeOK, MutexInv, NEW p \in Webs, CrashWeb(p)
  PROVE  /\ sender' \in [Senders -> [token : Nat, pc : PCs]]
         /\ \A s \in Senders : sender'[s] = sender[s] \/ sender'[s] = Request("ended", 0)
         /\ \A s \in Senders : Web(s) # p => sender'[s] = sender[s]
         /\ lost' \in [SeenRows -> Nat]
         /\ \A i \in SeenRows : lost'[i] >= lost[i]
         /\ \A s \in Senders : Web(s) = p /\ sender[s].pc = "recording"
              => lost'[Seen[s]] = lost[Seen[s]] + 1
<1> DEFINE mine == {s \in Senders : Web(s) = p}
           unrecorded == {s \in mine : sender[s].pc = "recording"}
           n(i) == Cardinality({s \in unrecorded : Seen[s] = i})
<1>1. sender \in [Senders -> [token : Nat, pc : PCs]] /\ lost \in [SeenRows -> Nat]
  BY DEF TypeOK, PCs
<1>2. Request("ended", 0) \in [token : Nat, pc : PCs] BY RequestType DEF PCs
<1>3. sender' = [s \in Senders |-> IF s \in mine /\ sender[s].pc # "new"
                                   THEN Request("ended", 0) ELSE sender[s]]
  BY DEF CrashWeb
<1>4. lost' = [i \in SeenRows |-> lost[i] + n(i)] BY DEF CrashWeb
<1>5. \A i : n(i) \in Nat /\ (\A s \in unrecorded : Seen[s] = i => n(i) = 1)
  <2> TAKE i
  <2>1. {s \in unrecorded : Seen[s] = i} =
          {s \in {r \in Senders : Web(r) = p /\ sender[r].pc = "recording"} : Seen[s] = i}
    OBVIOUS
  <2> QED BY <2>1, OneLost
<1> HIDE DEF n
<1>6. lost' \in [SeenRows -> Nat] /\ \A i \in SeenRows : lost'[i] >= lost[i]
  BY <1>1, <1>4, <1>5
<1>7. \A s \in unrecorded : Seen[s] \in SeenRows BY DEF SeenRows
<1>8. \A s \in unrecorded : lost'[Seen[s]] = lost[Seen[s]] + 1
  BY <1>4, <1>5, <1>7
<1> QED BY <1>1, <1>2, <1>3, <1>6, <1>8
-----------------------------------------------------------------------------
LEMMA InitSend == Init => SendInv
<1> SUFFICES ASSUME Init PROVE SendInv OBVIOUS
<1> USE RecoveryAssumption
<1>1. \A s \in Senders : sender[s] = Request("new", 0) BY DEF Init
<1>2. claim = Claim(0, 0, "none", 0) /\ issued = 0 BY DEF Init
<1>3. TypeOK
  <2>1. claim \in [seen : Nat, token : Nat, expires : Nat, status : Stati]
    BY <1>2, ClaimType DEF Stati
  <2>2. sender \in [Senders -> [token : Nat, pc : PCs]]
    BY RequestType DEF Init, PCs
  <2>3. rows \in Seq(0 .. MaxTime) BY DEF Init
  <2> QED BY <2>1, <2>2, <2>3 DEF Init, TypeOK, PCs, Stati
<1>4. MutexInv /\ TurnInv BY <1>1 DEF MutexInv, TurnInv, Guarded, Request
<1>5. TokenInv BY <1>1, <1>2 DEF TokenInv, Guarded, Request, Claim
<1>6. RowInv /\ RecoverySentOnce BY DEF Init, RowInv, RecoverySentOnce
<1> QED BY <1>3, <1>4, <1>5, <1>6 DEF SendInv

(* One step per action, grouped by who takes it.                           *)
LEMMA TypeOfEvents ==
  ASSUME TypeOK, NEW e \in Events, WebhookStep(e) \/ WorkerStep(e)
  PROVE  TypeOK'
<1> USE RecoveryAssumption
<1>0. WebOf[e] \in Webs OBVIOUS
<1>1. CASE MarkPending(e) BY <1>1 DEF TypeOK, MarkPending, history, locks, outbox
<1>2. CASE StoreEvent(e) BY <1>2 DEF TypeOK, StoreEvent, history, locks, outbox
<1>3. CASE HoldPhone(e) BY <1>0, <1>3 DEF TypeOK, HoldPhone, history, outbox
<1>4. CASE QueueEvent(e) BY <1>0, <1>4 DEF TypeOK, QueueEvent, history, outbox
<1>5. CASE QueueOrphan(e) BY <1>5 DEF TypeOK, QueueOrphan, history, locks, outbox
<1>6. CASE RecordMessage(e) BY <1>6 DEF TypeOK, RecordMessage, locks, outbox
<1>7. CASE RecordAnswer(e) BY <1>7 DEF TypeOK, RecordAnswer, locks, outbox
<1> QED BY <1>1, <1>2, <1>3, <1>4, <1>5, <1>6, <1>7 DEF WebhookStep, WorkerStep

LEMMA TypeOfSends ==
  ASSUME TypeOK, NEW s \in Senders, SenderStep(s)
  PROVE  TypeOK'
<1> USE RecoveryAssumption
<1> DEFINE ClaimRows == [seen : Nat, token : Nat, expires : Nat, status : Stati]
<1>0. /\ Web(s) \in Webs /\ Seen[s] \in SeenRows /\ sender[s].token \in Nat
      /\ issued + 1 \in Nat /\ now + Lease \in Nat /\ Seen[s] \in Nat
  BY DEF Web, SeenRows, TypeOK
<1>a. ASSUME NEW pc \in PCs, Step(s, pc)
      PROVE  sender' \in [Senders -> [token : Nat, pc : PCs]]
  BY <1>a, StepType
<1>b. ASSUME NEW state \in Stati PROVE Finished(s, state) \in ClaimRows BY <1>b, FinishedType
<1>c. claim \in ClaimRows BY DEF TypeOK, Stati
<1>d. ASSUME sender' \in [Senders -> [token : Nat, pc : PCs]], claim' \in ClaimRows,
             now' = now, event' = event, received' = received, recorded' = recorded,
             rows' \in Seq(0 .. MaxTime), issued' \in Nat,
             status' \in {"bot_active", "human_pending", "human_active", "closed"},
             phoneLock' \in [Webs -> Senders \cup Events \cup {NoOne}],
             capacity' \in [Webs -> Senders \cup {NoOne}],
             advisory' \in Senders \cup {NoOne},
             delivered' \in [SeenRows -> Nat], lost' \in [SeenRows -> Nat]
      PROVE  TypeOK'
  BY <1>d DEF TypeOK, PCs, Stati
<1> DEFINE Frame == /\ rows \in Seq(0 .. MaxTime) /\ issued \in Nat
                    /\ status \in {"bot_active", "human_pending", "human_active", "closed"}
                    /\ phoneLock \in [Webs -> Senders \cup Events \cup {NoOne}]
                    /\ capacity \in [Webs -> Senders \cup {NoOne}]
                    /\ advisory \in Senders \cup {NoOne}
                    /\ delivered \in [SeenRows -> Nat] /\ lost \in [SeenRows -> Nat]
<1>e. Frame BY DEF TypeOK
<1> HIDE DEF ClaimRows
<1>1. CASE OpenSend(s)
  <2>1. \E pc \in PCs : Step(s, pc) BY <1>1 DEF OpenSend, PCs
  <2> QED BY <1>1, <2>1, <1>a, <1>c, <1>d, <1>e
          DEF OpenSend, history, webhook, locks, outbox
<1>2. CASE TakeCapacity(s)
  BY <1>2, <1>0, <1>a, <1>c, <1>d, <1>e DEF TakeCapacity, PCs, history, webhook, outbox
<1>3. CASE TakePhone(s)
  BY <1>3, <1>0, <1>a, <1>c, <1>d, <1>e DEF TakePhone, PCs, history, webhook, outbox
<1>4. CASE ClaimSend(s)
  <2>1. CASE Claimable(s) /\ issued' = issued + 1
    <3>1. Claim(Seen[s], issued + 1, "sending", now + Lease) \in ClaimRows
      BY <1>0, ClaimType DEF ClaimRows, Stati
    <3>2. Request("claimed", issued + 1) \in [token : Nat, pc : PCs]
      BY <1>0, RequestType DEF PCs
    <3>3. sender' = [sender EXCEPT ![s] = Request("claimed", issued + 1)]
          /\ claim' = Claim(Seen[s], issued + 1, "sending", now + Lease)
      BY <1>4, <2>1 DEF ClaimSend
    <3>4. sender' \in [Senders -> [token : Nat, pc : PCs]] BY <3>2, <3>3 DEF TypeOK, PCs
    <3> QED BY <1>4, <2>1, <3>1, <3>3, <3>4, <1>0, <1>d, <1>e
            DEF ClaimSend, history, webhook, locks, outbox
  <2>2. CASE ~Claimable(s)
    BY <1>4, <2>2, <1>a, <1>c, <1>d, <1>e
       DEF ClaimSend, PCs, history, webhook, locks, outbox
  <2> QED BY <1>4, <2>1, <2>2 DEF ClaimSend
<1>5. CASE TakeAdvisory(s)
  BY <1>5, <1>a, <1>c, <1>d, <1>e DEF TakeAdvisory, PCs, history, webhook, outbox
<1>6. CASE CheckClaim(s)
  <2>1. Finished(s, "failed") \in ClaimRows BY <1>b DEF Stati
  <2>2. \E pc \in PCs : Step(s, pc) BY <1>6 DEF CheckClaim, PCs
  <2> QED BY <1>6, <2>1, <2>2, <1>a, <1>c, <1>d, <1>e
          DEF CheckClaim, history, webhook, locks, outbox
<1>7. CASE SendReply(s)
  BY <1>7, <1>0, <1>a, <1>c, <1>d, <1>e DEF SendReply, PCs, history, webhook, locks
<1>8. CASE FailReply(s)
  <2>1. Finished(s, "failed") \in ClaimRows BY <1>b DEF Stati
  <2>2. delivered' \in [SeenRows -> Nat] /\ lost' \in [SeenRows -> Nat]
    <3>1. delivered \in [SeenRows -> Nat] /\ lost \in [SeenRows -> Nat] BY <1>e
    <3>2. delivered[Seen[s]] + 1 \in Nat /\ lost[Seen[s]] + 1 \in Nat BY <1>0, <3>1
    <3> QED BY <1>8, <3>1, <3>2 DEF FailReply, outbox
  <2> QED BY <1>8, <2>1, <2>2, <1>a, <1>c, <1>d, <1>e DEF FailReply, PCs, history, webhook, locks
<1>9. CASE RecordReply(s)
  <2>1. now \in 0 .. MaxTime BY DEF TypeOK
  <2> QED BY <1>9, <2>1, <1>a, <1>c, <1>d, <1>e DEF RecordReply, PCs, webhook, locks, outbox
<1>10. CASE FinishSend(s)
  <2>1. Finished(s, "sent") \in ClaimRows BY <1>b DEF Stati
  <2> QED BY <1>10, <2>1, <1>a, <1>d, <1>e DEF FinishSend, PCs, webhook, locks, outbox
<1>11. CASE LeaveGuard(s)
  BY <1>11, <1>a, <1>c, <1>d, <1>e DEF LeaveGuard, PCs, history, webhook, outbox
<1>12. CASE Leave(s)
  BY <1>12, <1>0, <1>a, <1>c, <1>d, <1>e DEF Leave, PCs, history, webhook, outbox
<1> QED BY <1>1, <1>2, <1>3, <1>4, <1>5, <1>6, <1>7, <1>8, <1>9, <1>10, <1>11, <1>12 DEF SenderStep

LEMMA TypeNext ==
  ASSUME TypeOK, MutexInv, [Next]_vars
  PROVE  TypeOK'
<1> USE RecoveryAssumption
<1>1. CASE \E e \in Events : WebhookStep(e) \/ WorkerStep(e) BY <1>1, TypeOfEvents
<1>2. CASE \E s \in Senders : SenderStep(s) BY <1>2, TypeOfSends
<1>3. ASSUME NEW p \in Webs, CrashWeb(p) PROVE TypeOK'
  <2>1. event' \in [Events -> {"new", "marked", "stored", "queueing", "orphan",
                               "queued", "answering", "answered"}]
    BY <1>3 DEF TypeOK, CrashWeb
  <2>2. sender' \in [Senders -> [token : Nat, pc : PCs]] /\ lost' \in [SeenRows -> Nat]
    BY <1>3, CrashEffect
  <2>3. /\ phoneLock' \in [Webs -> Senders \cup Events \cup {NoOne}]
        /\ capacity' \in [Webs -> Senders \cup {NoOne}]
        /\ advisory' \in Senders \cup {NoOne}
    BY <1>3 DEF TypeOK, CrashWeb
  <2>4. UNCHANGED <<now, rows, recorded, status, received, claim, issued, delivered>>
    BY <1>3 DEF CrashWeb, history
  <2> QED BY <2>1, <2>2, <2>3, <2>4 DEF TypeOK, PCs
<1>4. CASE CloseConversation BY <1>4 DEF TypeOK, CloseConversation, webhook, locks, outbox
<1>5. CASE Tick BY <1>5 DEF TypeOK, Tick, history, webhook, locks, outbox
<1>6. CASE UNCHANGED vars BY <1>6 DEF TypeOK, vars, history, webhook, locks, outbox
<1> QED BY <1>1, <1>2, <1>3, <1>4, <1>5, <1>6 DEF Next
-----------------------------------------------------------------------------
Rest == MutexInv /\ TokenInv /\ TurnInv /\ RowInv /\ RecoverySentOnce

LEMMA Typed ==
  ASSUME TypeOK
  PROVE  /\ now \in Nat /\ issued \in Nat /\ Len(rows) \in Nat
         /\ claim.token \in Nat /\ claim.expires \in Nat /\ claim.seen \in Nat
         /\ \A s \in Senders : /\ sender[s].token \in Nat /\ sender[s].pc \in PCs
                               /\ Seen[s] \in Nat /\ Seen[s] \in SeenRows
         /\ \A i \in SeenRows : i \in Nat /\ delivered[i] \in Nat /\ lost[i] \in Nat
<1> USE RecoveryAssumption
<1>1. now \in Nat /\ issued \in Nat /\ Len(rows) \in Nat BY DEF TypeOK
<1>2. claim.token \in Nat /\ claim.expires \in Nat /\ claim.seen \in Nat BY DEF TypeOK
<1>3. \A s \in Senders : sender[s].token \in Nat /\ sender[s].pc \in PCs
  BY DEF TypeOK, PCs
<1>4. \A s \in Senders : Seen[s] \in Nat /\ Seen[s] \in SeenRows BY DEF SeenRows
<1>5. \A i \in SeenRows : i \in Nat /\ delivered[i] \in Nat /\ lost[i] \in Nat
  BY DEF TypeOK, SeenRows
<1> QED BY <1>1, <1>2, <1>3, <1>4, <1>5

(* A step of a request that delivers nothing, takes no lock and leaves     *)
(* "recording" only with a new row.                                        *)
LEMMA QuietStep ==
  ASSUME SendInv, TypeOK', NEW s \in Senders, NEW pc \in PCs \ {"sending", "recording"},
         Step(s, pc), advisory' = advisory, issued' = issued,
         claim'.seen = claim.seen, claim'.token = claim.token, Len(rows') >= Len(rows),
         \A i \in SeenRows : delivered'[i] - lost'[i] = delivered[i] - lost[i],
         pc \in Guarded => sender[s].pc \in Guarded,
         pc = "claimed" => sender[s].pc = "claimed",
         sender[s].pc = "recording" => Len(rows') > Len(rows)
  PROVE  Rest'
<1> USE DEF SendInv
<1>1. /\ sender'[s].pc = pc /\ sender'[s].token = sender[s].token
      /\ \A r \in Senders \ {s} : sender'[r] = sender[r]
  BY StepType
<1>2. MutexInv' BY <1>1 DEF MutexInv
<1>3. TokenInv'
  <2>1. claim'.token <= issued' BY DEF TokenInv
  <2>2. ASSUME NEW r \in Senders
        PROVE  /\ sender'[r].token <= issued'
               /\ sender'[r].pc \in Guarded \cup {"claimed"} /\ sender'[r].token = claim'.token
                    => claim'.seen = Seen[r]
    <3>1. CASE r = s BY <3>1, <1>1 DEF TokenInv
    <3>2. CASE r # s BY <3>2, <1>1 DEF TokenInv
    <3> QED BY <3>1, <3>2
  <2> QED BY <2>1, <2>2 DEF TokenInv
<1>4. Len(rows) \in Nat /\ Len(rows') \in Nat /\ \A r \in Senders : Seen[r] \in Nat /\ Seen[r] \in SeenRows
  <2>1. rows' \in Seq(0 .. MaxTime) BY DEF TypeOK
  <2> QED BY <2>1, Typed
<1>5. \A i \in SeenRows : /\ i \in Nat /\ delivered[i] \in Nat /\ lost[i] \in Nat
                         /\ delivered'[i] \in Nat /\ lost'[i] \in Nat
  <2>1. delivered' \in [SeenRows -> Nat] /\ lost' \in [SeenRows -> Nat] BY DEF TypeOK
  <2> QED BY <2>1, Typed
<1>6. TurnInv'
  <2> SUFFICES ASSUME NEW r \in Senders
               PROVE  /\ sender'[r].pc \in {"sending", "recording"} => Len(rows') >= Seen[r]
                      /\ sender'[r].pc = "sending" => delivered'[Seen[r]] <= lost'[Seen[r]]
    BY DEF TurnInv
  <2>1. CASE r = s BY <2>1, <1>1
  <2>2. CASE r # s
    <3>1. sender'[r] = sender[r] BY <1>1, <2>2
    <3>2. sender[r].pc \in {"sending", "recording"} => Len(rows) >= Seen[r] BY DEF TurnInv
    <3>3. sender[r].pc = "sending" => delivered[Seen[r]] <= lost[Seen[r]] BY DEF TurnInv
    <3> QED BY <3>1, <3>2, <3>3, <1>4, <1>5
  <2> QED BY <2>1, <2>2
<1>7. RowInv'
  <2> SUFFICES ASSUME NEW i \in SeenRows, delivered'[i] > lost'[i]
               PROVE  Len(rows') > i \/ \E r \in Senders : sender'[r].pc = "recording" /\ Seen[r] = i
    BY DEF RowInv, Recording
  <2>1. delivered[i] > lost[i] BY <1>5
  <2>2. CASE Len(rows) > i BY <2>2, <1>4, <1>5
  <2>3. ASSUME NEW r \in Senders, sender[r].pc = "recording", Seen[r] = i
        PROVE  Len(rows') > i \/ sender'[r].pc = "recording"
    <3>1. CASE r = s
      <4>1. Len(rows) >= i BY <2>3 DEF TurnInv
      <4> QED BY <4>1, <3>1, <2>3, <1>4
    <3>2. CASE r # s BY <3>2, <2>3, <1>1
    <3> QED BY <3>1, <3>2
  <2> QED BY <2>1, <2>2, <2>3 DEF RowInv, Recording
<1>8. RecoverySentOnce'
  <2> SUFFICES ASSUME NEW i \in SeenRows PROVE delivered'[i] <= 1 + lost'[i]
    BY DEF RecoverySentOnce
  <2>1. delivered[i] <= 1 + lost[i] BY DEF RecoverySentOnce
  <2> QED BY <2>1, <1>5
<1> QED BY <1>2, <1>3, <1>6, <1>7, <1>8 DEF Rest

LEMMA ClaimStep ==
  ASSUME SendInv, TypeOK', NEW s \in Senders, ClaimSend(s)
  PROVE  Rest'
<1> USE RecoveryAssumption DEF SendInv
<1>1. CASE ~Claimable(s)
  <2>1. Step(s, "leaving") BY <1>1 DEF ClaimSend
  <2> QED BY <1>1, <2>1, QuietStep, Typed DEF ClaimSend, history, locks, outbox, PCs, Guarded
<1>2. CASE Claimable(s) /\ issued' = issued + 1
  <2>1. /\ sender' = [sender EXCEPT ![s] = Request("claimed", issued + 1)]
        /\ claim' = Claim(Seen[s], issued + 1, "sending", now + Lease)
        /\ UNCHANGED <<rows, advisory, delivered, lost>> /\ sender[s].pc = "claiming"
    BY <1>2 DEF ClaimSend, history, locks, outbox
  <2>2. sender'[s].pc = "claimed" /\ sender'[s].token = issued + 1
    BY <2>1 DEF TypeOK, Request
  <2>3. \A r \in Senders \ {s} : sender'[r] = sender[r] BY <2>1 DEF TypeOK
  <2>4. claim'.seen = Seen[s] /\ claim'.token = issued + 1 BY <2>1 DEF Claim
  <2>5. MutexInv' BY <2>1, <2>2, <2>3 DEF MutexInv, Guarded
  <2>6. TokenInv'
    <3>1. ASSUME NEW r \in Senders \ {s} PROVE sender'[r].token <= issued /\ sender'[r].token \in Nat
      BY <2>3, Typed DEF TokenInv
    <3> QED BY <3>1, <2>2, <2>4, <1>2, Typed DEF TokenInv
  <2>7. TurnInv' BY <2>1, <2>2, <2>3 DEF TurnInv
  <2>8. RowInv' BY <2>1, <2>2, <2>3 DEF RowInv, Recording
  <2>9. RecoverySentOnce' BY <2>1 DEF RecoverySentOnce
  <2> QED BY <2>5, <2>6, <2>7, <2>8, <2>9 DEF Rest
<1> QED BY <1>1, <1>2 DEF ClaimSend

(* The steps that take or give back the advisory lock.                     *)
LEMMA LockStep ==
  ASSUME SendInv, TypeOK', NEW s \in Senders, TakeAdvisory(s) \/ LeaveGuard(s)
  PROVE  Rest'
<1> USE RecoveryAssumption DEF SendInv
<1> DEFINE pc == IF sender[s].pc = "claimed" THEN "guarded" ELSE "leaving"
<1>1. /\ Step(s, pc) /\ pc \in PCs /\ sender[s].pc \in {"claimed", "unguarding"}
      /\ UNCHANGED <<rows, claim, issued, delivered, lost>>
  BY DEF TakeAdvisory, LeaveGuard, history, outbox, PCs
<1>2. pc = "guarded" => sender[s].pc = "claimed" /\ advisory = NoOne /\ advisory' = s
  BY DEF TakeAdvisory, LeaveGuard
<1>3. pc = "leaving" => sender[s].pc = "unguarding" /\ advisory' = NoOne
  BY DEF TakeAdvisory, LeaveGuard
<1>4. pc \in {"guarded", "leaving"} OBVIOUS
<1> HIDE DEF pc
<1>5. /\ sender'[s].pc = pc /\ sender'[s].token = sender[s].token
      /\ \A r \in Senders \ {s} : sender'[r] = sender[r]
  BY <1>1, StepType
<1>6. MutexInv'
  <2>1. ASSUME NEW r \in Senders \ {s} PROVE sender[r].pc \notin Guarded
    BY <1>2, <1>3, <1>4 DEF MutexInv, Guarded
  <2> QED BY <2>1, <1>2, <1>3, <1>4, <1>5 DEF MutexInv, Guarded
<1>7. TokenInv' BY <1>1, <1>2, <1>4, <1>5 DEF TokenInv, Guarded
<1>8. TurnInv' BY <1>1, <1>4, <1>5 DEF TurnInv
<1>9. RowInv' BY <1>1, <1>4, <1>5 DEF RowInv, Recording
<1>10. RecoverySentOnce' BY <1>1 DEF RecoverySentOnce
<1> QED BY <1>6, <1>7, <1>8, <1>9, <1>10 DEF Rest

(* The last look: the row the reply was written for is still the latest,   *)
(* so no reply to it was delivered and recorded.                           *)
LEMMA CheckStep ==
  ASSUME SendInv, TypeOK', NEW s \in Senders, CheckClaim(s)
  PROVE  Rest'
<1> USE RecoveryAssumption DEF SendInv
<1>1. sender[s].pc = "guarded" /\ UNCHANGED <<rows, advisory, issued, delivered, lost>>
  BY DEF CheckClaim, history, locks, outbox
<1>2. CASE claim' = Finished(s, "failed") /\ Step(s, "unguarding")
  <2>1. claim'.seen = claim.seen /\ claim'.token = claim.token
    BY <1>2, FinishedType DEF Stati
  <2> QED BY <1>1, <1>2, <2>1, QuietStep, Typed DEF PCs, Guarded
<1>3. CASE ClaimIsCurrent(s) /\ claim' = claim /\ Step(s, "sending")
  <2>1. /\ sender'[s].pc = "sending" /\ sender'[s].token = sender[s].token
        /\ \A r \in Senders \ {s} : sender'[r] = sender[r]
    BY <1>3, StepType DEF PCs
  <2>2. Len(rows) = Seen[s]
    BY <1>1, <1>3 DEF ClaimIsCurrent, Last, TokenInv, Guarded
  <2>3. ~Recording(Seen[s]) BY <1>1 DEF Recording, MutexInv, Guarded
  <2>4. delivered[Seen[s]] <= lost[Seen[s]] BY <2>2, <2>3, Typed DEF RowInv
  <2>5. MutexInv' BY <1>1, <2>1 DEF MutexInv, Guarded
  <2>6. TokenInv' BY <1>1, <1>3, <2>1 DEF TokenInv, Guarded
  <2>7. TurnInv' BY <1>1, <2>1, <2>2, <2>4, Typed DEF TurnInv
  <2>8. RowInv' BY <1>1, <2>1 DEF RowInv, Recording
  <2>9. RecoverySentOnce' BY <1>1 DEF RecoverySentOnce
  <2> QED BY <2>5, <2>6, <2>7, <2>8, <2>9 DEF Rest
<1> QED BY <1>2, <1>3 DEF CheckClaim

LEMMA DeliverStep ==
  ASSUME SendInv, TypeOK', NEW s \in Senders, SendReply(s)
  PROVE  Rest'
<1> USE RecoveryAssumption DEF SendInv
<1>1. /\ sender[s].pc = "sending" /\ Step(s, "recording")
      /\ delivered' = [delivered EXCEPT ![Seen[s]] = @ + 1]
      /\ UNCHANGED <<rows, advisory, issued, claim, lost>>
  BY DEF SendReply, history, locks
<1>2. /\ sender'[s].pc = "recording" /\ sender'[s].token = sender[s].token
      /\ \A r \in Senders \ {s} : sender'[r] = sender[r]
  BY <1>1, StepType DEF PCs
<1>3. delivered[Seen[s]] <= lost[Seen[s]] /\ Len(rows) >= Seen[s] BY <1>1 DEF TurnInv
<1>4. /\ delivered'[Seen[s]] = delivered[Seen[s]] + 1
      /\ \A i \in SeenRows \ {Seen[s]} : delivered'[i] = delivered[i]
  BY <1>1, Typed DEF TypeOK
<1>5. MutexInv' BY <1>1, <1>2 DEF MutexInv, Guarded
<1>6. TokenInv' BY <1>1, <1>2 DEF TokenInv, Guarded
<1>7. TurnInv'
  <2>1. ASSUME NEW r \in Senders \ {s} PROVE sender'[r].pc # "sending"
    BY <1>1, <1>2 DEF MutexInv, Guarded
  <2> QED BY <2>1, <1>1, <1>2, <1>3 DEF TurnInv
<1>8. RowInv'
  <2> SUFFICES ASSUME NEW i \in SeenRows, delivered'[i] > lost[i]
               PROVE  Len(rows) > i \/ \E r \in Senders : sender'[r].pc = "recording" /\ Seen[r] = i
    BY <1>1 DEF RowInv, Recording
  <2>1. CASE i = Seen[s] BY <2>1, <1>2
  <2>2. CASE i # Seen[s] BY <2>2, <1>1, <1>2, <1>4 DEF RowInv, Recording
  <2> QED BY <2>1, <2>2
<1>9. RecoverySentOnce'
  <2> SUFFICES ASSUME NEW i \in SeenRows PROVE delivered'[i] <= 1 + lost[i]
    BY <1>1 DEF RecoverySentOnce
  <2>1. CASE i = Seen[s] BY <2>1, <1>3, <1>4, Typed
  <2>2. CASE i # Seen[s] BY <2>2, <1>4 DEF RecoverySentOnce
  <2> QED BY <2>1, <2>2
<1> QED BY <1>5, <1>6, <1>7, <1>8, <1>9 DEF Rest

LEMMA FailStep ==
  ASSUME SendInv, TypeOK', NEW s \in Senders, FailReply(s)
  PROVE  Rest'
<1> USE RecoveryAssumption DEF SendInv
<1>1. /\ sender[s].pc = "sending" /\ Step(s, "unguarding") /\ claim' = Finished(s, "failed")
      /\ UNCHANGED <<rows, advisory, issued>>
  BY DEF FailReply, history, locks
<1>2. claim'.seen = claim.seen /\ claim'.token = claim.token
  BY <1>1, FinishedType DEF Stati
<1>3. ASSUME NEW i \in SeenRows
      PROVE  delivered'[i] - lost'[i] = delivered[i] - lost[i]
  <2>1. CASE UNCHANGED outbox BY <2>1 DEF outbox
  <2>2. CASE /\ delivered' = [delivered EXCEPT ![Seen[s]] = @ + 1]
             /\ lost' = [lost EXCEPT ![Seen[s]] = @ + 1]
    <3>1. CASE i = Seen[s]
      <4>1. delivered'[i] = delivered[i] + 1 /\ lost'[i] = lost[i] + 1
        BY <2>2, <3>1 DEF TypeOK
      <4>2. delivered[i] \in Nat /\ lost[i] \in Nat BY Typed
      <4> HIDE DEF SendInv
      <4> QED BY <4>1, <4>2
    <3>2. CASE i # Seen[s]
      <4>1. delivered'[i] = delivered[i] /\ lost'[i] = lost[i] BY <2>2, <3>2 DEF TypeOK
      <4> QED BY <4>1
    <3> QED BY <3>1, <3>2
  <2> QED BY <2>1, <2>2 DEF FailReply
<1> QED BY <1>1, <1>2, <1>3, QuietStep, Typed DEF PCs, Guarded

(* A row is written: whatever was delivered for an older one is settled.   *)
LEMMA RecordStep ==
  ASSUME SendInv, TypeOK', NEW s \in Senders, RecordReply(s)
  PROVE  Rest'
<1> USE RecoveryAssumption DEF SendInv
<1>1. /\ sender[s].pc = "recording" /\ Step(s, "finishing") /\ rows' = Append(rows, now)
      /\ UNCHANGED <<advisory, issued, claim, delivered, lost>>
  BY DEF RecordReply, locks, outbox
<1>2. Len(rows') = Len(rows) + 1 BY <1>1 DEF TypeOK
<1> QED BY <1>1, <1>2, QuietStep, Typed DEF PCs, Guarded

LEMMA FinishStep ==
  ASSUME SendInv, TypeOK', NEW s \in Senders, FinishSend(s)
  PROVE  Rest'
<1> USE RecoveryAssumption DEF SendInv
<1>1. /\ sender[s].pc = "finishing" /\ Step(s, "unguarding") /\ claim' = Finished(s, "sent")
      /\ UNCHANGED <<rows, advisory, issued, delivered, lost>>
  BY DEF FinishSend, locks, outbox
<1>2. claim'.seen = claim.seen /\ claim'.token = claim.token
  BY <1>1, FinishedType DEF Stati
<1> QED BY <1>1, <1>2, QuietStep, Typed DEF PCs, Guarded

(* The steps before the claim and the last one touch neither rows nor claim. *)
LEMMA EdgeStep ==
  ASSUME SendInv, TypeOK', NEW s \in Senders,
         OpenSend(s) \/ TakeCapacity(s) \/ TakePhone(s) \/ Leave(s)
  PROVE  Rest'
<1> USE RecoveryAssumption DEF SendInv
<1>1. PICK pc \in {"admitted", "ended", "limited", "claiming"} : Step(s, pc)
  BY DEF OpenSend, TakeCapacity, TakePhone, Leave
<1>2. /\ sender[s].pc \in {"new", "admitted", "limited", "leaving"}
      /\ UNCHANGED <<rows, advisory, issued, claim, delivered, lost>>
  BY DEF OpenSend, TakeCapacity, TakePhone, Leave, history, locks, outbox
<1> QED BY <1>1, <1>2, QuietStep, Typed DEF PCs, Guarded

LEMMA NextOfSends ==
  ASSUME SendInv, NEW s \in Senders, SenderStep(s)
  PROVE  SendInv'
<1>1. TypeOK' BY TypeOfSends DEF SendInv
<1>2. Rest'
  BY <1>1, EdgeStep, ClaimStep, LockStep, CheckStep, DeliverStep, FailStep, RecordStep,
     FinishStep DEF SenderStep
<1> QED BY <1>1, <1>2 DEF SendInv, Rest

(* What the webhook, the worker, the clock and the operator do: the        *)
(* requests stand still while rows are written.                            *)
LEMMA NextOfOthers ==
  ASSUME SendInv, TypeOK', UNCHANGED <<sender, advisory, claim, issued, delivered, lost>>,
         Len(rows') >= Len(rows)
  PROVE  SendInv'
<1> USE DEF SendInv
<1>1. MutexInv' /\ TokenInv' /\ RecoverySentOnce'
  BY DEF MutexInv, TokenInv, RecoverySentOnce
<1>2. Len(rows) \in Nat /\ Len(rows') \in Nat BY DEF TypeOK
<1>3. TurnInv' BY <1>2, Typed DEF TurnInv
<1>4. RowInv' BY <1>2, Typed DEF RowInv, Recording
<1> QED BY <1>1, <1>3, <1>4

LEMMA NextOfCrash ==
  ASSUME SendInv, TypeOK', NEW p \in Webs, CrashWeb(p)
  PROVE  SendInv'
<1> USE RecoveryAssumption DEF SendInv
<1>1. /\ \A s \in Senders : sender'[s] = sender[s] \/ sender'[s] = Request("ended", 0)
      /\ \A s \in Senders : Web(s) # p => sender'[s] = sender[s]
      /\ \A i \in SeenRows : lost'[i] >= lost[i] /\ lost'[i] \in Nat
      /\ \A s \in Senders : Web(s) = p /\ sender[s].pc = "recording"
           => lost'[Seen[s]] = lost[Seen[s]] + 1
  BY CrashEffect
<1>2. UNCHANGED <<rows, claim, issued, delivered>> BY DEF CrashWeb, history
<1>3. \A s \in Senders : Web(s) = p => sender'[s].pc \in {"new", "ended"}
  BY DEF CrashWeb, Request
<1>4. \A s \in Senders : sender'[s].pc \in Guarded \cup {"claimed"} => sender'[s] = sender[s]
  BY <1>1 DEF Request, Guarded
<1>5. MutexInv'
  <2>1. ASSUME NEW s \in Senders, sender'[s].pc \in Guarded
        PROVE  advisory' = s
    <3>1. advisory = s /\ Web(s) # p BY <1>3, <1>4, <2>1 DEF MutexInv, Guarded
    <3> QED BY <3>1 DEF CrashWeb
  <2> QED BY <2>1 DEF MutexInv
<1>6. TokenInv'
  <2>1. \A s \in Senders : sender'[s].token <= issued
    BY <1>1, Typed DEF TokenInv, Request
  <2> QED BY <2>1, <1>2, <1>4 DEF TokenInv
<1>7. TurnInv'
  <2> SUFFICES ASSUME NEW s \in Senders, sender'[s].pc \in {"sending", "recording"}
               PROVE  /\ Len(rows) >= Seen[s]
                      /\ sender'[s].pc = "sending" => delivered[Seen[s]] <= lost'[Seen[s]]
    BY <1>2 DEF TurnInv
  <2>1. sender'[s] = sender[s] BY <1>4 DEF Guarded
  <2>2. Len(rows) >= Seen[s] BY <2>1 DEF TurnInv
  <2>3. sender[s].pc = "sending" => delivered[Seen[s]] <= lost[Seen[s]] BY DEF TurnInv
  <2> QED BY <2>1, <2>2, <2>3, <1>1, Typed
<1>8. RowInv'
  <2> SUFFICES ASSUME NEW i \in SeenRows, delivered[i] > lost'[i]
               PROVE  Len(rows) > i \/ \E s \in Senders : sender'[s].pc = "recording" /\ Seen[s] = i
    BY <1>2 DEF RowInv, Recording
  <2>1. delivered[i] > lost[i] BY <1>1, Typed
  <2>2. ASSUME NEW s \in Senders, sender[s].pc = "recording", Seen[s] = i
        PROVE  sender'[s].pc = "recording"
    <3>1. CASE Web(s) = p
      <4>1. lost'[i] = lost[i] + 1 BY <1>1, <2>2, <3>1
      <4>2. delivered[i] <= 1 + lost[i] BY DEF RecoverySentOnce
      <4> QED BY <4>1, <4>2, Typed
    <3>2. CASE Web(s) # p BY <1>1, <2>2, <3>2
    <3> QED BY <3>1, <3>2
  <2> QED BY <2>1, <2>2 DEF RowInv, Recording
<1>9. RecoverySentOnce'
  <2> SUFFICES ASSUME NEW i \in SeenRows PROVE delivered[i] <= 1 + lost'[i]
    BY <1>2 DEF RecoverySentOnce
  <2>1. delivered[i] <= 1 + lost[i] BY DEF RecoverySentOnce
  <2> QED BY <2>1, <1>1, Typed
<1> QED BY <1>5, <1>6, <1>7, <1>8, <1>9

LEMMA NextSend ==
  ASSUME SendInv, [Next]_vars
  PROVE  SendInv'
<1>1. TypeOK' BY TypeNext DEF SendInv
<1>2. Len(rows) \in Nat BY Typed DEF SendInv
<1>3. ASSUME NEW e \in Events, WebhookStep(e) \/ WorkerStep(e) PROVE SendInv'
  <2>1. UNCHANGED <<sender, advisory, claim, issued, delivered, lost>>
    BY <1>3 DEF WebhookStep, WorkerStep, MarkPending, StoreEvent, HoldPhone, QueueEvent,
                QueueOrphan, RecordMessage, RecordAnswer, locks, outbox
  <2>2. CASE UNCHANGED rows BY <1>1, <1>2, <2>1, <2>2, NextOfOthers
  <2>3. CASE rows' = Append(rows, now)
    <3>1. Len(rows') = Len(rows) + 1 BY <2>3 DEF SendInv, TypeOK
    <3> QED BY <1>1, <1>2, <2>1, <3>1, NextOfOthers
  <2> QED BY <1>3, <2>2, <2>3
          DEF WebhookStep, WorkerStep, MarkPending, StoreEvent, HoldPhone, QueueEvent,
              QueueOrphan, RecordMessage, RecordAnswer, history
<1>4. CASE \E s \in Senders : SenderStep(s) BY <1>4, NextOfSends
<1>5. CASE \E p \in Webs : CrashWeb(p) BY <1>1, <1>5, NextOfCrash
<1>6. CASE CloseConversation \/ Tick \/ UNCHANGED vars
  BY <1>1, <1>2, <1>6, NextOfOthers DEF CloseConversation, Tick, vars, history, locks, outbox
<1> QED BY <1>3, <1>4, <1>5, <1>6 DEF Next

(* SendInv is inductive.                                                   *)
LEMMA AlwaysSendInv == Spec => []SendInv
BY InitSend, NextSend, PTL DEF Spec

(* Every variable of the recovery queue keeps its type, also when a web    *)
(* process dies while it delivers a reply.                                 *)
THEOREM TypeCorrect == Spec => []TypeOK
<1>1. SendInv => TypeOK BY DEF SendInv
<1> QED BY <1>1, AlwaysSendInv, PTL

(* A reviewed reply reaches the customer once, whatever the number of      *)
(* operators, web processes and callbacks, however short the lease: a      *)
(* second delivery stands for one whose row was lost.                      *)
THEOREM RepliesSentOnce == Spec => []RecoverySentOnce
<1>1. SendInv => RecoverySentOnce BY DEF SendInv
<1> QED BY <1>1, AlwaysSendInv, PTL

(* A live claim is fenced: for any lease and clock, it is ended only by a  *)
(* step of the request that holds its token, and replaced once expired.    *)
THEOREM ClaimsAreFenced == Spec => LiveClaimIsFenced
<1> USE RecoveryAssumption
<1>1. ASSUME SendInv, [Next]_vars, claim.status = "sending", claim' # claim
      PROVE  \/ claim.expires <= now
             \/ \E s \in Senders : sender[s].token = claim.token /\ sender'[s] # sender[s]
  <2> USE DEF SendInv
  <2>1. PICK s \in Senders : SenderStep(s)
    BY <1>1 DEF Next, vars, WebhookStep, WorkerStep, MarkPending, StoreEvent, HoldPhone,
                QueueEvent, QueueOrphan, RecordMessage, RecordAnswer, CrashWeb,
                CloseConversation, Tick
  <2>2. CASE ClaimSend(s)
    <3>1. ~(claim.expires > now) BY <1>1, <2>2 DEF ClaimSend, Claimable
    <3> QED BY <3>1, <1>1, Typed
  <2>3. ASSUME NEW state \in Stati, NEW pc \in PCs, claim' = Finished(s, state),
               Step(s, pc), sender[s].pc # pc
        PROVE  sender[s].token = claim.token /\ sender'[s] # sender[s]
    <3>1. sender[s].token = claim.token BY <1>1, <2>3 DEF Finished
    <3>2. sender'[s].pc = pc BY <1>1, <2>3, StepType
    <3> QED BY <3>1, <3>2, <2>3
  <2>4. CASE CheckClaim(s)
    <3>1. /\ claim' = Finished(s, "failed") /\ Step(s, "unguarding")
          /\ sender[s].pc = "guarded"
      BY <1>1, <2>4 DEF CheckClaim
    <3> QED BY <3>1, <2>3 DEF Stati, PCs
  <2>5. CASE FailReply(s)
    <3>1. /\ claim' = Finished(s, "failed") /\ Step(s, "unguarding")
          /\ sender[s].pc = "sending"
      BY <2>5 DEF FailReply
    <3> QED BY <3>1, <2>3 DEF Stati, PCs
  <2>6. CASE FinishSend(s)
    <3>1. /\ claim' = Finished(s, "sent") /\ Step(s, "unguarding")
          /\ sender[s].pc = "finishing"
      BY <2>6 DEF FinishSend
    <3> QED BY <3>1, <2>3 DEF Stati, PCs
  <2> QED BY <1>1, <2>1, <2>2, <2>4, <2>5, <2>6
          DEF SenderStep, OpenSend, TakeCapacity, TakePhone, TakeAdvisory, SendReply,
              RecordReply, LeaveGuard, Leave
<1>2. SendInv /\ [Next]_vars =>
        [claim.status = "sending" /\ claim' # claim =>
           \/ claim.expires <= now
           \/ \E s \in Senders : sender[s].token = claim.token /\ sender'[s] # sender[s]]_vars
  BY <1>1
<1> QED BY <1>2, AlwaysSendInv, PTL DEF Spec, LiveClaimIsFenced
=============================================================================
